------------------------- MODULE Replication_proofs -------------------------
(***************************************************************************)
(* Theorems of Replication.                                                *)
(***************************************************************************)
EXTENDS Replication, Receiver_proofs

(***************************************************************************)
(* Types.                                                                  *)
(***************************************************************************)

LEMMA MachineIsStandby == Standby = Machine(Val, Loc)
BY DEF Standby, Machine, Rec, Record, Orphan, Entry

LEMMA LocFacts == Static \subseteq Loc /\ Nat \ {0} \subseteq Loc /\ Static \subseteq Addr /\ Heap \subseteq Addr
BY DEF Loc, Addr

LEMMA MsgIsMessage ==
    ASSUME NEW m \in Msg
    PROVE  IsMessage(Val, m)
BY DEF Msg, IsMessage, IsUpdate, WirePtrs

\* The receiving thread leaves the standby in its set.
LEMMA DeliverType ==
    ASSUME NEW s \in Standby, NEW m \in Msg
    PROVE  Deliver(s, m) \in Standby
BY MachineIsStandby, LocFacts, MsgIsMessage, StandbyTakes, ZeroAssumption

\* What the active sends.
LEMMA SentType ==
    ASSUME TypeOK
    PROVE  /\ \A p \in Addr \cup {Null} : WirePtr(p) \in WirePtrs
           /\ \A a \in Addr : UpdateMsg(a) \in Msg /\ BulkMsg(a) \in Msg
           /\ \A a \in Addr : [op |-> "CREATE", id |-> a] \in Msg /\ [op |-> "DELETE", id |-> a] \in Msg
           /\ [op |-> "CLEAN"] \in Msg /\ [op |-> "ORPHAN_COMMIT"] \in Msg
<1>1. \A p \in Addr \cup {Null} : WirePtr(p) \in WirePtrs
  BY DEF WirePtr, WirePtrs
<1>2. \A a \in Addr : mem[a].val \in Val /\ mem[a].ptr \in Addr \cup {Null}
  BY DEF TypeOK, Cell
<1>3. \A a \in Addr : Changed(a) \in SUBSET Fields /\ Fields \in SUBSET Fields
  BY DEF Changed
<1>4. \A a \in Addr : UpdateMsg(a) \in Msg
  BY <1>1, <1>2, <1>3 DEF UpdateMsg, Msg
<1>5. \A a \in Addr : BulkMsg(a) \in Msg
  BY <1>1, <1>2, <1>3 DEF BulkMsg, Msg
<1> QED BY <1>1, <1>4, <1>5 DEF Msg

Commit(S) == [op |-> "COMMIT", snap |-> [a \in S |-> [val |-> mem[a].val, ptr |-> WirePtr(mem[a].ptr)]]]

LEMMA CommitType ==
    ASSUME TypeOK, NEW S \in SUBSET Addr
    PROVE  Commit(S) \in Msg
<1>1. \A a \in S : [val |-> mem[a].val, ptr |-> WirePtr(mem[a].ptr)] \in [val : Val, ptr : WirePtrs]
  BY SentType DEF TypeOK, Cell
<1>2. [a \in S |-> [val |-> mem[a].val, ptr |-> WirePtr(mem[a].ptr)]] \in [S -> [val : Val, ptr : WirePtrs]]
  BY <1>1
<1> QED BY <1>2 DEF Commit, Msg

\* The objects of a bulk sync, and their order.
LEMMA ReachableType == Reachable \subseteq Addr /\ IsFiniteSet(Reachable)
<1>1. Reachable \in SUBSET Addr
  BY DEF Reachable, ReachableFrom, Succ
<1> QED BY <1>1, FiniteAssumption, FS_Subset

LEMMA OrderFacts ==
    ASSUME NEW order \in BulkOrders
    PROVE  /\ order \in Seq(Reachable) /\ order \in Seq(Addr)
           /\ \A i, j \in DOMAIN order : i # j => order[i] # order[j]
           /\ \A a \in Reachable : \E i \in DOMAIN order : order[i] = a
<1>1. order \in SetToSeqs(Reachable)
  BY DEF BulkOrders
<1>2. /\ order \in Seq(Reachable)
      /\ \A i, j \in DOMAIN order : i # j => order[i] # order[j]
      /\ \A a \in Reachable : \E i \in DOMAIN order : order[i] = a
  BY <1>1, ReachableType, SetToSeqsFacts
<1> QED BY <1>2, ReachableType, SeqMonotonic

\* The messages of one operation, appended to the socket.
LEMMA Appended ==
    ASSUME NEW T, NEW a \in Seq(T), NEW b \in Seq(T)
    PROVE  a \o b \in Seq(T) /\ Len(a \o b) = Len(a) + Len(b)
OBVIOUS

\* The messages of a sync and of a bulk sync.
Dirty == Only(db, {a \in Live : Unsynced(a)})
Updates == [i \in DOMAIN Dirty |-> UpdateMsg(Dirty[i])]
Bulks(order) == [i \in DOMAIN order |-> BulkMsg(order[i])]
Commits == <<[op |-> "ORPHAN_COMMIT"], Commit(Reachable)>>

LEMMA UpdatesType ==
    ASSUME TypeOK
    PROVE  /\ Dirty \in Seq(Addr)
           /\ Updates \in Seq(Msg) /\ Len(Updates) = Len(Dirty) /\ DOMAIN Updates = DOMAIN Dirty
           /\ \A i \in DOMAIN Dirty : Dirty[i] \in Live /\ Unsynced(Dirty[i])
           /\ \A a \in Live : Unsynced(a) => \E i \in DOMAIN Dirty : Dirty[i] = a
<1> DEFINE S == {a \in Live : Unsynced(a)}
<1>1. db \in Seq(Addr)
  BY DEF TypeOK
<1>2. Dirty \in Seq(Addr \cap S) /\ HasAll(Dirty, db, S)
  BY <1>1, OnlyFacts DEF Dirty
<1>3. \A i \in DOMAIN Dirty : Dirty[i] \in Addr /\ Dirty[i] \in S
  <2> HIDE DEF S
  <2> QED BY <1>2
<1>4. Dirty \in Seq(Addr)
  <2> HIDE DEF S
  <2> QED BY <1>2, SeqMonotonic
<1>5. Updates = [i \in DOMAIN Dirty |-> Updates[i]] /\ \A i \in DOMAIN Dirty : Updates[i] \in Msg
  BY <1>3, SentType DEF Updates
<1>6. Updates \in Seq(Msg) /\ Len(Updates) = Len(Dirty) /\ DOMAIN Updates = DOMAIN Dirty
  BY <1>4, <1>5, ListOf
<1>7. ASSUME NEW a \in Live, Unsynced(a) PROVE \E i \in DOMAIN Dirty : Dirty[i] = a
  <2>1. PICK i \in DOMAIN db : db[i] = a
    BY DEF Live, ToSet
  <2>2. db[i] \in S
    BY <1>7, <2>1
  <2> QED BY <1>2, <2>1, <2>2 DEF HasAll
<1> QED BY <1>3, <1>4, <1>6, <1>7

LEMMA BulksType ==
    ASSUME TypeOK, NEW order \in BulkOrders
    PROVE  /\ Bulks(order) \in Seq(Msg) /\ Len(Bulks(order)) = Len(order)
           /\ DOMAIN Bulks(order) = DOMAIN order
           /\ Commits \in Seq(Msg) /\ Len(Commits) = 2
<1> DEFINE b == Bulks(order)
<1>1. order \in Seq(Addr)
  BY OrderFacts
<1>2. \A i \in DOMAIN order : order[i] \in Addr
  BY <1>1
<1>3. b = [i \in DOMAIN order |-> b[i]] /\ \A i \in DOMAIN order : b[i] \in Msg
  BY <1>2, SentType DEF Bulks
<1> HIDE DEF b
<1>4. b \in Seq(Msg) /\ Len(b) = Len(order) /\ DOMAIN b = DOMAIN order
  BY <1>1, <1>3, ListOf
<1>5. [op |-> "ORPHAN_COMMIT"] \in Msg /\ Commit(Reachable) \in Msg
  BY SentType, CommitType, ReachableType
<1>6. Commits \in Seq(Msg) /\ Len(Commits) = 2
  BY <1>5 DEF Commits
<1> QED BY <1>4, <1>6 DEF b

LEMMA InitType == Init => TypeOK
<1> SUFFICES ASSUME Init PROVE TypeOK
  OBVIOUS
<1>1. db \in Seq(Static) /\ db \in Seq(Addr)
  <2>1. IsFiniteSet(Static)
    BY LocFacts, FiniteAssumption, FS_Subset
  <2>2. db \in Seq(Static)
    BY <2>1, SetToSeqsFacts DEF Init
  <2> QED BY <2>2, LocFacts, SeqMonotonic
<1>2. ZeroCell \in Cell
  BY ZeroAssumption DEF ZeroCell, Cell
<1>3. sb \in Standby
  <2> DEFINE rec(i) == [id |-> db[i], loc |-> db[i], val |-> Zero, ptr |-> Null]
             d == [i \in DOMAIN db |-> rec(i)]
  <2>1. \A i \in DOMAIN db : rec(i) \in Rec
    <3> TAKE i \in DOMAIN db
    <3>1. db[i] \in Static
      BY <1>1
    <3> QED BY <3>1, LocFacts, ZeroAssumption DEF Rec
  <2>2. d = [i \in DOMAIN db |-> d[i]] /\ \A i \in DOMAIN db : d[i] \in Rec
    BY <2>1
  <2>3. sb = [db |-> d, orphans |-> <<>>, status |-> "up"]
    BY DEF Init, Registered
  <2> HIDE DEF d
  <2>4. d \in Seq(Rec)
    BY <1>1, <2>2, ListOf
  <2>5. <<>> \in Seq(Orphan)
    OBVIOUS
  <2> DEFINE none == <<>>
  <2> HIDE DEF none
  <2>6. none \in Seq(Orphan) /\ sb = [db |-> d, orphans |-> none, status |-> "up"]
    BY <2>3, <2>5 DEF none
  <2> QED BY <2>4, <2>6 DEF Standby
<1>4. chan \in Seq(Msg) /\ Len(chan) <= MaxChan
  BY BoundAssumption DEF Init
<1> QED BY <1>1, <1>2, <1>3, <1>4 DEF Init, TypeOK

LEMMA TypeStep == TypeOK /\ [Next]_vars => TypeOK'
<1> SUFFICES ASSUME TypeOK, [Next]_vars PROVE TypeOK'
  OBVIOUS
<1> USE DEF TypeOK
<1>1. ASSUME NEW a \in Heap, HaCalloc(a) PROVE TypeOK'
  <2> DEFINE m == [op |-> "CREATE", id |-> a]
  <2>1. a \in Addr /\ m \in Msg /\ ZeroCell \in Cell
    BY LocFacts, SentType, ZeroAssumption DEF ZeroCell, Cell
  <2>2. mem' \in [Addr -> Cell] /\ hash' \in [Addr -> Cell]
    BY <1>1, <2>1 DEF HaCalloc
  <2>3. db' \in Seq(Addr)
    BY <1>1, <2>1, ConsFacts DEF HaCalloc
  <2> HIDE DEF m
  <2>4. chan' = Append(chan, m) /\ Len(chan) + 1 <= MaxChan
    BY <1>1 DEF HaCalloc, CanSend, m
  <2>5. chan' \in Seq(Msg) /\ Len(chan') <= MaxChan
    BY <2>1, <2>4
  <2> QED BY <1>1, <2>2, <2>3, <2>5 DEF HaCalloc
<1>2. ASSUME NEW a \in Addr, NEW v \in Val, WriteVal(a, v) PROVE TypeOK'
  <2>1. mem' \in [Addr -> Cell]
    BY <1>2 DEF WriteVal, Cell
  <2> QED BY <1>2, <2>1 DEF WriteVal
<1>3. ASSUME NEW a \in Addr, NEW t \in Addr \cup {Null}, WritePtr(a, t) PROVE TypeOK'
  <2>1. mem' \in [Addr -> Cell]
    BY <1>3 DEF WritePtr, Cell
  <2> QED BY <1>3, <2>1 DEF WritePtr
<1>4. ASSUME NEW i \in DOMAIN db, HaFree(i) PROVE TypeOK'
  <2> DEFINE m == [op |-> "DELETE", id |-> db[i]]
  <2>1. db[i] \in Addr /\ m \in Msg /\ ZeroCell \in Cell
    <3>1. db[i] \in Addr
      OBVIOUS
    <3> QED BY <3>1, SentType, ZeroAssumption DEF ZeroCell, Cell
  <2>2. mem' \in [Addr -> Cell] /\ hash' \in [Addr -> Cell]
    BY <1>4, <2>1 DEF HaFree
  <2>3. db' \in Seq(Addr)
    BY <1>4, RemoveAtFacts DEF HaFree
  <2> HIDE DEF m
  <2>4. chan' = Append(chan, m) /\ Len(chan) + 1 <= MaxChan
    BY <1>4 DEF HaFree, CanSend, m
  <2>5. chan' \in Seq(Msg) /\ Len(chan') <= MaxChan
    BY <2>1, <2>4
  <2>6. stale' \in SUBSET Addr
    BY <1>4 DEF HaFree, Live, ToSet
  <2> QED BY <1>4, <2>2, <2>3, <2>5, <2>6 DEF HaFree
<1>5. ASSUME HaSync PROVE TypeOK'
  <2>1. hash' \in [Addr -> Cell]
    BY <1>5 DEF HaSync
  <2>2. chan' = chan \o Updates /\ Len(chan) + Len(Dirty) <= MaxChan
    BY <1>5 DEF HaSync, Updates, Dirty, CanSend
  <2>3. Updates \in Seq(Msg) /\ Len(Updates) = Len(Dirty)
    BY UpdatesType
  <2>4. chan \o Updates \in Seq(Msg) /\ Len(chan \o Updates) = Len(chan) + Len(Updates)
    <3>1. chan \in Seq(Msg) /\ Updates \in Seq(Msg)
      BY <2>3
    <3> QED BY <3>1, Appended
  <2>5. chan' \in Seq(Msg) /\ Len(chan') <= MaxChan
    BY <2>2, <2>3, <2>4
  <2>6. stale' \in SUBSET Addr
    BY <1>5 DEF HaSync, StillStale, Live, ToSet
  <2> QED BY <1>5, <2>1, <2>5, <2>6 DEF HaSync
<1>6. ASSUME OrderClean PROVE TypeOK'
  <2> DEFINE m == [op |-> "CLEAN"]
  <2>1. m \in Msg
    BY SentType
  <2> HIDE DEF m
  <2>2. chan' = Append(chan, m) /\ Len(chan) + 1 <= MaxChan
    BY <1>6 DEF OrderClean, CanSend, m
  <2>3. chan' \in Seq(Msg) /\ Len(chan') <= MaxChan
    BY <2>1, <2>2
  <2> QED BY <1>6, <2>3 DEF OrderClean, activeVars
<1>7. ASSUME NEW order \in BulkOrders, TheBulkSync(order) PROVE TypeOK'
  <2>1. chan' = (chan \o Bulks(order)) \o Commits /\ Len(chan) + (Len(order) + 2) <= MaxChan
    BY <1>7 DEF TheBulkSync, Bulks, Commits, Commit, CanSend
  <2>2. Bulks(order) \in Seq(Msg) /\ Len(Bulks(order)) = Len(order) /\ Commits \in Seq(Msg) /\ Len(Commits) = 2
    BY BulksType
  <2> DEFINE sent == chan \o Bulks(order)
  <2>3. sent \in Seq(Msg) /\ Len(sent) = Len(chan) + Len(Bulks(order))
    <3>1. chan \in Seq(Msg) /\ Bulks(order) \in Seq(Msg)
      BY <2>2
    <3> QED BY <3>1, Appended
  <2>4. sent \o Commits \in Seq(Msg) /\ Len(sent \o Commits) = Len(sent) + Len(Commits)
    <3>1. sent \in Seq(Msg) /\ Commits \in Seq(Msg)
      BY <2>2, <2>3
    <3> HIDE DEF sent
    <3> QED BY <3>1, Appended
  <2>5. order \in Seq(Addr)
    BY OrderFacts
  <2>6. Len(chan') <= MaxChan
    BY <2>1, <2>2, <2>3, <2>4, <2>5, BoundAssumption
  <2> QED BY <1>7, <2>1, <2>4, <2>6 DEF TheBulkSync, activeVars
<1>8. ASSUME Recv PROVE TypeOK'
  <2>1. Head(chan) \in Msg /\ Tail(chan) \in Seq(Msg) /\ Len(Tail(chan)) = Len(chan) - 1
    BY <1>8 DEF Recv
  <2>2. sb' \in Standby
    BY <1>8, <2>1, DeliverType DEF Recv
  <2>3. Len(Tail(chan)) <= MaxChan
    BY <2>1, BoundAssumption
  <2> QED BY <1>8, <2>1, <2>2, <2>3 DEF Recv, activeVars
<1>9. ASSUME NEW i \in DOMAIN chan, Lose(i) PROVE TypeOK'
  <2>1. chan' \in Seq(Msg) /\ Len(chan') = Len(chan) - 1
    BY <1>9, RemoveAtFacts DEF Lose
  <2>2. Len(chan') <= MaxChan
    BY <2>1, BoundAssumption
  <2> QED BY <1>9, <2>1, <2>2 DEF Lose, activeVars
<1>10. ASSUME NEW i \in DOMAIN chan, Duplicate(i) PROVE TypeOK'
  <2>1. chan[i] \in Msg
    OBVIOUS
  <2>2. chan' \in Seq(Msg) /\ Len(chan') = Len(chan) + 1
    BY <1>10, <2>1, InsertAtFacts DEF Duplicate
  <2> QED BY <1>10, <2>2 DEF Duplicate, activeVars, CanSend
<1>11. ASSUME NEW i \in DOMAIN chan, Reorder(i) PROVE TypeOK'
  <2>1. i + 1 \in DOMAIN chan
    BY <1>11 DEF Reorder
  <2>2. chan' \in Seq(Msg) /\ Len(chan') = Len(chan)
    BY <1>11, <2>1 DEF Reorder
  <2> QED BY <1>11, <2>2 DEF Reorder, activeVars
<1>12. CASE UNCHANGED vars
  BY <1>12 DEF vars
<1> QED BY <1>1, <1>2, <1>3, <1>4, <1>5, <1>6, <1>7, <1>8, <1>9, <1>10, <1>11, <1>12 DEF Next

\* Every variable stays in its set.
THEOREM TypeCorrect == Spec => []TypeOK
BY InitType, TypeStep, PTL DEF Spec

(***************************************************************************)
(* The directory of the standby, when the socket neither loses nor         *)
(* reorders.                                                               *)
(***************************************************************************)

\* What the standby becomes.
LEMMA AfterType ==
    ASSUME NEW s \in Standby, NEW c \in Seq(Msg)
    PROVE  After(s, c) \in Standby
<1> DEFINE good == [n \in 0..Len(c) |-> Standby]
<1>1. Len(c) \in Nat
  OBVIOUS
<1>2. s \in good[0]
  BY <1>1
<1>3. \A n \in 1..Len(c) : \A t \in good[n - 1] : Deliver(t, c[n]) \in good[n]
  BY DeliverType
<1>4. good[Len(c)] = Standby
  BY <1>1
<1> HIDE DEF good
<1> QED BY <1>1, <1>2, <1>3, <1>4, AfterStays

\* The lists of a machine of the model.
LEMMA StandbyLists ==
    ASSUME NEW s \in Standby
    PROVE  /\ s \in Machine(Val, Loc)
           /\ s.db \in Seq(Record(Val, Loc)) /\ s.orphans \in Seq(Entry(Loc))
<1>1. s \in Machine(Val, Loc)
  BY MachineIsStandby
<1> QED BY <1>1 DEF Machine

\* An obj_id that is in the list is found.
LEMMA InDirectory ==
    ASSUME NEW s \in Standby, NEW a
    PROVE  Has(s, a) <=> a \in ToSet(IdsOf(s))
<1>1. s.db \in Seq(Record(Val, Loc))
  BY StandbyLists
<1>2. ASSUME Has(s, a) PROVE a \in ToSet(IdsOf(s))
  <2>1. Lookup(s, a) \in DOMAIN s.db /\ s.db[Lookup(s, a)].id = a
    BY <1>1, <1>2, LookupFacts DEF Has
  <2> QED BY <2>1 DEF IdsOf, ToSet
<1>3. ASSUME a \in ToSet(IdsOf(s)) PROVE Has(s, a)
  <2>1. PICK i \in DOMAIN s.db : s.db[i].id = a
    BY <1>3 DEF IdsOf, ToSet
  <2> QED BY <1>1, <2>1, LookupFacts DEF Has
<1> QED BY <1>2, <1>3

\* Messages that leave the directory alone.
LEMMA KeepsIds ==
    ASSUME NEW s \in Standby, NEW m \in Msg,
           \/ m.op \in {"UPDATE", "ORPHAN_COMMIT", "COMMIT"}
           \/ m.op = "BULK" /\ Has(s, m.id)
    PROVE  Deliver(s, m) \in Standby /\ IdsOf(Deliver(s, m)) = IdsOf(s)
<1> DEFINE t == Deliver(s, m)
<1>1. t \in Standby /\ IsMessage(Val, m)
  BY DeliverType, MsgIsMessage
<1>2. s \in Machine(Val, Loc) /\ s.db \in Seq(Record(Val, Loc))
  BY StandbyLists
<1>3. t.db \in Seq(Record(Val, Loc))
  BY <1>1, StandbyLists
<1>4. CASE m.op = "UPDATE"
  <2>1. t = Update(s, m) /\ IsUpdate(Val, m)
    BY <1>1, <1>4 DEF Deliver, DeliverAt, IsMessage
  <2>2. SameShape(s, t)
    BY <1>2, <2>1, UpdateFacts
  <2> QED BY <1>1, <1>2, <1>3, <2>2, SameShapeFacts
<1>5. CASE m.op = "BULK"
  <2>1. t = BulkUpdate(s, m, FreshLoc(s)) /\ IsUpdate(Val, m) /\ Has(s, m.id)
    BY <1>1, <1>5 DEF Deliver, DeliverAt, IsMessage
  <2>2. t = Update(s, m)
    BY <2>1 DEF BulkUpdate, Has
  <2>3. SameShape(s, t)
    BY <1>2, <2>1, <2>2, UpdateFacts
  <2> QED BY <1>1, <1>2, <1>3, <2>3, SameShapeFacts
<1>6. CASE m.op = "ORPHAN_COMMIT"
  <2>1. t = CommitOrphans(s)
    BY <1>6 DEF Deliver, DeliverAt
  <2>2. SameShape(s, t)
    BY <1>2, <2>1, CommitFacts
  <2> QED BY <1>1, <1>2, <1>3, <2>2, SameShapeFacts
<1>7. CASE m.op = "COMMIT"
  <2>1. t = s
    BY <1>7 DEF Deliver, DeliverAt
  <2> QED BY <2>1
<1> QED BY <1>4, <1>5, <1>6, <1>7

\* And sequences of them.
LEMMA KeepIds ==
    ASSUME NEW s \in Standby, NEW c \in Seq(Msg),
           \A i \in DOMAIN c : \/ c[i].op \in {"UPDATE", "ORPHAN_COMMIT", "COMMIT"}
                               \/ c[i].op = "BULK" /\ c[i].id \in ToSet(IdsOf(s))
    PROVE  After(s, c) \in Standby /\ IdsOf(After(s, c)) = IdsOf(s)
<1> DEFINE G == {t \in Standby : IdsOf(t) = IdsOf(s)}
           good == [n \in 0..Len(c) |-> G]
<1>1. Len(c) \in Nat /\ s \in good[0] /\ good[Len(c)] = G
  OBVIOUS
<1>2. ASSUME NEW n \in 1..Len(c), NEW t \in good[n - 1] PROVE Deliver(t, c[n]) \in good[n]
  <2>1. t \in Standby /\ IdsOf(t) = IdsOf(s) /\ c[n] \in Msg /\ n \in DOMAIN c
    OBVIOUS
  <2>2. \/ c[n].op \in {"UPDATE", "ORPHAN_COMMIT", "COMMIT"}
        \/ c[n].op = "BULK" /\ Has(t, c[n].id)
    BY <2>1, InDirectory
  <2>3. Deliver(t, c[n]) \in G
    BY <2>1, <2>2, KeepsIds
  <2> QED BY <2>3
<1> HIDE DEF good
<1>3. After(s, c) \in good[Len(c)]
  BY <1>1, <1>2, AfterStays
<1> QED BY <1>1, <1>3

\* Every object is in the list of the active once, and the global ones stay.
Registry == /\ \A i, j \in DOMAIN db : i # j => db[i] # db[j]
            /\ Static \subseteq Live

LEMMA ReachableLive ==
    ASSUME TypeOK, Registry
    PROVE  Reachable \subseteq Live
<1>1. Live \subseteq Addr
  BY DEF TypeOK, Live, ToSet
<1>2. DOMAIN Succ = Addr /\ \A o \in Live : Succ[o] \subseteq Live
  BY <1>1 DEF Succ
<1>3. Closed(Live, Succ)
  BY <1>2 DEF Closed
<1>4. Live \in SUBSET DOMAIN Succ /\ Static \subseteq Live
  BY <1>1, <1>2 DEF Registry
<1> QED BY <1>3, <1>4 DEF Reachable, ReachableFrom

LEMMA RegistryInit == Init => Registry
<1> SUFFICES ASSUME Init PROVE Registry
  OBVIOUS
<1>1. IsFiniteSet(Static)
  BY LocFacts, FiniteAssumption, FS_Subset
<1>2. /\ \A i, j \in DOMAIN db : i # j => db[i] # db[j]
      /\ \A a \in Static : \E i \in DOMAIN db : db[i] = a
  BY <1>1, SetToSeqsFacts DEF Init
<1> QED BY <1>2 DEF Registry, Live, ToSet

LEMMA RegistryStep == TypeOK /\ Registry /\ [Next]_vars => Registry'
<1> SUFFICES ASSUME TypeOK, Registry, [Next]_vars PROVE Registry'
  OBVIOUS
<1>1. db \in Seq(Addr)
  BY DEF TypeOK
<1>2. ASSUME NEW a \in Heap, HaCalloc(a) PROVE Registry'
  <2>1. a \notin Live /\ db' = Cons(a, db) /\ a \in Addr
    BY <1>2, LocFacts DEF HaCalloc
  <2>2. /\ db'[1] = a /\ 1 \in DOMAIN db'
        /\ \A i \in DOMAIN db : i + 1 \in DOMAIN db' /\ db'[i + 1] = db[i]
        /\ \A i \in DOMAIN db' : i # 1 => i - 1 \in DOMAIN db /\ db'[i] = db[i - 1]
        /\ DOMAIN db' \subseteq Int
    <3> DEFINE c == Cons(a, db)
    <3>1. /\ c[1] = a /\ 1 \in DOMAIN c
          /\ \A i \in DOMAIN db : i + 1 \in DOMAIN c /\ c[i + 1] = db[i]
          /\ \A i \in DOMAIN c : i # 1 => i - 1 \in DOMAIN db /\ c[i] = db[i - 1]
          /\ DOMAIN c \subseteq Int
      BY <1>1, <2>1 DEF Cons
    <3> QED BY <2>1, <3>1
  <2>3. ASSUME NEW i \in DOMAIN db', NEW j \in DOMAIN db', i # j PROVE db'[i] # db'[j]
    <3>1. \A k \in DOMAIN db : db[k] # a
      BY <2>1 DEF Live, ToSet
    <3>2. CASE i = 1 \/ j = 1
      BY <2>2, <2>3, <3>1, <3>2
    <3>3. CASE i # 1 /\ j # 1
      <4>1. i - 1 # j - 1
        BY <2>2, <2>3
      <4> QED BY <2>2, <3>3, <4>1 DEF Registry
    <3> QED BY <3>2, <3>3
  <2>4. Live \subseteq Live'
    BY <2>2 DEF Live, ToSet
  <2> QED BY <2>3, <2>4 DEF Registry
<1>3. ASSUME NEW k \in DOMAIN db, HaFree(k) PROVE Registry'
  <2>1. db' = RemoveAt(db, k) /\ db[k] \in Heap
    BY <1>3 DEF HaFree
  <2>2. /\ db' \in Seq(Addr) /\ Len(db') = Len(db) - 1
        /\ \A j \in DOMAIN db' : db'[j] = IF j < k THEN db[j] ELSE db[j + 1]
    BY <1>1, <2>1, RemoveAtFacts
  <2>3. k \in 1..Len(db) /\ Len(db) \in Nat /\ DOMAIN db = 1..Len(db) /\ DOMAIN db' = 1..(Len(db) - 1)
    BY <1>1, <2>2
  <2>4. ASSUME NEW i \in DOMAIN db', NEW j \in DOMAIN db', i # j PROVE db'[i] # db'[j]
    <3>1. Skip(i, k) \in DOMAIN db /\ Skip(j, k) \in DOMAIN db /\ Skip(i, k) # Skip(j, k)
      BY <2>3, <2>4 DEF Skip
    <3>2. db'[i] = db[Skip(i, k)] /\ db'[j] = db[Skip(j, k)]
      BY <2>2 DEF Skip
    <3> QED BY <3>1, <3>2 DEF Registry
  <2>5. ASSUME NEW a \in Static PROVE a \in Live'
    <3>1. PICK i \in DOMAIN db : db[i] = a
      BY DEF Registry, Live, ToSet
    <3>2. i # k
      BY <2>1, <3>1, DistinctAssumption
    <3>3. CASE i < k
      <4>1. i \in DOMAIN db' /\ db'[i] = a
        BY <2>2, <2>3, <3>1, <3>3
      <4> QED BY <4>1 DEF Live, ToSet
    <3>4. CASE i > k
      <4>1. i - 1 \in DOMAIN db' /\ ~(i - 1 < k) /\ (i - 1) + 1 = i
        BY <2>3, <3>4
      <4>2. db'[i - 1] = a
        BY <2>2, <3>1, <4>1
      <4> QED BY <4>1, <4>2 DEF Live, ToSet
    <3>5. i \in Int /\ k \in Int
      BY <2>3
    <3> QED BY <3>2, <3>3, <3>4, <3>5
  <2> QED BY <2>4, <2>5 DEF Registry
<1>4. ASSUME UNCHANGED db PROVE Registry'
  BY <1>4 DEF Registry, Live
<1> QED BY <1>2, <1>3, <1>4
        DEF Next, vars, activeVars, WriteVal, WritePtr, HaSync, OrderClean, TheBulkSync, Recv, Lose, Duplicate, Reorder

\* The socket only carries: nothing is lost, doubled or reordered.
LEMMA NoFaults ==
    ASSUME Net = {}, NEW i \in DOMAIN chan
    PROVE  ~Lose(i) /\ ~Duplicate(i) /\ ~Reorder(i)
BY DEF Lose, Duplicate, Reorder

LEMMA DirectoryInit == Init => SameDirectory
<1> SUFFICES ASSUME Init PROVE SameDirectory
  OBVIOUS
<1>1. TypeOK
  BY InitType
<1>2. Drained = sb
  BY AfterEmpty DEF Init, Drained
<1>3. sb = Registered(db) /\ db \in Seq(Addr)
  BY <1>1 DEF Init, TypeOK
<1>4. sb.db = [i \in DOMAIN db |-> [id |-> db[i], loc |-> db[i], val |-> Zero, ptr |-> Null]]
  BY <1>3 DEF Registered
<1>5. [i \in DOMAIN sb.db |-> sb.db[i].id] = db
  BY <1>3, <1>4
<1> QED BY <1>2, <1>5 DEF SameDirectory

\* The messages of HaSync, and those of TheBulkSync, in the socket.
LEMMA SyncSent ==
    ASSUME TypeOK, HaSync
    PROVE  Drained' = After(Drained, Updates) /\ UNCHANGED <<db, sb>>
<1>1. chan \in Seq(Msg) /\ Updates \in Seq(Msg)
  BY UpdatesType DEF TypeOK
<1>2. After(sb, chan \o Updates) = After(After(sb, chan), Updates)
  BY <1>1, AfterConcat
<1>3. chan' = chan \o Updates /\ UNCHANGED <<db, sb>>
  BY DEF HaSync, Updates, Dirty
<1> QED BY <1>2, <1>3 DEF Drained

LEMMA BulkSent ==
    ASSUME TypeOK, NEW order \in BulkOrders, TheBulkSync(order)
    PROVE  /\ Drained' = After(Drained, Bulks(order) \o Commits)
           /\ Bulks(order) \o Commits \in Seq(Msg)
           /\ chan' = chan \o (Bulks(order) \o Commits)
           /\ UNCHANGED <<db, mem, hash, stale, sb>>
<1> DEFINE b == Bulks(order)
           c == Commits
<1>1. chan \in Seq(Msg) /\ b \in Seq(Msg) /\ c \in Seq(Msg)
  BY BulksType DEF TypeOK
<1>2. chan' = (chan \o b) \o c /\ UNCHANGED <<db, mem, hash, stale, sb>>
  BY DEF TheBulkSync, Bulks, Commits, Commit, activeVars
<1> HIDE DEF b, c
<1>3. (chan \o b) \o c = chan \o (b \o c)
  BY <1>1
<1> DEFINE d == b \o c
<1>4. d \in Seq(Msg)
  BY <1>1
<1> HIDE DEF d
<1>5. After(sb, chan \o d) = After(After(sb, chan), d)
  BY <1>1, <1>4, AfterConcat
<1> QED BY <1>2, <1>3, <1>4, <1>5 DEF Drained, b, c, d

LEMMA DirectoryStep ==
    ASSUME Net = {}, "clean" \notin Ops
    PROVE  TypeOK /\ Registry /\ SameDirectory /\ [Next]_vars => SameDirectory'
<1> SUFFICES ASSUME TypeOK, Registry, SameDirectory, [Next]_vars PROVE SameDirectory'
  OBVIOUS
<1>1. db \in Seq(Addr) /\ chan \in Seq(Msg) /\ sb \in Standby
  BY DEF TypeOK
<1>2. Drained \in Standby /\ IdsOf(Drained) = db
  BY <1>1, AfterType DEF Drained, SameDirectory, IdsOf
<1>3. Drained \in Machine(Val, Loc) /\ Drained.db \in Seq(Record(Val, Loc))
  BY <1>2, StandbyLists
<1>4. SUFFICES IdsOf(Drained') = db'
  BY DEF SameDirectory, IdsOf
<1>5. ASSUME NEW a \in Heap, HaCalloc(a) PROVE IdsOf(Drained') = db'
  <2> DEFINE m == [op |-> "CREATE", id |-> a]
             l == FreshLoc(Drained)
  <2>1. m \in Msg /\ a \in Addr /\ l \in Loc
    BY <1>3, SentType, LocFacts, FreshLocFacts
  <2>2. Deliver(Drained, m) = Create(Drained, a, l)
    BY DEF Deliver, DeliverAt
  <2>3. chan' = Append(chan, m) /\ db' = Cons(a, db) /\ sb' = sb
    BY <1>5 DEF HaCalloc
  <2> HIDE DEF m, l
  <2>4. Drained' = Deliver(Drained, m)
    BY <1>1, <2>1, <2>3, AfterAppend DEF Drained
  <2>5. IdsOf(Create(Drained, a, l)) = Cons(a, IdsOf(Drained))
    BY <1>3, <2>1, CreateFacts, ZeroAssumption
  <2> QED BY <1>2, <2>2, <2>3, <2>4, <2>5
<1>6. ASSUME NEW i \in DOMAIN db, HaFree(i) PROVE IdsOf(Drained') = db'
  <2> DEFINE m == [op |-> "DELETE", id |-> db[i]]
  <2>1. m \in Msg /\ m.id = db[i]
    <3>1. db[i] \in Addr
      BY <1>1
    <3> QED BY <3>1, SentType
  <2>2. Deliver(Drained, m) = Delete(Drained, m)
    BY DEF Deliver, DeliverAt
  <2>3. chan' = Append(chan, m) /\ db' = RemoveAt(db, i) /\ sb' = sb
    BY <1>6 DEF HaFree
  <2> HIDE DEF m
  <2>4. Drained' = Deliver(Drained, m)
    BY <1>1, <2>1, <2>3, AfterAppend DEF Drained
  <2>5. /\ DOMAIN Drained.db = DOMAIN db
        /\ \A j \in DOMAIN db : Drained.db[j].id = db[j]
    BY <1>2 DEF IdsOf
  <2>6. \A j, k \in DOMAIN Drained.db : j # k => Drained.db[j].id # Drained.db[k].id
    BY <2>5 DEF Registry
  <2>7. Lookup(Drained, m.id) = i
    BY <1>3, <2>1, <2>5, <2>6, LookupIn
  <2>8. Has(Drained, m.id)
    BY <1>1, <2>7 DEF Has
  <2>9. IdsOf(Delete(Drained, m)) = RemoveAt(IdsOf(Drained), Lookup(Drained, m.id))
    BY <1>3, <2>6, <2>8, DeleteFinds
  <2> QED BY <1>2, <2>2, <2>3, <2>4, <2>7, <2>9
<1>7. ASSUME HaSync PROVE IdsOf(Drained') = db'
  <2>1. Drained' = After(Drained, Updates) /\ db' = db
    BY <1>7, SyncSent
  <2>2. Updates \in Seq(Msg) /\ \A i \in DOMAIN Updates : Updates[i].op = "UPDATE"
    BY UpdatesType DEF Updates, UpdateMsg
  <2>3. IdsOf(After(Drained, Updates)) = IdsOf(Drained)
    BY <1>2, <2>2, KeepIds
  <2> QED BY <1>2, <2>1, <2>3
<1>8. ASSUME NEW order \in BulkOrders, TheBulkSync(order) PROVE IdsOf(Drained') = db'
  <2> DEFINE b == Bulks(order)
             c == b \o Commits
  <2>1. Drained' = After(Drained, c) /\ db' = db /\ c \in Seq(Msg)
    BY <1>8, BulkSent
  <2>2. b \in Seq(Msg) /\ Len(b) = Len(order) /\ DOMAIN b = DOMAIN order /\ Commits \in Seq(Msg) /\ Len(Commits) = 2
    BY BulksType
  <2>3. \A i \in DOMAIN b : b[i].op = "BULK" /\ b[i].id = order[i]
    BY <2>2 DEF Bulks, BulkMsg
  <2>4. \A i \in DOMAIN order : order[i] \in Live
    BY OrderFacts, ReachableLive
  <2>5. \A i \in {1, 2} : Commits[i].op \in {"ORPHAN_COMMIT", "COMMIT"}
    BY DEF Commits, Commit
  <2>6. ASSUME NEW i \in DOMAIN c
        PROVE  \/ c[i].op \in {"UPDATE", "ORPHAN_COMMIT", "COMMIT"}
               \/ c[i].op = "BULK" /\ c[i].id \in Live
    <3> HIDE DEF b
    <3>1. CASE i \in DOMAIN b
      <4>1. c[i] = b[i]
        BY <2>2, <3>1
      <4> QED BY <2>2, <2>3, <2>4, <3>1, <4>1
    <3>2. CASE i \notin DOMAIN b
      <4>0. b \in Seq(Msg) /\ Commits \in Seq(Msg) /\ c \in Seq(Msg) /\ Len(c) = Len(b) + Len(Commits)
        BY <2>1, <2>2, Appended
      <4>1. Len(b) \in Nat /\ DOMAIN b = 1..Len(b) /\ DOMAIN c = 1..(Len(b) + 2) /\ i \in DOMAIN c
        <5> HIDE DEF c
        <5> QED BY <2>2, <4>0
      <4>2. i > Len(b) /\ i \in Nat
        BY <3>2, <4>1
      <4>3. i - Len(b) \in {1, 2} /\ c[i] = Commits[i - Len(b)]
        BY <2>2, <4>1, <4>2
      <4> QED BY <2>5, <4>3
    <3> QED BY <3>1, <3>2
  <2>7. Live = ToSet(IdsOf(Drained))
    BY <1>2 DEF Live
  <2> HIDE DEF c
  <2>8. IdsOf(After(Drained, c)) = IdsOf(Drained)
    BY <1>2, <2>1, <2>6, <2>7, KeepIds
  <2> QED BY <1>2, <2>1, <2>8
<1>9. ASSUME Recv PROVE IdsOf(Drained') = db'
  <2>1. Drained' = Drained /\ db' = db
    BY <1>1, <1>9, AfterTail DEF Recv, Drained, activeVars
  <2> QED BY <1>2, <2>1
<1>10. ASSUME UNCHANGED <<db, chan, sb>> PROVE IdsOf(Drained') = db'
  BY <1>2, <1>10 DEF Drained
<1>11. ASSUME OrderClean PROVE FALSE
  BY <1>11 DEF OrderClean
<1> QED BY <1>5, <1>6, <1>7, <1>8, <1>9, <1>10, <1>11, NoFaults DEF Next, vars, WriteVal, WritePtr

\* As long as messages are neither lost, doubled nor reordered and the standby
\* is not ordered to clean its state, the standby's object_db becomes the
\* active's: ha_calloc and ha_free leave no object out of step, whatever syncs
\* and bulk syncs come in between.
THEOREM SameDirectoryHolds ==
    ASSUME Net = {}, "clean" \notin Ops
    PROVE  Spec => []SameDirectory
<1>1. Init => TypeOK /\ Registry /\ SameDirectory
  BY InitType, RegistryInit, DirectoryInit
<1>2. TypeOK /\ Registry /\ SameDirectory /\ [Next]_vars => (TypeOK /\ Registry /\ SameDirectory)'
  BY TypeStep, RegistryStep, DirectoryStep
<1> QED BY <1>1, <1>2, PTL DEF Spec

(***************************************************************************)
(* The hashes of the active tell what the standby holds.                   *)
(***************************************************************************)

\* A pointer of the active, on s.
At(s, p) == IF p = Null THEN Null ELSE LocOf(s, p)

\* The standby's copy of a has the contents c, apart from its pointer if a is in S.
Matches(s, a, c, S) ==
    /\ Obj(s, a).val = c.val
    /\ a \notin S => c.ptr \in Live \cup {Null} /\ Obj(s, a).ptr = At(s, c.ptr)

\* No two objects of the standby share their memory.
Apartness == DistinctLocs(Drained) /\ stale \subseteq Live

\* HashedMirror, strengthened: what the pointers that are not stale were hashed
\* from is an object still, the very one.
Mirrored == \A a \in Live : Matches(Drained, a, hash[a], stale)

LEMMA MirroredMirrors == Mirrored => HashedMirror
BY DEF Mirrored, HashedMirror, Matches, Obj, At

\* A live object is found on the standby.
LEMMA LiveFound ==
    ASSUME TypeOK, SameDirectory
    PROVE  /\ Drained \in Standby /\ IdsOf(Drained) = db
           /\ \A a : Has(Drained, a) <=> a \in Live
<1>1. db \in Seq(Addr) /\ chan \in Seq(Msg) /\ sb \in Standby
  BY DEF TypeOK
<1>2. Drained \in Standby /\ IdsOf(Drained) = db
  BY <1>1, AfterType DEF Drained, SameDirectory, IdsOf
<1>3. \A a : Has(Drained, a) <=> a \in ToSet(IdsOf(Drained))
  BY <1>2, InDirectory
<1> QED BY <1>2, <1>3 DEF Live

\* Where the objects of the standby are.
LEMMA NoNull == Loc \cap {Null, Dangling} = {}
BY DistinctAssumption DEF Loc, Addr

LEMMA FoundAt ==
    ASSUME NEW s \in Standby, NEW a, Has(s, a)
    PROVE  /\ Lookup(s, a) \in DOMAIN s.db /\ s.db[Lookup(s, a)].id = a
           /\ LocOf(s, a) = Obj(s, a).loc
           /\ LocOf(s, a) \in Loc /\ LocOf(s, a) # Null /\ LocOf(s, a) # Dangling
           /\ Obj(s, a) \in Record(Val, Loc)
BY MachineIsStandby, NoNull, Found

\* Machines with the same records find the same objects at the same places.
LEMMA SameFound ==
    ASSUME NEW s \in Standby, NEW t \in Standby, SameShape(s, t)
    PROVE  /\ \A a : Lookup(t, a) = Lookup(s, a) /\ (Has(t, a) <=> Has(s, a))
           /\ \A a : Has(s, a) => LocOf(t, a) = LocOf(s, a)
           /\ IdsOf(t) = IdsOf(s)
           /\ DistinctLocs(s) => DistinctLocs(t)
<1>1. s \in Machine(Val, Loc) /\ t \in Machine(Val, Loc)
  BY MachineIsStandby
<1> QED BY <1>1, Alike

\* One UPDATE of a sync.
LEMMA UpdateArrives ==
    ASSUME TypeOK, NEW t \in Standby, \A x \in Live : Has(t, x), NEW a \in Live,
           Matches(t, a, hash[a], stale) \/ Matches(t, a, mem[a], StillStale)
    PROVE  /\ Deliver(t, UpdateMsg(a)) \in Standby
           /\ SameShape(t, Deliver(t, UpdateMsg(a)))
           /\ Matches(Deliver(t, UpdateMsg(a)), a, mem[a], StillStale)
           /\ \A x \in Live : \A c, S : x # a /\ Matches(t, x, c, S)
                                       => Matches(Deliver(t, UpdateMsg(a)), x, c, S)
<1> DEFINE m == UpdateMsg(a)
           u == Deliver(t, m)
           k == Lookup(t, a)
<1>1. Live \subseteq Addr
  BY DEF TypeOK, Live, ToSet
<1>2. m \in Msg /\ m.op = "UPDATE" /\ m.id = a /\ m.fields = Changed(a) /\ m.val = mem[a].val
      /\ m.ptr = WirePtr(mem[a].ptr)
  BY <1>1, SentType DEF UpdateMsg
<1>3. u = Update(t, m) /\ IsUpdate(Val, m)
  BY <1>2, MsgIsMessage DEF Deliver, DeliverAt, IsMessage
<1> HIDE DEF m, u
<1>4. t \in Machine(Val, Loc) /\ t.db \in Seq(Record(Val, Loc))
  BY StandbyLists
<1>5. u \in Standby /\ SameShape(t, u) /\ Updated(t, u, m, k)
  BY <1>2, <1>3, <1>4, UpdateFacts, MachineIsStandby
<1>6. /\ \A x : Lookup(u, x) = Lookup(t, x)
      /\ \A x \in Live : LocOf(u, x) = LocOf(t, x)
  BY <1>5, SameFound
<1>7. \A p \in Live \cup {Null} : At(u, p) = At(t, p)
  BY <1>6 DEF At
<1>8. k # 0 /\ k \in DOMAIN t.db
  BY FoundAt DEF Has
<1>9. Obj(u, a).val = mem[a].val
  <2>1. CASE "val" \in Changed(a)
    BY <1>2, <1>5, <1>6, <1>8, <2>1 DEF Updated, Obj
  <2>2. CASE "val" \notin Changed(a)
    <3>1. mem[a].val = hash[a].val
      BY <2>2 DEF Changed, Fields
    <3> QED BY <1>2, <1>5, <1>6, <1>8, <2>2, <3>1 DEF Updated, Obj, Matches
  <2> QED BY <2>1, <2>2
<1>10. ASSUME a \notin StillStale
       PROVE  mem[a].ptr \in Live \cup {Null} /\ Obj(u, a).ptr = At(t, mem[a].ptr)
  <2>1. CASE "ptr" \in Changed(a)
    <3> DEFINE q == mem[a].ptr
    <3>1. WirePtr(q) # NotTha
      BY <1>10, <2>1 DEF StillStale
    <3>2. q \in Live \cup {Null} /\ m.ptr = q /\ m.ptr # NotTha
      BY <1>2, <3>1 DEF WirePtr
    <3> HIDE DEF q
    <3>3. Obj(u, a).ptr = Pointee(t, m)
      BY <1>2, <1>5, <1>6, <1>8, <2>1, <3>2 DEF Updated, Obj
    <3>4. ~IsOrphan(t, m)
      BY <1>1, <3>2, DistinctAssumption DEF IsOrphan
    <3>5. Pointee(t, m) = At(t, q)
      BY <3>2, <3>4 DEF Pointee, At
    <3> QED BY <3>2, <3>3, <3>5 DEF q
  <2>2. CASE "ptr" \notin Changed(a)
    <3>1. mem[a].ptr = hash[a].ptr /\ a \notin stale
      BY <1>10, <2>2 DEF Changed, Fields, StillStale
    <3>2. mem[a].ptr \in Live \cup {Null} /\ Obj(t, a).ptr = At(t, mem[a].ptr)
      BY <1>10, <3>1 DEF Matches
    <3>3. Obj(u, a).ptr = Obj(t, a).ptr
      BY <1>2, <1>5, <1>6, <1>8, <2>2 DEF Updated, Obj
    <3> QED BY <3>2, <3>3
  <2> QED BY <2>1, <2>2
<1>11. Matches(u, a, mem[a], StillStale)
  BY <1>7, <1>9, <1>10 DEF Matches
<1>12. ASSUME NEW x \in Live, NEW c, NEW S, x # a, Matches(t, x, c, S) PROVE Matches(u, x, c, S)
  <2>1. Lookup(t, x) \in DOMAIN t.db /\ t.db[Lookup(t, x)].id = x /\ t.db[k].id = a
    BY FoundAt
  <2>2. Lookup(t, x) # k
    BY <1>12, <2>1
  <2>3. Obj(u, x) = Obj(t, x)
    BY <1>5, <1>6, <2>1, <2>2 DEF Updated, Obj
  <2> QED BY <1>7, <1>12, <2>3 DEF Matches
<1> QED BY <1>5, <1>11, <1>12 DEF m, u

\* All UPDATEs of a sync: what was hashed becomes what is in memory.
LEMMA SyncArrives ==
    ASSUME TypeOK, SameDirectory, Mirrored
    PROVE  /\ After(Drained, Updates) \in Standby
           /\ SameShape(Drained, After(Drained, Updates))
           /\ \A a \in Live : Matches(After(Drained, Updates), a, mem[a], StillStale)
<1> DEFINE n == Len(Dirty)
           Sent(k) == {Dirty[j] : j \in 1..k}
           Cont(k, a) == IF a \in Sent(k) THEN mem[a] ELSE hash[a]
           Loose(k, a) == IF a \in Sent(k) THEN StillStale ELSE stale
           G(k) == {t \in Standby : /\ SameShape(Drained, t)
                                    /\ \A a \in Live : Matches(t, a, Cont(k, a), Loose(k, a))}
           good == [k \in 0..n |-> G(k)]
<1>1. /\ n \in Nat /\ Len(Updates) = n /\ Updates \in Seq(Msg)
      /\ \A i \in 1..n : Dirty[i] \in Live /\ Updates[i] = UpdateMsg(Dirty[i])
      /\ \A a \in Live : Unsynced(a) => a \in Sent(n)
  <2>1. /\ Dirty \in Seq(Addr) /\ Updates \in Seq(Msg) /\ Len(Updates) = Len(Dirty)
        /\ \A i \in DOMAIN Dirty : Dirty[i] \in Live
        /\ \A a \in Live : Unsynced(a) => \E i \in DOMAIN Dirty : Dirty[i] = a
    BY UpdatesType
  <2>2. n \in Nat /\ DOMAIN Dirty = 1..n
    BY <2>1
  <2> QED BY <2>1, <2>2 DEF Updates
<1>2. Drained \in Standby /\ \A a \in Live : Has(Drained, a)
  BY LiveFound
<1>3. Drained \in good[0]
  <2>1. \A a \in Live : Matches(Drained, a, Cont(0, a), Loose(0, a))
    BY DEF Mirrored
  <2> HIDE DEF Cont, Loose
  <2> QED BY <1>1, <1>2, <2>1 DEF SameShape
<1>4. ASSUME NEW k \in 1..n, NEW t \in good[k - 1] PROVE Deliver(t, Updates[k]) \in good[k]
  <2> DEFINE a == Dirty[k]
             u == Deliver(t, UpdateMsg(a))
  <2>1. t \in Standby /\ SameShape(Drained, t) /\ \A x \in Live : Matches(t, x, Cont(k - 1, x), Loose(k - 1, x))
    <3> HIDE DEF Cont, Loose
    <3> QED BY <1>1
  <2>2. a \in Live /\ (Matches(t, a, hash[a], stale) \/ Matches(t, a, mem[a], StillStale))
    BY <1>1, <2>1
  <2> HIDE DEF good
  <2>4. \A x \in Live : Has(t, x)
    BY <1>2, <2>1, SameFound
  <2>6. /\ u \in Standby /\ SameShape(t, u) /\ Matches(u, a, mem[a], StillStale)
        /\ \A x \in Live : \A c, S : x # a /\ Matches(t, x, c, S) => Matches(u, x, c, S)
    BY <2>1, <2>2, <2>4, UpdateArrives
  <2>7. ASSUME NEW x \in Live PROVE Matches(u, x, Cont(k, x), Loose(k, x))
    <3>1. CASE x = a
      <4>1. x \in Sent(k)
        BY <1>1, <3>1
      <4> QED BY <2>6, <3>1, <4>1
    <3>2. CASE x # a
      <4>1. x \in Sent(k) <=> x \in Sent(k - 1)
        <5>1. \A j \in 1..k : j = k \/ j \in 1..(k - 1)
          OBVIOUS
        <5>2. \A j \in 1..(k - 1) : j \in 1..k
          OBVIOUS
        <5> QED BY <3>2, <5>1, <5>2
      <4>2. Cont(k, x) = Cont(k - 1, x) /\ Loose(k, x) = Loose(k - 1, x)
        BY <4>1
      <4> HIDE DEF Cont, Loose, u
      <4> QED BY <2>1, <2>6, <3>2, <4>2
    <3> QED BY <3>1, <3>2
  <2>8. SameShape(Drained, u)
    <3> HIDE DEF u
    <3> QED BY <2>1, <2>6 DEF SameShape
  <2>9. u = Deliver(t, Updates[k])
    BY <1>1
  <2> HIDE DEF Cont, Loose, u
  <2> QED BY <1>1, <2>6, <2>7, <2>8, <2>9 DEF good
<1>5. good[n] = G(n)
  BY <1>1
<1> HIDE DEF good
<1>6. After(Drained, Updates) \in good[Len(Updates)]
  BY <1>1, <1>3, <1>4, AfterStays
<1>7. ASSUME NEW a \in Live PROVE Cont(n, a) = mem[a] /\ (a \in Loose(n, a) => a \in StillStale)
  <2>1. CASE a \in Sent(n)
    BY <2>1
  <2>2. CASE a \notin Sent(n)
    <3>1. ~Unsynced(a)
      BY <1>1, <2>2
    <3>2. mem[a].val = hash[a].val /\ mem[a].ptr = hash[a].ptr /\ "ptr" \notin Changed(a)
      BY <3>1 DEF Unsynced, Changed, Fields
    <3>3. a \in Addr /\ mem[a] \in Cell /\ hash[a] \in Cell
      BY DEF TypeOK, Live, ToSet
    <3>4. mem[a] = hash[a]
      BY <3>2, <3>3 DEF Cell
    <3>5. a \in stale => a \in StillStale
      BY <3>2 DEF StillStale
    <3> QED BY <2>2, <3>4, <3>5
  <2> QED BY <2>1, <2>2
<1> HIDE DEF n, Cont, Loose
<1> QED BY <1>1, <1>5, <1>6, <1>7 DEF Matches

LEMMA MirrorInit == Init => Apartness /\ Mirrored
<1> SUFFICES ASSUME Init PROVE Apartness /\ Mirrored
  OBVIOUS
<1>1. TypeOK /\ Registry /\ SameDirectory
  BY InitType, RegistryInit, DirectoryInit
<1>2. Drained = sb /\ sb \in Standby
  BY <1>1, AfterEmpty DEF Init, Drained, TypeOK
<1>3. /\ DOMAIN sb.db = DOMAIN db
      /\ \A i \in DOMAIN db : /\ sb.db[i].id = db[i] /\ sb.db[i].loc = db[i]
                              /\ sb.db[i].val = Zero /\ sb.db[i].ptr = Null
  <2>1. sb.db = [i \in DOMAIN db |-> [id |-> db[i], loc |-> db[i], val |-> Zero, ptr |-> Null]]
    BY DEF Init, Registered
  <2> QED BY <2>1
<1>4. DistinctLocs(sb)
  BY <1>1, <1>3 DEF DistinctLocs, Registry
<1>5. Live \subseteq Addr /\ Live \subseteq Static
  <2>1. IsFiniteSet(Static)
    BY LocFacts, FiniteAssumption, FS_Subset
  <2>2. db \in Seq(Static)
    BY <2>1, SetToSeqsFacts DEF Init
  <2>3. \A i \in DOMAIN db : db[i] \in Static
    BY <2>2
  <2> QED BY <2>3 DEF Live, ToSet, Addr
<1>6. \A a \in Live : mem[a] = ZeroCell /\ hash[a] = ZeroCell
  BY <1>5 DEF Init
<1>7. ASSUME NEW a \in Live PROVE Matches(sb, a, hash[a], stale)
  <2>1. Has(sb, a)
    BY <1>1, <1>2, LiveFound
  <2>2. Obj(sb, a).val = Zero /\ Obj(sb, a).ptr = Null
    BY <1>2, <1>3, <2>1, FoundAt DEF Obj
  <2>3. hash[a].val = Zero /\ hash[a].ptr = Null
    BY <1>6 DEF ZeroCell
  <2> QED BY <2>2, <2>3 DEF Matches, At
<1>8. Apartness
  BY <1>2, <1>4 DEF Apartness, Init
<1> QED BY <1>2, <1>7, <1>8 DEF Mirrored

LEMMA LiveCreate ==
    ASSUME TypeOK, NEW a \in Heap, HaCalloc(a)
    PROVE  Live' = Live \cup {a} /\ a \notin Live
<1>1. db \in Seq(Addr) /\ a \in Addr /\ db' = Cons(a, db)
  BY LocFacts DEF TypeOK, HaCalloc
<1>2. /\ db'[1] = a /\ 1 \in DOMAIN db'
      /\ \A i \in DOMAIN db : i + 1 \in DOMAIN db' /\ db'[i + 1] = db[i]
      /\ \A i \in DOMAIN db' : i # 1 => i - 1 \in DOMAIN db /\ db'[i] = db[i - 1]
  <2> DEFINE c == Cons(a, db)
  <2>1. /\ c[1] = a /\ 1 \in DOMAIN c
        /\ \A i \in DOMAIN db : i + 1 \in DOMAIN c /\ c[i + 1] = db[i]
        /\ \A i \in DOMAIN c : i # 1 => i - 1 \in DOMAIN db /\ c[i] = db[i - 1]
    BY <1>1 DEF Cons
  <2> QED BY <1>1, <2>1
<1> QED BY <1>2 DEF Live, ToSet, HaCalloc

LEMMA LiveFree ==
    ASSUME TypeOK, Registry, NEW k \in DOMAIN db, HaFree(k)
    PROVE  Live' = Live \ {db[k]}
<1>1. db \in Seq(Addr) /\ db' = RemoveAt(db, k)
  BY DEF TypeOK, HaFree
<1>2. /\ db' \in Seq(Addr) /\ Len(db') = Len(db) - 1
      /\ \A j \in DOMAIN db' : db'[j] = IF j < k THEN db[j] ELSE db[j + 1]
  BY <1>1, RemoveAtFacts
<1>3. k \in 1..Len(db) /\ Len(db) \in Nat /\ DOMAIN db = 1..Len(db) /\ DOMAIN db' = 1..(Len(db) - 1)
  BY <1>1, <1>2
<1>4. ASSUME NEW a \in Live' PROVE a \in Live \ {db[k]}
  <2>1. PICK j \in DOMAIN db' : db'[j] = a
    BY <1>4 DEF Live, ToSet
  <2>2. Skip(j, k) \in DOMAIN db /\ Skip(j, k) # k /\ db[Skip(j, k)] = a
    BY <1>2, <1>3, <2>1 DEF Skip
  <2> QED BY <2>2 DEF Live, ToSet, Registry
<1>5. ASSUME NEW a \in Live, a # db[k] PROVE a \in Live'
  <2>1. PICK i \in DOMAIN db : db[i] = a /\ i # k
    BY <1>5 DEF Live, ToSet
  <2>2. CASE i < k
    <3>1. i \in DOMAIN db' /\ db'[i] = a
      BY <1>2, <1>3, <2>1, <2>2
    <3> QED BY <3>1 DEF Live, ToSet
  <2>3. CASE i > k
    <3>1. i - 1 \in DOMAIN db' /\ ~(i - 1 < k) /\ (i - 1) + 1 = i
      BY <1>3, <2>3
    <3>2. db'[i - 1] = a
      BY <1>2, <2>1, <3>1
    <3> QED BY <3>1, <3>2 DEF Live, ToSet
  <2> QED BY <1>3, <2>1, <2>2, <2>3
<1> QED BY <1>4, <1>5

\* The standby once the message of a creation, or of a deletion, has arrived.
LEMMA CreateSent ==
    ASSUME TypeOK, NEW a \in Heap, HaCalloc(a)
    PROVE  Drained' = Create(Drained, a, FreshLoc(Drained)) /\ FreshLoc(Drained) \in Loc
<1> DEFINE m == [op |-> "CREATE", id |-> a]
<1>1. chan \in Seq(Msg) /\ sb \in Standby /\ Drained \in Standby
  BY AfterType DEF TypeOK, Drained
<1>2. m \in Msg /\ FreshLoc(Drained) \in Loc
  <2>1. Drained.db \in Seq(Record(Val, Loc))
    BY <1>1, StandbyLists
  <2> QED BY <2>1, SentType, LocFacts, FreshLocFacts
<1>3. Deliver(Drained, m) = Create(Drained, a, FreshLoc(Drained))
  BY DEF Deliver, DeliverAt
<1>4. chan' = Append(chan, m) /\ sb' = sb
  BY DEF HaCalloc
<1> HIDE DEF m
<1>5. Drained' = Deliver(Drained, m)
  BY <1>1, <1>2, <1>4, AfterAppend DEF Drained
<1> QED BY <1>2, <1>3, <1>5

LEMMA DeleteSent ==
    ASSUME TypeOK, NEW k \in DOMAIN db, HaFree(k)
    PROVE  Drained' = Delete(Drained, [op |-> "DELETE", id |-> db[k]])
<1> DEFINE m == [op |-> "DELETE", id |-> db[k]]
<1>1. chan \in Seq(Msg) /\ db[k] \in Addr
  BY DEF TypeOK
<1>2. m \in Msg
  BY <1>1, SentType
<1>3. Deliver(Drained, m) = Delete(Drained, m)
  BY DEF Deliver, DeliverAt
<1>4. chan' = Append(chan, m) /\ sb' = sb
  BY DEF HaFree
<1> HIDE DEF m
<1>5. Drained' = Deliver(Drained, m)
  BY <1>1, <1>2, <1>4, AfterAppend DEF Drained
<1> QED BY <1>3, <1>5 DEF m

LEMMA MirrorCreate ==
    ASSUME TypeOK, TypeOK', SameDirectory, Apartness, Mirrored, NEW a \in Heap, HaCalloc(a)
    PROVE  Apartness' /\ Mirrored'
<1> DEFINE l == FreshLoc(Drained)
<1>1. Drained' = Create(Drained, a, l) /\ l \in Loc
  BY CreateSent
<1>2. Drained \in Standby /\ Drained \in Machine(Val, Loc) /\ \A x : Has(Drained, x) <=> x \in Live
  BY LiveFound, StandbyLists
<1>3. Live' = Live \cup {a} /\ a \notin Live /\ a \in Addr
  BY LiveCreate, LocFacts
<1>4. \A i \in DOMAIN Drained.db : Drained.db[i].loc # l
  <2>1. Drained.db \in Seq(Record(Val, Loc))
    BY <1>2, StandbyLists
  <2> QED BY <2>1, FreshLocFacts
<1> DEFINE d == Drained
           t == Create(Drained, a, l)
<1> HIDE DEF l, d
<1>5. /\ Obj(t, a) = [id |-> a, loc |-> l, val |-> Zero, ptr |-> Null]
      /\ \A x : x # a /\ Has(d, x) => Obj(t, x) = Obj(d, x)
      /\ DistinctLocs(t)
  BY <1>1, <1>2, <1>3, <1>4, CreateFacts, ZeroAssumption DEF Apartness, d
<1> HIDE DEF t
<1>6. \A x \in Live : Obj(t, x) = Obj(Drained, x) /\ LocOf(t, x) = LocOf(Drained, x)
  BY <1>2, <1>3, <1>5 DEF LocOf, Obj, d
<1>7. hash' = [hash EXCEPT ![a] = ZeroCell] /\ stale' = stale
  BY DEF HaCalloc
<1>8. \A x \in Live : x # a /\ hash'[x] = hash[x]
  BY <1>3, <1>7 DEF TypeOK
<1>9. hash'[a] = ZeroCell
  BY <1>3, <1>7 DEF TypeOK
<1>10. Drained' = t
  BY <1>1 DEF t
<1>11. ASSUME NEW x \in Live' PROVE Matches(Drained, x, hash[x], stale)'
  <2>1. CASE x = a
    BY <1>5, <1>9, <1>10, <2>1 DEF Matches, At, ZeroCell
  <2>2. CASE x # a
    <3>1. x \in Live /\ Matches(Drained, x, hash[x], stale)
      BY <1>3, <1>11, <2>2 DEF Mirrored
    <3>2. Obj(t, x) = Obj(Drained, x) /\ hash'[x] = hash[x]
      BY <1>6, <1>8, <3>1
    <3> DEFINE p == hash[x].ptr
    <3>3. p \in Live \cup {Null} => p \in Live' \cup {Null} /\ At(t, p) = At(Drained, p)
      BY <1>3, <1>6 DEF At
    <3> QED BY <1>7, <1>10, <3>1, <3>2, <3>3 DEF Matches, At
  <2> QED BY <2>1, <2>2
<1>12. Apartness'
  BY <1>3, <1>5, <1>7, <1>10 DEF Apartness
<1> QED BY <1>11, <1>12 DEF Mirrored

\* The hashes that were computed for the freed object become stale.
LEMMA MirrorFree ==
    ASSUME TypeOK, TypeOK', Registry, SameDirectory, Apartness, Mirrored,
           NEW k \in DOMAIN db, HaFree(k)
    PROVE  Apartness' /\ Mirrored'
<1> DEFINE f == db[k]
           m == [op |-> "DELETE", id |-> f]
           t == Delete(Drained, m)
<1>1. Drained' = t /\ m.id = f
  BY DeleteSent
<1>2. Drained \in Standby /\ Drained \in Machine(Val, Loc) /\ IdsOf(Drained) = db
      /\ \A x : Has(Drained, x) <=> x \in Live
  BY LiveFound, StandbyLists
<1>3. Live' = Live \ {f} /\ f \in Live
  BY LiveFree DEF Live, ToSet
<1>4. \A i, j \in DOMAIN Drained.db : i # j => Drained.db[i].id # Drained.db[j].id
  BY <1>2 DEF IdsOf, Registry
<1> HIDE DEF m, f
<1>5. \A x : x # f /\ Has(Drained, x) =>
         /\ LocOf(t, x) = LocOf(Drained, x)
         /\ Obj(t, x).val = Obj(Drained, x).val
         /\ Obj(t, x).ptr = IF Obj(Drained, x).ptr = LocOf(Drained, f) THEN Dangling
                            ELSE Obj(Drained, x).ptr
  BY <1>1, <1>2, <1>3, <1>4, DeleteFinds
<1>6. DistinctLocs(t)
  BY <1>2, DeleteDistinct DEF Apartness
<1> HIDE DEF t
<1>7. /\ hash' = [hash EXCEPT ![f] = ZeroCell]
      /\ stale' = (stale \cup {a \in Live : hash[a].ptr = f}) \ {f}
  BY DEF HaFree, f
<1>8. \A x \in Live' : x # f /\ x \in Live /\ hash'[x] = hash[x]
  BY <1>3, <1>7 DEF TypeOK
<1>9. ASSUME NEW x \in Live' PROVE Matches(Drained, x, hash[x], stale)'
  <2> DEFINE p == hash[x].ptr
  <2>1. x # f /\ x \in Live /\ hash'[x] = hash[x] /\ Matches(Drained, x, hash[x], stale)
    BY <1>8 DEF Mirrored
  <2>2. /\ Obj(t, x).val = Obj(Drained, x).val
        /\ Obj(t, x).ptr = IF Obj(Drained, x).ptr = LocOf(Drained, f) THEN Dangling
                           ELSE Obj(Drained, x).ptr
    BY <1>2, <1>5, <2>1
  <2>3. ASSUME x \notin stale' PROVE p \in Live' \cup {Null} /\ Obj(t, x).ptr = At(t, p)
    <3>1. p # f /\ x \notin stale
      BY <1>7, <2>1, <2>3
    <3>2. p \in Live \cup {Null} /\ Obj(Drained, x).ptr = At(Drained, p)
      BY <2>1, <3>1 DEF Matches
    <3>3. LocOf(Drained, f) # Null
      BY <1>2, <1>3, FoundAt
    <3>4. p \in Live => LocOf(Drained, p) # LocOf(Drained, f) /\ LocOf(t, p) = LocOf(Drained, p)
      BY <1>2, <1>3, <1>5, <3>1, Apart DEF Apartness
    <3> QED BY <1>3, <2>2, <3>1, <3>2, <3>3, <3>4 DEF At
  <2> QED BY <1>1, <2>1, <2>2, <2>3 DEF Matches, At
<1>10. Apartness'
  BY <1>1, <1>3, <1>6, <1>7 DEF Apartness
<1> QED BY <1>9, <1>10 DEF Mirrored

LEMMA MirrorSync ==
    ASSUME TypeOK, TypeOK', SameDirectory, Apartness, Mirrored, HaSync
    PROVE  Apartness' /\ Mirrored'
<1> DEFINE t == After(Drained, Updates)
<1>1. Drained' = t /\ db' = db
  BY SyncSent
<1>2. t \in Standby /\ SameShape(Drained, t) /\ \A a \in Live : Matches(t, a, mem[a], StillStale)
  BY SyncArrives
<1> HIDE DEF t
<1>3. Live' = Live /\ Live \subseteq Addr /\ stale' = StillStale
  BY <1>1 DEF Live, HaSync, TypeOK, ToSet
<1>4. \A a \in Live : hash'[a] = mem[a]
  BY <1>3 DEF HaSync
<1>5. DistinctLocs(t)
  BY <1>2, LiveFound, SameFound DEF Apartness
<1>6. Mirrored'
  BY <1>1, <1>2, <1>3, <1>4 DEF Mirrored, Matches, At
<1>7. Apartness'
  BY <1>1, <1>3, <1>5 DEF Apartness, StillStale
<1> QED BY <1>6, <1>7

LEMMA MirrorStep ==
    ASSUME Net = {}, Ops \subseteq {"free", "sync"}
    PROVE  /\ TypeOK /\ TypeOK' /\ Registry /\ SameDirectory
           /\ Apartness /\ Mirrored /\ [Next]_vars
           => Apartness' /\ Mirrored'
<1> SUFFICES ASSUME TypeOK, TypeOK', Registry, SameDirectory, Apartness, Mirrored, [Next]_vars
             PROVE  Apartness' /\ Mirrored'
  OBVIOUS
<1>1. ASSUME NEW a \in Heap, HaCalloc(a) PROVE Apartness' /\ Mirrored'
  BY <1>1, MirrorCreate
<1>2. ASSUME NEW k \in DOMAIN db, HaFree(k) PROVE Apartness' /\ Mirrored'
  BY <1>2, MirrorFree
<1>3. ASSUME HaSync PROVE Apartness' /\ Mirrored'
  BY <1>3, MirrorSync
<1>4. ASSUME UNCHANGED <<db, hash, stale>>, Drained' = Drained PROVE Apartness' /\ Mirrored'
  BY <1>4 DEF Apartness, Mirrored, Matches, At, Live
<1>5. ASSUME UNCHANGED <<chan, sb>> PROVE Drained' = Drained
  BY <1>5 DEF Drained
<1>6. ASSUME NEW a \in Addr, NEW v \in Val, WriteVal(a, v) PROVE Apartness' /\ Mirrored'
  BY <1>4, <1>5, <1>6 DEF WriteVal
<1>7. ASSUME NEW a \in Addr, NEW q \in Addr \cup {Null}, WritePtr(a, q) PROVE Apartness' /\ Mirrored'
  BY <1>4, <1>5, <1>7 DEF WritePtr
<1>8. ASSUME Recv PROVE Apartness' /\ Mirrored'
  <2>1. chan \in Seq(Msg)
    BY DEF TypeOK
  <2>2. Drained' = Drained
    BY <1>8, <2>1, AfterTail DEF Recv, Drained
  <2> QED BY <1>4, <1>8, <2>2 DEF Recv, activeVars
<1>9. CASE UNCHANGED vars
  BY <1>4, <1>5, <1>9 DEF vars
<1>10. ~OrderClean /\ \A order \in BulkOrders : ~TheBulkSync(order)
  BY DEF OrderClean, TheBulkSync
<1> QED BY <1>1, <1>2, <1>3, <1>6, <1>7, <1>8, <1>9, <1>10, NoFaults DEF Next

\* When the active only allocates, writes, frees and syncs over a reliable
\* socket, the stored hashes are those of the contents that the standby has or is
\* about to have: mark_changed_objects, which looks at hashes only, misses no
\* change of a data field, and none of a pointer unless its hash was computed for
\* an object that was freed since, or for a pointer to no object.  Nothing is
\* assumed of calloc, which may return what was freed, nor of the application,
\* which may keep pointers to what it freed.
THEOREM HashedMirrorHolds ==
    ASSUME Net = {}, Ops \subseteq {"free", "sync"}
    PROVE  Spec => []HashedMirror
<1> DEFINE Inv == TypeOK /\ Registry /\ SameDirectory /\ Apartness /\ Mirrored
<1>1. Init => Inv
  BY InitType, RegistryInit, DirectoryInit, MirrorInit
<1>2. Inv /\ [Next]_vars => Inv'
  BY TypeStep, RegistryStep, DirectoryStep, MirrorStep
<1>3. Inv => HashedMirror
  BY MirroredMirrors
<1> QED BY <1>1, <1>2, <1>3, PTL DEF Spec

(***************************************************************************)
(* A bulk sync, on a standby that may have missed anything before it.      *)
(***************************************************************************)

\* Its k-th message.
SyncMsg(ord, snap, k) ==
    IF k <= Len(ord)
    THEN [op |-> "BULK", id |-> ord[k], fields |-> Fields, val |-> snap[ord[k]].val, ptr |-> snap[ord[k]].ptr]
    ELSE IF k = Len(ord) + 1 THEN [op |-> "ORPHAN_COMMIT"]
    ELSE [op |-> "COMMIT", snap |-> snap]

LEMMA BulkArrives ==
    ASSUME NEW s \in Standby, DistinctLocs(s), NEW ord, NEW snap, IsSync(ord, snap),
           NEW k \in Nat, k < Len(ord), Arrived(s, ord, snap, k),
           SyncMsg(ord, snap, k + 1) \in Msg
    PROVE  /\ Arrived(Deliver(s, SyncMsg(ord, snap, k + 1)), ord, snap, k + 1)
           /\ Deliver(s, SyncMsg(ord, snap, k + 1)).status = s.status
<1> DEFINE m == SyncMsg(ord, snap, k + 1)
           a == ord[k + 1]
           l == FreshLoc(s)
           t == Base(s, m, l)
<1>1. /\ m.op = "BULK" /\ m.id = a /\ m.fields = Fields /\ m.val = snap[a].val /\ m.ptr = snap[a].ptr
      /\ "val" \in m.fields /\ "ptr" \in m.fields
  <2>1. ord \in Seq(Addr) /\ k + 1 <= Len(ord)
    BY DEF IsSync
  <2> QED BY <2>1 DEF SyncMsg, Fields
<1>2. s \in Machine(Val, Loc) /\ s.db \in Seq(Record(Val, Loc))
  BY StandbyLists
<1>3. l \in Loc /\ \A i \in DOMAIN s.db : s.db[i].loc # l
  BY <1>2, FreshLocFacts, LocFacts
<1>4. m \in Msg /\ IsUpdate(Val, m)
  BY <1>1, MsgIsMessage DEF IsMessage
<1> HIDE DEF m, l
<1>5. /\ t \in Machine(Val, Loc) /\ t.status = s.status /\ Has(t, a) /\ Arrived(t, ord, snap, k)
      /\ BulkUpdate(s, m, l) = Update(t, m)
  BY <1>1, <1>2, <1>3, BaseKeeps, ZeroAssumption
<1> HIDE DEF t
<1>6. Arrived(Update(t, m), ord, snap, k + 1)
  BY <1>1, <1>4, <1>5, NoNull, NextArrives
<1>7. Update(t, m).status = s.status
  BY <1>4, <1>5, UpdateFacts
<1>8. Deliver(s, m) = Update(t, m)
  BY <1>1, <1>5 DEF Deliver, DeliverAt, l
<1> QED BY <1>6, <1>7, <1>8 DEF m

(***************************************************************************)
(* The socket, when bulk syncs and the rest share it: every bulk sync is   *)
(* in one piece, and the standby has taken the part that is gone.          *)
(***************************************************************************)

IsPlain(m) == m.op \in {"CREATE", "DELETE", "CLEAN"}
\* A message after which the bulk sync goes on.
IsOpen(m) == m.op \in {"BULK", "ORPHAN_COMMIT"}

\* A bulk sync fills c from b + 1 on, its first -b messages being gone if b < 0.
SyncAt(c, ord, snap, b) ==
    /\ IsSync(ord, snap)
    /\ b + Len(ord) + 2 <= Len(c)
    /\ b >= 1 => ~IsOpen(c[b])
    /\ \A j \in DOMAIN c : b < j /\ j <= b + Len(ord) + 2 => c[j] = SyncMsg(ord, snap, j - b)

\* What the standby has done with the first k messages of it.
Progress(s, ord, snap, k) ==
    IF k <= Len(ord) THEN Arrived(s, ord, snap, k)
    ELSE DOMAIN s.orphans = {} /\ Holds(s, snap)

InSync(c, s, i) ==
    \E ord, snap : \E b \in Int :
        /\ SyncAt(c, ord, snap, b)
        /\ b < i /\ i <= b + Len(ord) + 2
        /\ b <= 0 => Progress(s, ord, snap, 0 - b)

Calm(c, s) == DOMAIN s.orphans = {} \/ (c # <<>> /\ IsOpen(c[1]))

Flow(c, s) ==
    /\ \A i \in DOMAIN c : IsPlain(c[i]) \/ InSync(c, s, i)
    /\ Calm(c, s)

LEMMA SyncLen ==
    ASSUME NEW ord, NEW snap, IsSync(ord, snap)
    PROVE  Len(ord) \in Nat
BY DEF IsSync

LEMMA SyncMsgFacts ==
    ASSUME NEW ord, NEW snap, IsSync(ord, snap), NEW k \in 1..(Len(ord) + 2)
    PROVE  /\ ~IsPlain(SyncMsg(ord, snap, k))
           /\ SyncMsg(ord, snap, k).op = IF k <= Len(ord) THEN "BULK"
                                         ELSE IF k = Len(ord) + 1 THEN "ORPHAN_COMMIT" ELSE "COMMIT"
           /\ IsOpen(SyncMsg(ord, snap, k)) <=> k <= Len(ord) + 1
           /\ k = Len(ord) + 2 => SyncMsg(ord, snap, k).snap = snap
<1>1. Len(ord) \in Nat
  BY SyncLen
<1> QED BY <1>1 DEF SyncMsg, IsPlain, IsOpen

\* What a position of a bulk sync holds.
LEMMA InsideSync ==
    ASSUME NEW c \in Seq(Msg), NEW ord, NEW snap, NEW b \in Int, SyncAt(c, ord, snap, b),
           NEW i \in DOMAIN c, b < i, i <= b + Len(ord) + 2
    PROVE  /\ i - b \in 1..(Len(ord) + 2) /\ c[i] = SyncMsg(ord, snap, i - b)
           /\ ~IsPlain(c[i])
           /\ IsOpen(c[i]) => i + 1 \in DOMAIN c /\ i + 1 <= b + Len(ord) + 2
<1>1. Len(ord) \in Nat /\ Len(c) \in Nat /\ DOMAIN c = 1..Len(c) /\ b + Len(ord) + 2 <= Len(c)
  BY SyncLen DEF SyncAt
<1>2. i - b \in 1..(Len(ord) + 2) /\ c[i] = SyncMsg(ord, snap, i - b)
  BY <1>1 DEF SyncAt
<1>3. ~IsPlain(c[i]) /\ (IsOpen(c[i]) <=> i - b <= Len(ord) + 1)
  BY <1>2, SyncMsgFacts DEF SyncAt
<1> QED BY <1>1, <1>2, <1>3

\* An open message is followed by one of its bulk sync.
LEMMA OpenGoesOn ==
    ASSUME NEW c \in Seq(Msg), NEW s, Flow(c, s), NEW i \in DOMAIN c, IsOpen(c[i])
    PROVE  i + 1 \in DOMAIN c /\ ~IsPlain(c[i + 1])
<1>1. ~IsPlain(c[i])
  BY DEF IsOpen, IsPlain
<1>2. PICK ord, snap : \E b \in Int : SyncAt(c, ord, snap, b) /\ b < i /\ i <= b + Len(ord) + 2
  BY <1>1 DEF Flow, InSync
<1>3. PICK b \in Int : SyncAt(c, ord, snap, b) /\ b < i /\ i <= b + Len(ord) + 2
  BY <1>2
<1>4. i + 1 \in DOMAIN c /\ i + 1 <= b + Len(ord) + 2
  BY <1>3, InsideSync
<1>5. b < i + 1
  BY <1>3
<1> QED BY <1>3, <1>4, <1>5, InsideSync

\* A bulk sync in a sequence that keeps its messages together, b2 - b later.
LEMMA SyncMoves ==
    ASSUME NEW c, NEW c2 \in Seq(Msg), NEW ord, NEW snap, NEW b \in Int, NEW b2 \in Int,
           SyncAt(c, ord, snap, b),
           b2 + Len(ord) + 2 <= Len(c2),
           b2 >= 1 => ~IsOpen(c2[b2]),
           \A j \in DOMAIN c2 : b2 < j /\ j <= b2 + Len(ord) + 2
                                => j + (b - b2) \in DOMAIN c /\ c2[j] = c[j + (b - b2)]
    PROVE  SyncAt(c2, ord, snap, b2)
<1>1. Len(ord) \in Nat /\ DOMAIN c2 \subseteq Int
  BY SyncLen DEF SyncAt
<1>2. ASSUME NEW j \in DOMAIN c2, b2 < j, j <= b2 + Len(ord) + 2
      PROVE  c2[j] = SyncMsg(ord, snap, j - b2)
  <2> DEFINE i == j + (b - b2)
  <2>1. i \in DOMAIN c /\ c2[j] = c[i]
    BY <1>2
  <2>2. b < i /\ i <= b + Len(ord) + 2 /\ i - b = j - b2
    BY <1>1, <1>2
  <2> HIDE DEF i
  <2> QED BY <2>1, <2>2 DEF SyncAt
<1> QED BY <1>2 DEF SyncAt

LEMMA SyncStays ==
    ASSUME NEW c, NEW c2 \in Seq(Msg), NEW ord, NEW snap, NEW b \in Int,
           SyncAt(c, ord, snap, b),
           b + Len(ord) + 2 <= Len(c2),
           b >= 1 => ~IsOpen(c2[b]),
           \A j \in DOMAIN c2 : b < j /\ j <= b + Len(ord) + 2 => j \in DOMAIN c /\ c2[j] = c[j]
    PROVE  SyncAt(c2, ord, snap, b)
BY DEF SyncAt

LEMMA FlowAppend ==
    ASSUME NEW c \in Seq(Msg), NEW s, Flow(c, s), NEW m \in Msg, IsPlain(m)
    PROVE  Flow(Append(c, m), s)
<1> DEFINE c2 == Append(c, m)
           n == Len(c)
<1>1. /\ n \in Nat /\ DOMAIN c = 1..n
      /\ c2 \in Seq(Msg) /\ Len(c2) = n + 1 /\ DOMAIN c2 = 1..(n + 1)
      /\ c2[n + 1] = m /\ \A j \in 1..n : c2[j] = c[j]
  OBVIOUS
<1> HIDE DEF c2
<1>2. ASSUME NEW i \in DOMAIN c2 PROVE IsPlain(c2[i]) \/ InSync(c2, s, i)
  <2>1. CASE i = n + 1
    BY <1>1, <2>1
  <2>2. CASE i # n + 1 /\ IsPlain(c[i])
    BY <1>1, <2>2
  <2>3. CASE i # n + 1 /\ InSync(c, s, i)
    <3>1. PICK ord, snap : \E b \in Int :
                  SyncAt(c, ord, snap, b) /\ b < i /\ i <= b + Len(ord) + 2
                  /\ (b <= 0 => Progress(s, ord, snap, 0 - b))
      BY <2>3 DEF InSync
    <3>2. PICK b \in Int : SyncAt(c, ord, snap, b) /\ b < i /\ i <= b + Len(ord) + 2
                           /\ (b <= 0 => Progress(s, ord, snap, 0 - b))
      BY <3>1
    <3>3. Len(ord) \in Nat /\ b + Len(ord) + 2 <= n /\ (b >= 1 => ~IsOpen(c[b]))
      BY <3>2, SyncLen DEF SyncAt
    <3>4. b + Len(ord) + 2 <= Len(c2) /\ (b >= 1 => ~IsOpen(c2[b]))
      BY <1>1, <3>3
    <3>5. \A j \in DOMAIN c2 : b < j /\ j <= b + Len(ord) + 2
                                => j \in DOMAIN c /\ c2[j] = c[j]
      BY <1>1, <3>3
    <3>6. SyncAt(c2, ord, snap, b)
      BY <1>1, <3>2, <3>4, <3>5, SyncStays
    <3> QED BY <3>2, <3>6 DEF InSync
  <2> QED BY <1>1, <2>1, <2>2, <2>3 DEF Flow
<1>3. Calm(c2, s)
  <2>1. CASE DOMAIN s.orphans = {}
    BY <2>1 DEF Calm
  <2>2. CASE c # <<>> /\ IsOpen(c[1])
    <3>1. n > 0
      BY <1>1, <2>2
    <3>2. c2[1] = c[1] /\ c2 # <<>>
      BY <1>1, <3>1
    <3> QED BY <2>2, <3>2 DEF Calm
  <2> QED BY <2>1, <2>2 DEF Flow, Calm
<1> QED BY <1>2, <1>3 DEF Flow, c2

\* The messages of a bulk sync, after those in the socket.
LEMMA FlowConcat ==
    ASSUME NEW c \in Seq(Msg), NEW s, Flow(c, s), NEW ord, NEW snap, IsSync(ord, snap),
           NEW q \in Seq(Msg), Len(q) = Len(ord) + 2,
           \A k \in 1..Len(q) : q[k] = SyncMsg(ord, snap, k)
    PROVE  Flow(c \o q, s)
<1> DEFINE c2 == c \o q
           n == Len(c)
           L == Len(ord)
<1>1. c2 \in Seq(Msg) /\ Len(c2) = n + Len(q)
  BY Appended
<1>2. L \in Nat /\ n \in Nat /\ DOMAIN c = 1..n
  BY SyncLen
<1>3. \A j \in 1..n : c2[j] = c[j]
  OBVIOUS
<1>4. \A j \in 1..Len(q) : c2[n + j] = q[j]
  OBVIOUS
<1> HIDE DEF c2
<1>5. Len(c2) = n + L + 2 /\ DOMAIN c2 = 1..(n + L + 2)
  BY <1>1, <1>2
<1>6. n >= 1 => ~IsOpen(c[n])
  BY <1>2, OpenGoesOn
<1>7. SyncAt(c2, ord, snap, n)
  <2>1. ASSUME NEW j \in DOMAIN c2, n < j, j <= n + L + 2 PROVE c2[j] = SyncMsg(ord, snap, j - n)
    <3>1. j - n \in 1..Len(q) /\ j = n + (j - n)
      BY <1>2, <1>5, <2>1
    <3> QED BY <1>4, <3>1
  <2>2. n >= 1 => ~IsOpen(c2[n])
    BY <1>2, <1>3, <1>6
  <2> QED BY <1>2, <1>5, <2>1, <2>2 DEF SyncAt
<1>8. n <= 0 => Progress(s, ord, snap, 0 - n)
  <2> SUFFICES ASSUME n <= 0 PROVE Progress(s, ord, snap, 0 - n)
    OBVIOUS
  <2>1. 0 - n = 0 /\ c = <<>> /\ 0 <= L
    BY <1>2
  <2>2. DOMAIN s.orphans = {}
    BY <2>1 DEF Flow, Calm
  <2>3. Arrived(s, ord, snap, 0)
    BY <2>2 DEF Arrived
  <2> QED BY <2>1, <2>3 DEF Progress
<1>9. ASSUME NEW i \in DOMAIN c2 PROVE IsPlain(c2[i]) \/ InSync(c2, s, i)
  <2>1. CASE i > n
    <3>1. n \in Int /\ n < i /\ i <= n + L + 2
      BY <1>2, <1>5, <2>1
    <3> HIDE DEF n, L
    <3> QED BY <1>7, <1>8, <3>1 DEF InSync, L
  <2>2. CASE i <= n /\ IsPlain(c[i])
    BY <1>2, <1>3, <1>5, <2>2
  <2>3. CASE i <= n /\ InSync(c, s, i)
    <3>1. PICK o2, s2 : \E b \in Int :
                  SyncAt(c, o2, s2, b) /\ b < i /\ i <= b + Len(o2) + 2
                  /\ (b <= 0 => Progress(s, o2, s2, 0 - b))
      BY <2>3 DEF InSync
    <3>2. PICK b \in Int : SyncAt(c, o2, s2, b) /\ b < i /\ i <= b + Len(o2) + 2
                           /\ (b <= 0 => Progress(s, o2, s2, 0 - b))
      BY <3>1
    <3>3. Len(o2) \in Nat /\ b + Len(o2) + 2 <= n /\ (b >= 1 => ~IsOpen(c[b]))
      BY <3>2, SyncLen DEF SyncAt
    <3>4. b + Len(o2) + 2 <= Len(c2) /\ (b >= 1 => ~IsOpen(c2[b]))
      BY <1>2, <1>3, <1>5, <3>3
    <3>5. \A j \in DOMAIN c2 : b < j /\ j <= b + Len(o2) + 2
                                => j \in DOMAIN c /\ c2[j] = c[j]
      BY <1>2, <1>3, <1>5, <3>3
    <3>6. SyncAt(c2, o2, s2, b)
      BY <1>1, <3>2, <3>4, <3>5, SyncStays
    <3> QED BY <3>2, <3>6 DEF InSync
  <2> QED BY <1>2, <1>5, <2>1, <2>2, <2>3 DEF Flow
<1>10. Calm(c2, s)
  <2>1. CASE DOMAIN s.orphans = {}
    BY <2>1 DEF Calm
  <2>2. CASE c # <<>> /\ IsOpen(c[1])
    <3>1. n > 0
      BY <2>2
    <3>2. c2[1] = c[1] /\ c2 # <<>>
      BY <1>1, <1>2, <1>3, <1>5, <3>1
    <3> QED BY <2>2, <3>2 DEF Calm
  <2> QED BY <2>1, <2>2 DEF Flow, Calm
<1> QED BY <1>9, <1>10 DEF Flow, c2

\* A plain message lies outside of every bulk sync.
LEMMA OutsideSync ==
    ASSUME NEW c \in Seq(Msg), NEW ord, NEW snap, NEW b \in Int, SyncAt(c, ord, snap, b),
           NEW i \in DOMAIN c, IsPlain(c[i])
    PROVE  i <= b \/ i > b + Len(ord) + 2
<1>1. Len(ord) \in Nat /\ i \in Int
  BY SyncLen DEF SyncAt
<1> QED BY <1>1, InsideSync

\* A plain message is lost.
LEMMA FlowRemove ==
    ASSUME NEW c \in Seq(Msg), NEW s, Flow(c, s), NEW i \in DOMAIN c, IsPlain(c[i])
    PROVE  Flow(RemoveAt(c, i), s)
<1> DEFINE c2 == RemoveAt(c, i)
           n == Len(c)
<1>1. /\ n \in Nat /\ DOMAIN c = 1..n /\ i \in 1..n
      /\ c2 \in Seq(Msg) /\ Len(c2) = n - 1 /\ DOMAIN c2 = 1..(n - 1)
      /\ \A j \in DOMAIN c2 : c2[j] = IF j < i THEN c[j] ELSE c[j + 1]
  <2>1. /\ c2 \in Seq(Msg) /\ Len(c2) = n - 1
        /\ \A j \in DOMAIN c2 : c2[j] = IF j < i THEN c[j] ELSE c[j + 1]
    BY RemoveAtFacts
  <2> HIDE DEF c2
  <2>2. n \in Nat /\ DOMAIN c = 1..n /\ i \in 1..n
    OBVIOUS
  <2> QED BY <2>1, <2>2
<1> HIDE DEF c2, n
<1>2. i = 1 => DOMAIN s.orphans = {}
  <2>1. ~IsOpen(c[i])
    BY DEF IsPlain, IsOpen
  <2> QED BY <2>1 DEF Flow, Calm
<1>3. i > 1 => ~IsOpen(c[i - 1])
  <2> SUFFICES ASSUME i > 1, IsOpen(c[i - 1]) PROVE FALSE
    OBVIOUS
  <2>1. i - 1 \in DOMAIN c /\ (i - 1) + 1 = i
    BY <1>1
  <2>2. ~IsPlain(c[(i - 1) + 1])
    BY <2>1, OpenGoesOn
  <2> QED BY <2>1, <2>2
<1>4. ASSUME NEW j \in DOMAIN c2 PROVE IsPlain(c2[j]) \/ InSync(c2, s, j)
  <2> DEFINE k == IF j < i THEN j ELSE j + 1
  <2>1. k \in DOMAIN c /\ c2[j] = c[k]
    BY <1>1
  <2>2. CASE IsPlain(c[k])
    BY <2>1, <2>2
  <2>3. CASE InSync(c, s, k)
    <3>1. PICK ord, snap : \E b \in Int :
                  SyncAt(c, ord, snap, b) /\ b < k /\ k <= b + Len(ord) + 2
                  /\ (b <= 0 => Progress(s, ord, snap, 0 - b))
      BY <2>3 DEF InSync
    <3>2. PICK b \in Int : SyncAt(c, ord, snap, b) /\ b < k /\ k <= b + Len(ord) + 2
                           /\ (b <= 0 => Progress(s, ord, snap, 0 - b))
      BY <3>1
    <3>3. Len(ord) \in Nat /\ b + Len(ord) + 2 <= n /\ (b >= 1 => ~IsOpen(c[b]))
      BY <3>2, SyncLen DEF SyncAt, n
    <3>4. i <= b \/ i > b + Len(ord) + 2
      BY <3>2, OutsideSync
    <3>5. CASE i > b + Len(ord) + 2
      <4>1. j < i /\ k = j
        BY <1>1, <3>2, <3>3, <3>5
      <4>2. b + Len(ord) + 2 <= Len(c2) /\ (b >= 1 => ~IsOpen(c2[b]))
        BY <1>1, <3>3, <3>5
      <4>3. \A h \in DOMAIN c2 : b < h /\ h <= b + Len(ord) + 2 => h \in DOMAIN c /\ c2[h] = c[h]
        BY <1>1, <3>3, <3>5
      <4>4. SyncAt(c2, ord, snap, b)
        BY <1>1, <3>2, <4>2, <4>3, SyncStays
      <4> QED BY <3>2, <4>1, <4>4 DEF InSync
    <3>6. CASE i <= b
      <4> DEFINE b2 == b - 1
      <4>1. ~(j < i) /\ k = j + 1
        BY <1>1, <3>2, <3>3, <3>6
      <4>2. b2 + Len(ord) + 2 <= Len(c2)
        BY <1>1, <3>3
      <4>3. b2 >= 1 => ~IsOpen(c2[b2])
        <5> SUFFICES ASSUME b2 >= 1 PROVE ~IsOpen(c2[b2])
          OBVIOUS
        <5>1. b2 \in DOMAIN c2 /\ b2 + 1 = b
          BY <1>1, <3>3, <4>2
        <5>2. CASE b2 < i
          <6>1. c2[b2] = c[b2] /\ b2 = i - 1 /\ i > 1
            BY <1>1, <3>6, <5>1, <5>2
          <6> QED BY <1>3, <6>1
        <5>3. CASE ~(b2 < i)
          <6>1. c2[b2] = c[b2 + 1]
            BY <1>1, <5>1, <5>3
          <6>2. c2[b2] = c[b] /\ b >= 1
            BY <3>3, <5>1, <6>1
          <6> QED BY <3>3, <6>2
        <5> QED BY <5>2, <5>3
      <4>4. \A h \in DOMAIN c2 : b2 < h /\ h <= b2 + Len(ord) + 2
                                 => h + (b - b2) \in DOMAIN c /\ c2[h] = c[h + (b - b2)]
        BY <1>1, <3>3, <3>6
      <4>5. b2 <= 0 => Progress(s, ord, snap, 0 - b2)
        <5> SUFFICES ASSUME b2 <= 0 PROVE Progress(s, ord, snap, 0 - b2)
          OBVIOUS
        <5>1. i = 1 /\ 0 - b2 = 0 /\ 0 <= Len(ord)
          BY <1>1, <3>3, <3>6
        <5>2. Arrived(s, ord, snap, 0)
          BY <1>2, <5>1 DEF Arrived
        <5> QED BY <5>1, <5>2 DEF Progress
      <4>6. b2 \in Int /\ b2 < j /\ j <= b2 + Len(ord) + 2
        BY <1>1, <3>2, <3>3, <4>1
      <4> HIDE DEF b2
      <4>7. SyncAt(c2, ord, snap, b2)
        BY <1>1, <3>2, <4>2, <4>3, <4>4, <4>6, SyncMoves
      <4> QED BY <4>5, <4>6, <4>7 DEF InSync
    <3> QED BY <3>4, <3>5, <3>6
  <2> HIDE DEF k
  <2> QED BY <2>1, <2>2, <2>3 DEF Flow
<1>5. Calm(c2, s)
  <2>1. CASE DOMAIN s.orphans = {}
    BY <2>1 DEF Calm
  <2>2. CASE c # <<>> /\ IsOpen(c[1])
    <3>1. i # 1
      BY <2>2 DEF IsPlain, IsOpen
    <3>2. c2[1] = c[1] /\ Len(c2) > 0
      BY <1>1, <3>1
    <3> QED BY <2>2, <3>2 DEF Calm
  <2> QED BY <2>1, <2>2 DEF Flow, Calm
<1> QED BY <1>4, <1>5 DEF Flow, c2

\* A plain message is doubled.
LEMMA FlowInsert ==
    ASSUME NEW c \in Seq(Msg), NEW s, Flow(c, s), NEW i \in DOMAIN c, IsPlain(c[i])
    PROVE  Flow(InsertAt(c, i, c[i]), s)
<1> DEFINE c2 == InsertAt(c, i, c[i])
           n == Len(c)
<1>1. /\ n \in Nat /\ DOMAIN c = 1..n /\ i \in 1..n
      /\ c2 \in Seq(Msg) /\ Len(c2) = n + 1 /\ DOMAIN c2 = 1..(n + 1)
      /\ \A j \in DOMAIN c2 : c2[j] = IF j < i THEN c[j] ELSE IF j = i THEN c[i] ELSE c[j - 1]
  <2>1. c[i] \in Msg
    OBVIOUS
  <2>2. /\ c2 \in Seq(Msg) /\ Len(c2) = n + 1
        /\ \A j \in DOMAIN c2 : c2[j] = IF j < i THEN c[j] ELSE IF j = i THEN c[i] ELSE c[j - 1]
    BY <2>1, InsertAtFacts
  <2> HIDE DEF c2
  <2>3. n \in Nat /\ DOMAIN c = 1..n /\ i \in 1..n
    OBVIOUS
  <2> QED BY <2>2, <2>3
<1> HIDE DEF c2, n
<1>2. ASSUME NEW j \in DOMAIN c2 PROVE IsPlain(c2[j]) \/ InSync(c2, s, j)
  <2> DEFINE k == IF j <= i THEN j ELSE j - 1
  <2>1. k \in DOMAIN c /\ c2[j] = c[k]
    BY <1>1
  <2>2. CASE IsPlain(c[k])
    BY <2>1, <2>2
  <2>3. CASE InSync(c, s, k) /\ ~IsPlain(c[k])
    <3>1. PICK ord, snap : \E b \in Int :
                  SyncAt(c, ord, snap, b) /\ b < k /\ k <= b + Len(ord) + 2
                  /\ (b <= 0 => Progress(s, ord, snap, 0 - b))
      BY <2>3 DEF InSync
    <3>2. PICK b \in Int : SyncAt(c, ord, snap, b) /\ b < k /\ k <= b + Len(ord) + 2
                           /\ (b <= 0 => Progress(s, ord, snap, 0 - b))
      BY <3>1
    <3>3. Len(ord) \in Nat /\ b + Len(ord) + 2 <= n /\ (b >= 1 => ~IsOpen(c[b]))
      BY <3>2, SyncLen DEF SyncAt, n
    <3>4. (i <= b \/ i > b + Len(ord) + 2) /\ k # i
      BY <2>3, <3>2, OutsideSync
    <3>5. CASE i > b + Len(ord) + 2
      <4>1. j < i /\ k = j
        BY <1>1, <3>2, <3>3, <3>5
      <4>2. b + Len(ord) + 2 <= Len(c2) /\ (b >= 1 => ~IsOpen(c2[b]))
        BY <1>1, <3>3, <3>5
      <4>3. \A h \in DOMAIN c2 : b < h /\ h <= b + Len(ord) + 2 => h \in DOMAIN c /\ c2[h] = c[h]
        BY <1>1, <3>3, <3>5
      <4>4. SyncAt(c2, ord, snap, b)
        BY <1>1, <3>2, <4>2, <4>3, SyncStays
      <4> QED BY <3>2, <4>1, <4>4 DEF InSync
    <3>6. CASE i <= b
      <4> DEFINE b2 == b + 1
      <4>1. j > i /\ k = j - 1
        BY <1>1, <3>2, <3>3, <3>6
      <4>2. b2 + Len(ord) + 2 <= Len(c2)
        BY <1>1, <3>3
      <4>3. ~IsOpen(c2[b2])
        <5>1. b2 \in DOMAIN c2 /\ b2 > i /\ b2 - 1 = b /\ b >= 1
          BY <1>1, <3>3, <3>6, <4>2
        <5> QED BY <1>1, <3>3, <5>1
      <4>4. \A h \in DOMAIN c2 : b2 < h /\ h <= b2 + Len(ord) + 2
                                 => h + (b - b2) \in DOMAIN c /\ c2[h] = c[h + (b - b2)]
        <5> SUFFICES ASSUME NEW h \in DOMAIN c2, b2 < h, h <= b2 + Len(ord) + 2
                     PROVE  h + (b - b2) \in DOMAIN c /\ c2[h] = c[h + (b - b2)]
          OBVIOUS
        <5>1. h + (b - b2) = h - 1 /\ h > i /\ h - 1 \in DOMAIN c
          BY <1>1, <3>3, <3>6
        <5> HIDE DEF b2
        <5> QED BY <1>1, <5>1
      <4>5. b2 \in Int /\ b2 < j /\ j <= b2 + Len(ord) + 2 /\ ~(b2 <= 0)
        BY <1>1, <3>2, <3>3, <3>6, <4>1
      <4> HIDE DEF b2
      <4>6. SyncAt(c2, ord, snap, b2)
        BY <1>1, <3>2, <4>2, <4>3, <4>4, <4>5, SyncMoves
      <4> QED BY <4>5, <4>6 DEF InSync
    <3> QED BY <3>4, <3>5, <3>6
  <2> HIDE DEF k
  <2> QED BY <2>1, <2>2, <2>3 DEF Flow
<1>3. Calm(c2, s)
  <2>1. CASE DOMAIN s.orphans = {}
    BY <2>1 DEF Calm
  <2>2. CASE c # <<>> /\ IsOpen(c[1])
    <3>1. i # 1
      BY <2>2 DEF IsPlain, IsOpen
    <3>2. c2[1] = c[1] /\ Len(c2) > 0
      BY <1>1, <3>1
    <3> QED BY <2>2, <3>2 DEF Calm
  <2> QED BY <2>1, <2>2 DEF Flow, Calm
<1> QED BY <1>2, <1>3 DEF Flow, c2

\* Two plain messages change places.
LEMMA FlowSwap ==
    ASSUME NEW c \in Seq(Msg), NEW s, Flow(c, s), NEW i \in DOMAIN c, i + 1 \in DOMAIN c,
           IsPlain(c[i]), IsPlain(c[i + 1])
    PROVE  Flow([c EXCEPT ![i] = c[i + 1], ![i + 1] = c[i]], s)
<1> DEFINE c2 == [c EXCEPT ![i] = c[i + 1], ![i + 1] = c[i]]
           n == Len(c)
<1>1. /\ n \in Nat /\ DOMAIN c = 1..n /\ i \in 1..n
      /\ c2 \in Seq(Msg) /\ Len(c2) = n /\ DOMAIN c2 = 1..n
      /\ c2[i] = c[i + 1] /\ c2[i + 1] = c[i]
      /\ \A j \in DOMAIN c2 : j # i /\ j # i + 1 => c2[j] = c[j]
  <2>1. n \in Nat /\ DOMAIN c = 1..n /\ i \in 1..n /\ c[i] \in Msg /\ c[i + 1] \in Msg
    OBVIOUS
  <2> QED BY <2>1
<1> HIDE DEF c2, n
<1>2. ASSUME NEW j \in DOMAIN c2 PROVE IsPlain(c2[j]) \/ InSync(c2, s, j)
  <2>1. CASE j = i \/ j = i + 1
    BY <1>1, <2>1
  <2>2. CASE j # i /\ j # i + 1 /\ IsPlain(c[j])
    BY <1>1, <2>2
  <2>3. CASE j # i /\ j # i + 1 /\ InSync(c, s, j)
    <3>1. PICK ord, snap : \E b \in Int :
                  SyncAt(c, ord, snap, b) /\ b < j /\ j <= b + Len(ord) + 2
                  /\ (b <= 0 => Progress(s, ord, snap, 0 - b))
      BY <2>3 DEF InSync
    <3>2. PICK b \in Int : SyncAt(c, ord, snap, b) /\ b < j /\ j <= b + Len(ord) + 2
                           /\ (b <= 0 => Progress(s, ord, snap, 0 - b))
      BY <3>1
    <3>3. Len(ord) \in Nat /\ b + Len(ord) + 2 <= n /\ (b >= 1 => ~IsOpen(c[b]))
      BY <3>2, SyncLen DEF SyncAt, n
    <3>4. (i <= b \/ i > b + Len(ord) + 2) /\ (i + 1 <= b \/ i + 1 > b + Len(ord) + 2)
      BY <3>2, OutsideSync
    <3>5. ~IsOpen(c[i]) /\ ~IsOpen(c[i + 1])
      BY DEF IsPlain, IsOpen
    <3>6. b >= 1 => ~IsOpen(c2[b])
      <4>1. b >= 1 => b \in DOMAIN c2
        BY <1>1, <3>3
      <4> QED BY <1>1, <3>3, <3>5, <4>1
    <3>7. \A h \in DOMAIN c2 : b < h /\ h <= b + Len(ord) + 2 => h \in DOMAIN c /\ c2[h] = c[h]
      BY <1>1, <3>3, <3>4
    <3>8. SyncAt(c2, ord, snap, b)
      BY <1>1, <3>2, <3>3, <3>6, <3>7, SyncStays
    <3> QED BY <3>2, <3>8 DEF InSync
  <2> QED BY <1>1, <2>1, <2>2, <2>3 DEF Flow
<1>3. Calm(c2, s)
  <2>1. CASE DOMAIN s.orphans = {}
    BY <2>1 DEF Calm
  <2>2. CASE c # <<>> /\ IsOpen(c[1])
    <3>1. i # 1
      BY <2>2 DEF IsPlain, IsOpen
    <3>2. c2[1] = c[1] /\ Len(c2) > 0
      BY <1>1, <3>1
    <3> QED BY <2>2, <3>2 DEF Calm
  <2> QED BY <2>1, <2>2 DEF Flow, Calm
<1> QED BY <1>2, <1>3 DEF Flow, c2

\* Creations, deletions and cleans leave the standby up, and its orphan pointers
\* as many as they are.
LEMMA PlainArrives ==
    ASSUME NEW s \in Standby, NEW m \in Msg, IsPlain(m) \/ m.op = "COMMIT"
    PROVE  Deliver(s, m).status = s.status /\ DOMAIN Deliver(s, m).orphans = DOMAIN s.orphans
<1> DEFINE t == Deliver(s, m)
           l == FreshLoc(s)
<1>1. s \in Machine(Val, Loc) /\ s.db \in Seq(Record(Val, Loc))
  BY StandbyLists
<1>2. l \in Loc
  BY <1>1, FreshLocFacts, LocFacts
<1> HIDE DEF l
<1>3. CASE m.op = "CREATE"
  <2>1. t = Create(s, m.id, l) /\ m.id \in Addr
    BY <1>3, MsgIsMessage DEF Deliver, DeliverAt, IsMessage, l
  <2> HIDE DEF t
  <2>2. t.status = s.status /\ DOMAIN t.orphans = DOMAIN s.orphans
    BY <1>1, <1>2, <2>1, CreateFacts, ZeroAssumption
  <2> QED BY <2>2 DEF t
<1>4. CASE m.op = "DELETE"
  <2>1. t = Delete(s, m)
    BY <1>4 DEF Deliver, DeliverAt
  <2> HIDE DEF t
  <2>2. t.status = s.status /\ DOMAIN t.orphans = DOMAIN s.orphans
    <3>1. Delete(s, m).status = s.status /\ DOMAIN Delete(s, m).orphans = DOMAIN s.orphans
      <4>1. \A V, L : s \in Machine(V, L) => /\ Delete(s, m).status = s.status
                                             /\ DOMAIN Delete(s, m).orphans = DOMAIN s.orphans
        BY ONLY DeleteFacts
      <4> QED BY <1>1, <4>1
    <3> QED BY <2>1, <3>1
  <2> QED BY <2>2 DEF t
<1>5. CASE m.op = "CLEAN"
  <2>1. t = Clean(s)
    BY <1>5 DEF Deliver, DeliverAt
  <2> HIDE DEF t
  <2>2. t.status = s.status /\ DOMAIN t.orphans = DOMAIN s.orphans
    BY <1>1, <2>1, CleanFacts, ZeroAssumption
  <2> QED BY <2>2 DEF t
<1>6. CASE m.op = "COMMIT"
  BY <1>6 DEF Deliver, DeliverAt
<1> QED BY <1>3, <1>4, <1>5, <1>6 DEF IsPlain

\* The next message of a bulk sync.
LEMMA ProgressStep ==
    ASSUME NEW s \in Standby, DistinctLocs(s), s.status = "up", NEW ord, NEW snap, IsSync(ord, snap),
           NEW k \in 0..Len(ord), Progress(s, ord, snap, k), SyncMsg(ord, snap, k + 1) \in Msg
    PROVE  /\ Progress(Deliver(s, SyncMsg(ord, snap, k + 1)), ord, snap, k + 1)
           /\ Deliver(s, SyncMsg(ord, snap, k + 1)).status = "up"
           /\ k = Len(ord) => DOMAIN Deliver(s, SyncMsg(ord, snap, k + 1)).orphans = {}
<1>1. Len(ord) \in Nat /\ k \in Nat /\ Arrived(s, ord, snap, k)
  BY SyncLen DEF Progress
<1>2. CASE k < Len(ord)
  BY <1>1, <1>2, BulkArrives DEF Progress
<1>3. CASE k = Len(ord)
  <2>1. SyncMsg(ord, snap, k + 1) = [op |-> "ORPHAN_COMMIT"]
    BY <1>1, <1>3 DEF SyncMsg
  <2>2. Deliver(s, SyncMsg(ord, snap, k + 1)) = CommitOrphans(s)
    BY <2>1 DEF Deliver, DeliverAt
  <2>3. CommitOrphans(s).orphans = <<>> /\ Holds(CommitOrphans(s), snap)
    BY <1>1, <1>3, CommitArrives, MachineIsStandby, NoNull
  <2>4. DOMAIN CommitOrphans(s).orphans = {} /\ CommitOrphans(s).status = "up"
    BY <2>3 DEF Holds
  <2> QED BY <1>1, <1>3, <2>2, <2>3, <2>4 DEF Progress
<1> QED BY <1>1, <1>2, <1>3

LEMMA FlowRecv ==
    ASSUME NEW c \in Seq(Msg), NEW s \in Standby, DistinctLocs(s), s.status = "up", Flow(c, s), c # <<>>
    PROVE  Flow(Tail(c), Deliver(s, Head(c))) /\ Deliver(s, Head(c)).status = "up"
<1> DEFINE c2 == Tail(c)
           n == Len(c)
           m == c[1]
           t == Deliver(s, m)
<1>1. /\ n \in Nat /\ n >= 1 /\ DOMAIN c = 1..n /\ m \in Msg /\ Head(c) = m
      /\ c2 \in Seq(Msg) /\ Len(c2) = n - 1 /\ DOMAIN c2 = 1..(n - 1)
      /\ \A j \in DOMAIN c2 : j + 1 \in DOMAIN c /\ c2[j] = c[j + 1]
  OBVIOUS
<1> HIDE DEF c2, n, t
\* The head of the socket.
<1>2. \/ IsPlain(m)
      \/ \E ord, snap : \E b \in Int : /\ SyncAt(c, ord, snap, b)
                                       /\ b < 1 /\ 1 <= b + Len(ord) + 2
                                       /\ b <= 0 => Progress(s, ord, snap, 0 - b)
  <2>1. 1 \in DOMAIN c
    BY <1>1
  <2> QED BY <2>1 DEF Flow, InSync
<1>3. ASSUME NEW ord, NEW snap, NEW b \in Int, SyncAt(c, ord, snap, b), b < 1, 1 <= b + Len(ord) + 2,
             Progress(s, ord, snap, 0 - b)
      PROVE  /\ IsSync(ord, snap) /\ Len(ord) \in Nat
             /\ m = SyncMsg(ord, snap, 1 - b)
             /\ m.op = IF 1 - b <= Len(ord) THEN "BULK"
                       ELSE IF 1 - b = Len(ord) + 1 THEN "ORPHAN_COMMIT" ELSE "COMMIT"
             /\ 1 - b <= Len(ord) + 1 => Progress(t, ord, snap, 1 - b) /\ t.status = "up"
             /\ 1 - b = Len(ord) + 1 => DOMAIN t.orphans = {}
             /\ 1 - b <= Len(ord) => 1 \in DOMAIN c2 /\ IsOpen(c2[1])
  <2>1. IsSync(ord, snap) /\ Len(ord) \in Nat /\ b + Len(ord) + 2 <= n
    BY <1>3, SyncLen DEF SyncAt, n
  <2>2. 1 \in DOMAIN c /\ 1 - b \in 1..(Len(ord) + 2)
    BY <1>1, <1>3, <2>1
  <2>3. m = SyncMsg(ord, snap, 1 - b)
    BY <1>3, <2>2, InsideSync
  <2>4. m.op = IF 1 - b <= Len(ord) THEN "BULK"
               ELSE IF 1 - b = Len(ord) + 1 THEN "ORPHAN_COMMIT" ELSE "COMMIT"
    BY <2>1, <2>2, <2>3, SyncMsgFacts
  <2>5. ASSUME 1 - b <= Len(ord) + 1
        PROVE  /\ Progress(t, ord, snap, 1 - b) /\ t.status = "up"
               /\ 1 - b = Len(ord) + 1 => DOMAIN t.orphans = {}
    <3> DEFINE k == 0 - b
    <3>1. k \in 0..Len(ord) /\ k + 1 = 1 - b /\ (k = Len(ord) <=> 1 - b = Len(ord) + 1)
      BY <1>3, <2>1, <2>5
    <3>2. Progress(s, ord, snap, k)
      BY <1>3
    <3> HIDE DEF k
    <3>3. SyncMsg(ord, snap, k + 1) \in Msg /\ t = Deliver(s, SyncMsg(ord, snap, k + 1))
      BY <1>1, <2>3, <3>1 DEF t
    <3> QED BY <2>1, <3>1, <3>2, <3>3, ProgressStep
  <2>6. ASSUME 1 - b <= Len(ord) PROVE 1 \in DOMAIN c2 /\ IsOpen(c2[1])
    <3>1. 2 \in DOMAIN c /\ b < 2 /\ 2 <= b + Len(ord) + 2 /\ 2 - b <= Len(ord) + 1
          /\ 2 - b \in 1..(Len(ord) + 2)
      BY <1>1, <1>3, <2>1, <2>6
    <3>2. c[2] = SyncMsg(ord, snap, 2 - b)
      BY <1>3, <3>1, InsideSync
    <3>3. IsOpen(c[2])
      BY <2>1, <3>1, <3>2, SyncMsgFacts
    <3>4. 1 \in DOMAIN c2 /\ c2[1] = c[1 + 1]
      BY <1>1, <3>1
    <3> QED BY <3>3, <3>4
  <2> QED BY <2>1, <2>3, <2>4, <2>5, <2>6
\* Once the bulk sync is over nothing is pending.
<1>4. ~IsOpen(m) => (IsPlain(m) \/ m.op = "COMMIT") /\ t.status = "up" /\ DOMAIN t.orphans = {}
  <2> SUFFICES ASSUME ~IsOpen(m) PROVE (IsPlain(m) \/ m.op = "COMMIT") /\ t.status = "up" /\ DOMAIN t.orphans = {}
    OBVIOUS
  <2>1. IsPlain(m) \/ m.op = "COMMIT"
    <3>1. CASE \E ord, snap : \E b \in Int : /\ SyncAt(c, ord, snap, b)
                                             /\ b < 1 /\ 1 <= b + Len(ord) + 2
                                             /\ b <= 0 => Progress(s, ord, snap, 0 - b)
      <4>1. PICK ord, snap : \E b \in Int : /\ SyncAt(c, ord, snap, b)
                                            /\ b < 1 /\ 1 <= b + Len(ord) + 2
                                            /\ b <= 0 => Progress(s, ord, snap, 0 - b)
        BY <3>1
      <4>2. PICK b \in Int : /\ SyncAt(c, ord, snap, b)
                             /\ b < 1 /\ 1 <= b + Len(ord) + 2
                             /\ b <= 0 => Progress(s, ord, snap, 0 - b)
        BY <4>1
      <4>3. m.op \in {"BULK", "ORPHAN_COMMIT", "COMMIT"}
        BY <1>3, <4>2
      <4> QED BY <4>3 DEF IsOpen
    <3> QED BY <1>2, <3>1
  <2>2. DOMAIN s.orphans = {}
    BY DEF Flow, Calm
  <2>3. t.status = s.status /\ DOMAIN t.orphans = DOMAIN s.orphans
    BY <1>1, <2>1, PlainArrives DEF t
  <2> QED BY <2>1, <2>2, <2>3
<1>5. t.status = "up" /\ Calm(c2, t)
  <2>1. CASE ~IsOpen(m)
    BY <1>4, <2>1 DEF Calm
  <2>2. CASE IsOpen(m)
    <3>1. ~IsPlain(m)
      BY <2>2 DEF IsOpen, IsPlain
    <3>2. PICK ord, snap : \E b \in Int : /\ SyncAt(c, ord, snap, b)
                                          /\ b < 1 /\ 1 <= b + Len(ord) + 2
                                          /\ b <= 0 => Progress(s, ord, snap, 0 - b)
      BY <1>2, <3>1
    <3>3. PICK b \in Int : /\ SyncAt(c, ord, snap, b)
                           /\ b < 1 /\ 1 <= b + Len(ord) + 2
                           /\ b <= 0 => Progress(s, ord, snap, 0 - b)
      BY <3>2
    <3>4. /\ Len(ord) \in Nat
          /\ m.op = IF 1 - b <= Len(ord) THEN "BULK"
                    ELSE IF 1 - b = Len(ord) + 1 THEN "ORPHAN_COMMIT" ELSE "COMMIT"
          /\ 1 - b <= Len(ord) + 1 => t.status = "up"
          /\ 1 - b = Len(ord) + 1 => DOMAIN t.orphans = {}
          /\ 1 - b <= Len(ord) => 1 \in DOMAIN c2 /\ IsOpen(c2[1])
      BY <1>3, <3>3
    <3>5. 1 - b <= Len(ord) + 1
      BY <2>2, <3>4 DEF IsOpen
    <3>6. 1 \in DOMAIN c2 => c2 # <<>>
      BY <1>1
    <3>7. CASE 1 - b <= Len(ord)
      BY <3>4, <3>5, <3>6, <3>7 DEF Calm
    <3>8. CASE 1 - b = Len(ord) + 1
      BY <3>4, <3>5, <3>8 DEF Calm
    <3> QED BY <3>4, <3>5, <3>7, <3>8
  <2> QED BY <2>1, <2>2
<1>6. ASSUME NEW j \in DOMAIN c2 PROVE IsPlain(c2[j]) \/ InSync(c2, t, j)
  <2> DEFINE k == j + 1
  <2>1. k \in DOMAIN c /\ c2[j] = c[k]
    BY <1>1
  <2>2. CASE IsPlain(c[k])
    BY <2>1, <2>2
  <2>3. CASE InSync(c, s, k)
    <3>1. PICK ord, snap : \E b \in Int :
                  SyncAt(c, ord, snap, b) /\ b < k /\ k <= b + Len(ord) + 2
                  /\ (b <= 0 => Progress(s, ord, snap, 0 - b))
      BY <2>3 DEF InSync
    <3>2. PICK b \in Int : SyncAt(c, ord, snap, b) /\ b < k /\ k <= b + Len(ord) + 2
                           /\ (b <= 0 => Progress(s, ord, snap, 0 - b))
      BY <3>1
    <3>3. Len(ord) \in Nat /\ b + Len(ord) + 2 <= n /\ (b >= 1 => ~IsOpen(c[b]))
      BY <3>2, SyncLen DEF SyncAt, n
    <3> DEFINE b2 == b - 1
    <3>4. b2 \in Int /\ b2 < j /\ j <= b2 + Len(ord) + 2
      BY <1>1, <3>2, <3>3
    <3>5. b2 + Len(ord) + 2 <= Len(c2)
      BY <1>1, <3>3
    <3>6. b2 >= 1 => ~IsOpen(c2[b2])
      <4> SUFFICES ASSUME b2 >= 1 PROVE ~IsOpen(c2[b2])
        OBVIOUS
      <4>1. b2 \in DOMAIN c2 /\ b2 + 1 = b /\ b >= 1
        BY <1>1, <3>3, <3>4, <3>5
      <4> HIDE DEF b2
      <4>2. c2[b2] = c[b]
        BY <1>1, <4>1
      <4> QED BY <3>3, <4>1, <4>2
    <3>7. \A h \in DOMAIN c2 : b2 < h /\ h <= b2 + Len(ord) + 2
                               => h + (b - b2) \in DOMAIN c /\ c2[h] = c[h + (b - b2)]
      <4> SUFFICES ASSUME NEW h \in DOMAIN c2
                   PROVE  h + (b - b2) \in DOMAIN c /\ c2[h] = c[h + (b - b2)]
        OBVIOUS
      <4>1. h + (b - b2) = h + 1
        BY <1>1
      <4> HIDE DEF b2
      <4> QED BY <1>1, <4>1
    <3>8. b2 <= 0 => Progress(t, ord, snap, 0 - b2)
      <4> SUFFICES ASSUME b2 <= 0 PROVE Progress(t, ord, snap, 0 - b2)
        OBVIOUS
      <4>1. CASE b = 1
        <5>1. ~IsOpen(m) /\ 0 - b2 = 0 /\ 0 <= Len(ord)
          BY <3>3, <4>1
        <5>2. DOMAIN t.orphans = {}
          BY <1>4, <5>1
        <5>3. Arrived(t, ord, snap, 0)
          BY <5>2 DEF Arrived
        <5> QED BY <5>1, <5>3 DEF Progress
      <4>2. CASE b < 1
        <5>1. b <= 0 /\ 1 <= b + Len(ord) + 2 /\ 1 - b <= Len(ord) + 1 /\ 0 - b2 = 1 - b
          BY <1>1, <3>2, <3>3, <4>2
        <5>2. Progress(s, ord, snap, 0 - b)
          BY <3>2, <5>1
        <5>3. Progress(t, ord, snap, 1 - b)
          BY <1>3, <3>2, <4>2, <5>1, <5>2
        <5> QED BY <5>1, <5>3
      <4> QED BY <4>1, <4>2
    <3> HIDE DEF b2
    <3>9. SyncAt(c2, ord, snap, b2)
      BY <1>1, <3>2, <3>4, <3>5, <3>6, <3>7, SyncMoves
    <3> QED BY <3>4, <3>8, <3>9 DEF InSync
  <2> HIDE DEF k
  <2> QED BY <2>1, <2>2, <2>3 DEF Flow
<1> QED BY <1>1, <1>5, <1>6 DEF Flow, c2, t

(***************************************************************************)
(* COMMIT tells the truth.                                                 *)
(***************************************************************************)

Delivery == /\ sb.status = "up" /\ DistinctLocs(sb)
            /\ Flow(chan, sb)

\* What tha_bulk_sync sends is a bulk sync of what the active holds.
LEMMA BulkIsSync ==
    ASSUME TypeOK, Registry, NEW order \in BulkOrders, TheBulkSync(order)
    PROVE  \E snap : \E q \in Seq(Msg) :
              /\ IsSync(order, snap)
              /\ Len(q) = Len(order) + 2
              /\ \A k \in 1..Len(q) : q[k] = SyncMsg(order, snap, k)
              /\ chan' = chan \o q
<1> DEFINE snap == [a \in Reachable |-> [val |-> mem[a].val, ptr |-> WirePtr(mem[a].ptr)]]
           b == Bulks(order)
           q == b \o Commits
<1>1. /\ order \in Seq(Reachable) /\ order \in Seq(Addr)
      /\ \A i, j \in DOMAIN order : i # j => order[i] # order[j]
      /\ \A a \in Reachable : \E i \in DOMAIN order : order[i] = a
      /\ \A i \in DOMAIN order : order[i] \in Reachable
  BY OrderFacts
<1>2. Reachable \subseteq Addr /\ Reachable \subseteq Live
  BY ReachableType, ReachableLive
<1>3. ASSUME NEW a \in Reachable PROVE snap[a].ptr \in Reachable \cup {Null, NotTha}
  <2>1. CASE mem[a].ptr \in Live
    <3>1. mem[a].ptr \in Succ[a] /\ DOMAIN Succ = Addr
      BY <1>2, <2>1 DEF Succ
    <3>2. mem[a].ptr \in Reachable
      <4>1. mem[a].ptr \in Addr
        BY <2>1 DEF TypeOK, Live, ToSet
      <4> QED BY <3>1, <4>1 DEF Reachable, ReachableFrom, Closed
    <3> QED BY <2>1, <3>2 DEF WirePtr
  <2>2. CASE mem[a].ptr \notin Live
    BY <2>2 DEF WirePtr
  <2> QED BY <2>1, <2>2
<1>4. IsSync(order, snap)
  BY <1>1, <1>2, <1>3 DEF IsSync
<1>5. b \in Seq(Msg) /\ Len(b) = Len(order) /\ DOMAIN b = DOMAIN order /\ Commits \in Seq(Msg) /\ Len(Commits) = 2
  BY BulksType
<1>6. q \in Seq(Msg) /\ Len(q) = Len(order) + 2
  <2>1. q \in Seq(Msg) /\ Len(q) = Len(b) + Len(Commits)
    BY <1>5, Appended
  <2> HIDE DEF b, q
  <2> QED BY <1>5, <2>1
<1>7. /\ \A k \in 1..Len(order) : q[k] = b[k]
      /\ q[Len(order) + 1] = Commits[1] /\ q[Len(order) + 2] = Commits[2]
  <2> HIDE DEF b
  <2>0. b \in Seq(Msg) /\ Commits \in Seq(Msg)
    BY <1>5
  <2>1. \A k \in 1..Len(b) : q[k] = b[k]
    BY <2>0
  <2>2. \A k \in 1..Len(Commits) : q[Len(b) + k] = Commits[k]
    BY <2>0
  <2> HIDE DEF q
  <2>3. q[Len(b) + 1] = Commits[1] /\ q[Len(b) + 2] = Commits[2]
    <3>1. 1 \in 1..Len(Commits) /\ 2 \in 1..Len(Commits)
      BY <1>5
    <3> QED BY <2>2, <3>1
  <2> QED BY <1>5, <2>1, <2>3
<1>8. /\ \A k \in DOMAIN order : b[k] = SyncMsg(order, snap, k)
      /\ Commits[1] = SyncMsg(order, snap, Len(order) + 1)
      /\ Commits[2] = SyncMsg(order, snap, Len(order) + 2)
  <2>1. Len(order) \in Nat /\ DOMAIN order = 1..Len(order)
    BY <1>1
  <2>2. ASSUME NEW k \in DOMAIN order PROVE b[k] = SyncMsg(order, snap, k)
    <3>1. order[k] \in Reachable /\ k <= Len(order)
      BY <1>1, <2>1
    <3>2. snap[order[k]].val = mem[order[k]].val /\ snap[order[k]].ptr = WirePtr(mem[order[k]].ptr)
      BY <3>1
    <3> HIDE DEF snap
    <3> QED BY <3>1, <3>2 DEF Bulks, BulkMsg, SyncMsg
  <2>3. Commits[1] = [op |-> "ORPHAN_COMMIT"] /\ Commits[2] = [op |-> "COMMIT", snap |-> snap]
    BY DEF Commits, Commit
  <2> HIDE DEF snap
  <2> QED BY <2>1, <2>2, <2>3 DEF SyncMsg
<1>9. chan' = chan \o q
  BY BulkSent
<1> HIDE DEF snap, q, b
<1>10. \A k \in 1..Len(q) : q[k] = SyncMsg(order, snap, k)
  <2>1. Len(order) \in Nat /\ DOMAIN order = 1..Len(order)
    BY <1>1
  <2>2. \A k \in 1..Len(q) : k \in 1..Len(order) \/ k = Len(order) + 1 \/ k = Len(order) + 2
    BY <1>6, <2>1
  <2> QED BY <1>7, <1>8, <2>1, <2>2
<1> QED BY <1>4, <1>6, <1>9, <1>10

LEMMA DeliveryInit == Init => Delivery
<1> SUFFICES ASSUME Init PROVE Delivery
  OBVIOUS
<1>1. sb.status = "up" /\ sb.orphans = <<>> /\ chan = <<>>
  BY DEF Init, Registered
<1>2. Drained = sb
  BY AfterEmpty DEF Init, Drained
<1>3. DistinctLocs(sb)
  BY <1>2, MirrorInit DEF Apartness
<1> QED BY <1>1, <1>3 DEF Delivery, Flow, Calm

LEMMA DeliveryStep ==
    ASSUME "sync" \notin Ops, Faulty \cap {"BULK", "ORPHAN_COMMIT", "COMMIT"} = {}
    PROVE  TypeOK /\ Registry /\ Delivery /\ [Next]_vars => Delivery'
<1> SUFFICES ASSUME TypeOK, Registry, Delivery, [Next]_vars PROVE Delivery'
  OBVIOUS
<1>1. chan \in Seq(Msg) /\ sb \in Standby /\ Flow(chan, sb)
  BY DEF TypeOK, Delivery
<1>2. ASSUME NEW m \in Msg, IsPlain(m), chan' = Append(chan, m), sb' = sb PROVE Delivery'
  BY <1>1, <1>2, FlowAppend DEF Delivery
<1>3. ASSUME NEW a \in Heap, HaCalloc(a) PROVE Delivery'
  <2>1. [op |-> "CREATE", id |-> a] \in Msg
    BY SentType, LocFacts
  <2> QED BY <1>2, <1>3, <2>1 DEF HaCalloc, IsPlain
<1>4. ASSUME NEW i \in DOMAIN db, HaFree(i) PROVE Delivery'
  <2>1. db[i] \in Addr
    BY DEF TypeOK
  <2>2. [op |-> "DELETE", id |-> db[i]] \in Msg
    BY <2>1, SentType
  <2> QED BY <1>2, <1>4, <2>2 DEF HaFree, IsPlain
<1>5. ASSUME OrderClean PROVE Delivery'
  BY <1>2, <1>5, SentType DEF OrderClean, IsPlain
<1>6. ASSUME NEW order \in BulkOrders, TheBulkSync(order) PROVE Delivery'
  <2>1. PICK snap : \E q \in Seq(Msg) : /\ IsSync(order, snap)
                                        /\ Len(q) = Len(order) + 2
                                        /\ \A k \in 1..Len(q) : q[k] = SyncMsg(order, snap, k)
                                        /\ chan' = chan \o q
    BY <1>6, BulkIsSync
  <2>2. PICK q \in Seq(Msg) : /\ IsSync(order, snap)
                              /\ Len(q) = Len(order) + 2
                              /\ \A k \in 1..Len(q) : q[k] = SyncMsg(order, snap, k)
                              /\ chan' = chan \o q
    BY <2>1
  <2>3. Flow(chan \o q, sb)
    BY <1>1, <2>2, FlowConcat
  <2>4. sb' = sb
    BY <1>6 DEF TheBulkSync
  <2> QED BY <2>2, <2>3, <2>4 DEF Delivery
<1>7. ASSUME Recv PROVE Delivery'
  <2>1. /\ chan # <<>> /\ sb.status = "up"
        /\ sb' = Deliver(sb, Head(chan)) /\ chan' = Tail(chan)
    BY <1>7 DEF Recv
  <2>2. Flow(chan', sb') /\ sb'.status = "up"
    BY <1>1, <2>1, FlowRecv DEF Delivery
  <2>3. DistinctLocs(sb')
    <3>1. Head(chan) \in Msg
      BY <1>1, <2>1
    <3>2. IsMessage(Val, Head(chan)) /\ sb \in Machine(Val, Loc)
      BY <1>1, <3>1, MsgIsMessage, StandbyLists
    <3> QED BY <2>1, <3>2, LocFacts, StandbyTakes, ZeroAssumption DEF Delivery
  <2> QED BY <2>2, <2>3 DEF Delivery
<1>8. \A i \in DOMAIN chan : chan[i].op \in Faulty => IsPlain(chan[i])
  <2> SUFFICES ASSUME NEW i \in DOMAIN chan, chan[i].op \in Faulty PROVE IsPlain(chan[i])
    OBVIOUS
  <2> SUFFICES ASSUME InSync(chan, sb, i) PROVE FALSE
    BY <1>1 DEF Flow
  <2>1. PICK ord, snap : \E b \in Int : SyncAt(chan, ord, snap, b) /\ b < i /\ i <= b + Len(ord) + 2
    BY DEF InSync
  <2>2. PICK b \in Int : SyncAt(chan, ord, snap, b) /\ b < i /\ i <= b + Len(ord) + 2
    BY <2>1
  <2>3. i - b \in 1..(Len(ord) + 2) /\ chan[i] = SyncMsg(ord, snap, i - b)
    BY <1>1, <2>2, InsideSync
  <2>4. chan[i].op \in {"BULK", "ORPHAN_COMMIT", "COMMIT"}
    BY <2>2, <2>3, SyncMsgFacts DEF SyncAt
  <2> QED BY <2>4
<1>9. ASSUME NEW i \in DOMAIN chan, Lose(i) PROVE Delivery'
  <2>1. IsPlain(chan[i]) /\ chan' = RemoveAt(chan, i) /\ sb' = sb
    BY <1>8, <1>9 DEF Lose
  <2> QED BY <1>1, <2>1, FlowRemove DEF Delivery
<1>10. ASSUME NEW i \in DOMAIN chan, Duplicate(i) PROVE Delivery'
  <2>1. IsPlain(chan[i]) /\ chan' = InsertAt(chan, i, chan[i]) /\ sb' = sb
    BY <1>8, <1>10 DEF Duplicate
  <2> QED BY <1>1, <2>1, FlowInsert DEF Delivery
<1>11. ASSUME NEW i \in DOMAIN chan, Reorder(i) PROVE Delivery'
  <2>1. i + 1 \in DOMAIN chan
    BY <1>1, <1>11 DEF Reorder
  <2>2. /\ IsPlain(chan[i]) /\ IsPlain(chan[i + 1]) /\ sb' = sb
        /\ chan' = [chan EXCEPT ![i] = chan[i + 1], ![i + 1] = chan[i]]
    BY <1>8, <1>11, <2>1 DEF Reorder
  <2> QED BY <1>1, <2>1, <2>2, FlowSwap DEF Delivery
<1>12. ASSUME UNCHANGED <<chan, sb>> PROVE Delivery'
  BY <1>12 DEF Delivery
<1>13. ~HaSync
  BY DEF HaSync
<1> QED BY <1>3, <1>4, <1>5, <1>6, <1>7, <1>9, <1>10, <1>11, <1>12, <1>13
        DEF Next, vars, WriteVal, WritePtr

LEMMA DeliveryMirrors == TypeOK /\ Delivery => CommitMirrors
<1> SUFFICES ASSUME TypeOK, Delivery, chan # <<>>, Head(chan).op = "COMMIT", sb.status = "up"
             PROVE  Holds(sb, Head(chan).snap)
  BY DEF CommitMirrors
<1>1. chan \in Seq(Msg) /\ 1 \in DOMAIN chan /\ Head(chan) = chan[1] /\ ~IsPlain(chan[1])
  BY DEF TypeOK, IsPlain
<1>2. InSync(chan, sb, 1)
  BY <1>1 DEF Delivery, Flow
<1>3. PICK ord, snap : \E b \in Int :
              SyncAt(chan, ord, snap, b) /\ b < 1 /\ 1 <= b + Len(ord) + 2
              /\ (b <= 0 => Progress(sb, ord, snap, 0 - b))
  BY <1>2 DEF InSync
<1>4. PICK b \in Int : SyncAt(chan, ord, snap, b) /\ b < 1 /\ 1 <= b + Len(ord) + 2
                       /\ (b <= 0 => Progress(sb, ord, snap, 0 - b))
  BY <1>3
<1>5. IsSync(ord, snap) /\ Len(ord) \in Nat
  BY <1>4, SyncLen DEF SyncAt
<1>6. 1 - b \in 1..(Len(ord) + 2) /\ chan[1] = SyncMsg(ord, snap, 1 - b)
  BY <1>1, <1>4, InsideSync
<1>7. 1 - b = Len(ord) + 2 /\ chan[1].snap = snap
  BY <1>1, <1>5, <1>6, SyncMsgFacts
<1>8. b <= 0 /\ 0 - b = Len(ord) + 1
  BY <1>4, <1>5, <1>7
<1>9. Progress(sb, ord, snap, Len(ord) + 1)
  BY <1>4, <1>8
<1> QED BY <1>1, <1>5, <1>7, <1>9 DEF Progress

\* A bulk sync repairs everything: whatever creations, deletions and cleans were
\* lost, doubled or reordered before it and between bulk syncs, whatever
\* addresses were reused, a living standby that is about to take COMMIT holds what the
\* active held when it sent it.  Incremental syncs are excluded, because the
\* orphan pointers they leave behind break this (MCReplicationOrphan).
THEOREM CommitMirrorsHolds ==
    ASSUME "sync" \notin Ops, Faulty \cap {"BULK", "ORPHAN_COMMIT", "COMMIT"} = {}
    PROVE  Spec => []CommitMirrors
<1> DEFINE Inv == TypeOK /\ Registry /\ Delivery
<1>1. Init => Inv
  BY InitType, RegistryInit, DeliveryInit
<1>2. Inv /\ [Next]_vars => Inv'
  BY TypeStep, RegistryStep, DeliveryStep
<1>3. Inv => CommitMirrors
  BY DeliveryMirrors
<1> QED BY <1>1, <1>2, <1>3, PTL DEF Spec

\* Under the same conditions the standby survives: no orphan pointer that it
\* commits lacks its target or lies in memory that was freed.
THEOREM StandbySurvivesHolds ==
    ASSUME "sync" \notin Ops, Faulty \cap {"BULK", "ORPHAN_COMMIT", "COMMIT"} = {}
    PROVE  Spec => []StandbySurvives
<1> DEFINE Inv == TypeOK /\ Registry /\ Delivery
<1>1. Init => Inv
  BY InitType, RegistryInit, DeliveryInit
<1>2. Inv /\ [Next]_vars => Inv'
  BY TypeStep, RegistryStep, DeliveryStep
<1>3. Inv => StandbySurvives
  BY DEF Delivery, StandbySurvives
<1> QED BY <1>1, <1>2, <1>3, PTL DEF Spec
=============================================================================
