---------------------------- MODULE Replication ----------------------------
(***************************************************************************)
(* The two machines of the library and the UDP socket between them.        *)
(*                                                                         *)
(* The active machine runs the application: ha_calloc, ha_free, plain      *)
(* writes, ha_sync, tha_bulk_sync and the order to clean the standby       *)
(* (tha_db.c, tha_sync.c).  Every operation of the library leaves messages *)
(* in the socket.  The standby takes one message at a time in              *)
(* recv_sock_msg and applies it in de_serialize_buffer (Receiver).         *)
(*                                                                         *)
(* An object has one data field, val, and one VOID_PTR field, ptr.  Its    *)
(* identity is its address on the active: the obj_id of a heap object is   *)
(* "Dyn" followed by that address, that of a global object is its name.    *)
(* Locations of the standby are different things, in both cases.           *)
(*                                                                         *)
(* The order in which a bulk sync sends the objects is any that HeapSync   *)
(* allows, which BulkSync is proved to implement.  Field hashes are taken  *)
(* to be injective.  The list of hashes to recompute and the flag          *)
(* BULK_SYNC_IN_PROGRESS only concern hashes of the standby, which it does *)
(* not use before it becomes active, and are left out.                     *)
(***************************************************************************)
EXTENDS HeapGraph, Receiver

CONSTANTS
    Val,        \* contents of the data field
    Ops,        \* operations the application uses, besides calloc and writes
    Net,        \* what the socket may do: "lose", "duplicate", "reorder"
    Faulty,     \* kinds of messages to which it may do that
    MaxChan,    \* bound on the messages in the socket
    MaxRec      \* bound on the records of the standby, creations under way
                \* included

ASSUME ZeroAssumption == Zero \in Val
ASSUME OpsAssumption == Ops \subseteq {"free", "sync", "clean", "bulk"}
ASSUME NetAssumption ==
    /\ Net \subseteq {"lose", "duplicate", "reorder"}
    /\ Faulty \subseteq {"CREATE", "UPDATE", "DELETE", "CLEAN", "BULK", "ORPHAN_COMMIT", "COMMIT"}
ASSUME BoundAssumption == MaxChan \in Nat /\ MaxRec \in Nat

VARIABLES
    db,     \* active: object_db, head first
    mem,    \* active: contents of every address
    hash,   \* active: contents the stored hashes were computed from
    stale,  \* history: objects whose pointer the stored hash says nothing about
    chan,   \* messages in the socket, oldest first
    sb      \* the standby: a record [db, orphans, status]

activeVars == <<db, mem, hash, stale>>
vars == <<db, mem, hash, stale, chan, sb>>

Fields == {"val", "ptr"}
Cell == [val : Val, ptr : Addr \cup {Null}]
ZeroCell == [val |-> Zero, ptr |-> Null]
Live == ToSet(db)

Init == /\ db \in SetToSeqs(Static)
        /\ mem = [a \in Addr |-> ZeroCell]
        /\ hash = [a \in Addr |-> ZeroCell]
        /\ stale = {}
        /\ chan = <<>>
        /\ sb = Registered(db)

(***************************************************************************)
(* The active machine.                                                     *)
(***************************************************************************)

CanSend(n) == Len(chan) + n <= MaxChan
CanCreate == Len(sb.db) + Len(SelectSeq(chan, LAMBDA m : m.op = "CREATE")) < MaxRec

\* ha_calloc: registers zeroed memory, stores its hashes and sends CREATE at
\* once (tha_add_object).  The address may have been freed before.
HaCalloc(a) ==
    /\ a \in Heap \ Live
    /\ CanSend(1) /\ CanCreate
    /\ db' = Cons(a, db)
    /\ mem' = [mem EXCEPT ![a] = ZeroCell]
    /\ hash' = [hash EXCEPT ![a] = ZeroCell]
    /\ chan' = Append(chan, [op |-> "CREATE", id |-> a])
    /\ UNCHANGED <<stale, sb>>

\* Plain stores of the application; a pointer is taken from a live object.
WriteVal(a, v) ==
    /\ a \in Live
    /\ mem' = [mem EXCEPT ![a].val = v]
    /\ UNCHANGED <<db, hash, stale, chan, sb>>

WritePtr(a, t) ==
    /\ a \in Live
    /\ t \in Live \cup {Null}
    /\ mem' = [mem EXCEPT ![a].ptr = t]
    /\ UNCHANGED <<db, hash, stale, chan, sb>>

\* ha_free: DELETE is sent at once, whatever is still to be synced.  What the
\* freed memory holds does not matter any more.  Other objects keep their
\* pointers to it and the hashes of them.
HaFree(i) ==
    /\ "free" \in Ops
    /\ db[i] \in Heap
    /\ CanSend(1)
    /\ db' = RemoveAt(db, i)
    /\ mem' = [mem EXCEPT ![db[i]] = ZeroCell]
    /\ hash' = [hash EXCEPT ![db[i]] = ZeroCell]
    /\ stale' = (stale \cup {a \in Live : hash[a].ptr = db[i]}) \ {db[i]}
    /\ chan' = Append(chan, [op |-> "DELETE", id |-> db[i]])
    /\ UNCHANGED sb

\* The wire form of a pointer: NULL, the obj_id of a registered object, or the
\* mark of a pointer to anything else.
WirePtr(p) == IF p \in Live \cup {Null} THEN p ELSE NotTha

Changed(a) == {f \in Fields : mem[a][f] # hash[a][f]}

\* serialize_object and serialize_object_all_fields.
UpdateMsg(a) == [op |-> "UPDATE", id |-> a, fields |-> Changed(a),
                 val |-> mem[a].val, ptr |-> WirePtr(mem[a].ptr)]
BulkMsg(a) == [op |-> "BULK", id |-> a, fields |-> Fields,
               val |-> mem[a].val, ptr |-> WirePtr(mem[a].ptr)]

Unsynced(a) == Changed(a) # {}

\* An UPDATE refreshes a pointer of the standby, except that the mark of a
\* pointer to memory without a record leaves it as it is.
StillStale ==
    {a \in Live : IF "ptr" \in Changed(a) THEN WirePtr(mem[a].ptr) = NotTha ELSE a \in stale}

\* Mutant: the hashes of the objects that were sent are not stored.
HaSyncUnhashed ==
    LET dirty == Only(db, {a \in Live : Unsynced(a)})
    IN  /\ "sync" \in Ops
        /\ dirty # <<>>
        /\ CanSend(Len(dirty))
        /\ chan' = chan \o [i \in DOMAIN dirty |-> UpdateMsg(dirty[i])]
        /\ UNCHANGED <<db, mem, hash, stale, sb>>

\* Mutant: only the first changed object is sent.
HaSyncFirst ==
    LET dirty == Only(db, {a \in Live : Unsynced(a)})
    IN  /\ "sync" \in Ops
        /\ dirty # <<>>
        /\ CanSend(1)
        /\ hash' = [a \in Addr |-> IF a \in Live THEN mem[a] ELSE hash[a]]
        /\ stale' = StillStale
        /\ chan' = Append(chan, UpdateMsg(dirty[1]))
        /\ UNCHANGED <<db, mem, sb>>

\* ha_sync: one UPDATE for each changed object, in the order of the list, and
\* its hashes stored anew.
HaSync ==
    LET dirty == Only(db, {a \in Live : Unsynced(a)})
    IN  /\ "sync" \in Ops
        /\ dirty # <<>>
        /\ CanSend(Len(dirty))
        /\ hash' = [a \in Addr |-> IF a \in Live THEN mem[a] ELSE hash[a]]
        /\ stale' = StillStale
        /\ chan' = chan \o [i \in DOMAIN dirty |-> UpdateMsg(dirty[i])]
        /\ UNCHANGED <<db, mem, sb>>

\* send_tha_clean_application_state_order.
OrderClean ==
    /\ "clean" \in Ops
    /\ CanSend(1)
    /\ chan' = Append(chan, [op |-> "CLEAN"])
    /\ UNCHANGED <<activeVars, sb>>

\* The object graph of the active, and the objects a bulk sync sends.
Succ == [a \in Addr |-> IF a \in Live THEN {mem[a].ptr} \cap Live ELSE {}]
Reachable == ReachableFrom(Static, Succ)

\* Orders of the bulk sync: see HeapSync!Send.
BulkOrders ==
    {s \in SetToSeqs(Reachable) :
        \A i \in DOMAIN s : \A t \in Succ[s[i]] :
            (\E j \in 1..i : s[j] = t) \/ Reaches(t, s[i], Succ)}

\* Mutant: the orphan commit is sent before the objects.
TheBulkSyncCommitFirst(order) ==
    /\ "bulk" \in Ops
    /\ CanSend(Len(order) + 2)
    /\ chan' = chan \o <<[op |-> "ORPHAN_COMMIT"]>>
                    \o [i \in DOMAIN order |-> BulkMsg(order[i])]
                    \o <<[op |-> "COMMIT", snap |-> [a \in Reachable |->
                             [val |-> mem[a].val, ptr |-> WirePtr(mem[a].ptr)]]]>>
    /\ UNCHANGED <<activeVars, sb>>

\* tha_bulk_sync: a BULK_SYNC for each reachable object, then the commits.
\* snap is a history field: what the active held.
TheBulkSync(order) ==
    /\ "bulk" \in Ops
    /\ CanSend(Len(order) + 2)
    /\ chan' = chan \o [i \in DOMAIN order |-> BulkMsg(order[i])]
                    \o <<[op |-> "ORPHAN_COMMIT"],
                         [op |-> "COMMIT", snap |-> [a \in Reachable |->
                             [val |-> mem[a].val, ptr |-> WirePtr(mem[a].ptr)]]]>>
    /\ UNCHANGED <<activeVars, sb>>

(***************************************************************************)
(* The socket and the receiving thread.                                    *)
(***************************************************************************)

Recv ==
    /\ chan # <<>>
    /\ sb.status = "up"
    /\ sb' = Deliver(sb, Head(chan))
    /\ chan' = Tail(chan)
    /\ UNCHANGED activeVars

Lose(i) ==
    /\ "lose" \in Net
    /\ chan[i].op \in Faulty
    /\ chan' = RemoveAt(chan, i)
    /\ UNCHANGED <<activeVars, sb>>

Duplicate(i) ==
    /\ "duplicate" \in Net
    /\ chan[i].op \in Faulty
    /\ CanSend(1) /\ CanCreate
    /\ chan' = InsertAt(chan, i, chan[i])
    /\ UNCHANGED <<activeVars, sb>>

Reorder(i) ==
    /\ "reorder" \in Net
    /\ i < Len(chan)
    /\ {chan[i].op, chan[i + 1].op} \subseteq Faulty
    /\ chan' = [chan EXCEPT ![i] = chan[i + 1], ![i + 1] = chan[i]]
    /\ UNCHANGED <<activeVars, sb>>

Next ==
    \/ \E a \in Heap : HaCalloc(a)
    \/ \E a \in Addr, v \in Val : WriteVal(a, v)
    \/ \E a \in Addr, t \in Addr \cup {Null} : WritePtr(a, t)
    \/ \E i \in DOMAIN db : HaFree(i)
    \/ HaSync
    \/ OrderClean
    \/ \E order \in BulkOrders : TheBulkSync(order)
    \/ Recv
    \/ \E i \in DOMAIN chan : Lose(i) \/ Duplicate(i) \/ Reorder(i)

Spec == Init /\ [][Next]_vars

\* The receiving thread blocks in recvfrom and takes what arrives.
FairSpec == Spec /\ WF_vars(Recv)

(***************************************************************************)
(* Properties.                                                             *)
(***************************************************************************)

WirePtrs == Addr \cup {Null, NotTha}
Msg ==
    [op : {"CREATE", "DELETE"}, id : Addr]
    \cup [op : {"UPDATE", "BULK"}, id : Addr, fields : SUBSET Fields,
          val : Val, ptr : WirePtrs]
    \cup [op : {"CLEAN", "ORPHAN_COMMIT"}]
    \cup [op : {"COMMIT"}, snap : UNION {[S -> [val : Val, ptr : WirePtrs]] : S \in SUBSET Addr}]
Loc == Static \cup (Nat \ {0})
Rec == [id : Addr, loc : Loc, val : Val, ptr : Loc \cup {Null, Dangling}]
Orphan == [from : Loc \cup {Dangling}, target : Addr]
Standby == [db : Seq(Rec), orphans : Seq(Orphan), status : {"up", "segfault", "corrupt"}]

\* Every variable stays in its set.
TypeOK ==
    /\ db \in Seq(Addr)
    /\ mem \in [Addr -> Cell]
    /\ hash \in [Addr -> Cell]
    /\ stale \in SUBSET Addr
    /\ chan \in Seq(Msg)
    /\ Len(chan) <= MaxChan
    /\ sb \in Standby

\* The standby after it has taken every message in the socket.
Drained == After(sb, chan)

\* With Net = {} and Ops \subseteq {"free", "sync"}, that is over a reliable
\* socket and without orders to clean and bulk syncs, the object databases of the
\* two machines are the same list once the messages under way have arrived: no
\* object is missing, doubled, left over or mixed up with one at the same address.
SameDirectory == [i \in DOMAIN Drained.db |-> Drained.db[i].id] = db

\* With Net = {} and Ops \subseteq {"free", "sync"} the stored hashes tell what the
\* standby has: it holds, or is about to receive, exactly the contents that the
\* active hashed last, so comparing with them (mark_changed_objects) finds what is
\* missing.  The exception are pointers whose hash was computed for an object freed
\* before or since: calloc may return its address again (tha_sync.c:633), and then
\* neither the hash nor the pointer changes although the standby's dangles.
HashedMirror ==
    LET s == Drained
    IN  \A a \in Live :
            LET r == s.db[Lookup(s, a)]
                p == hash[a].ptr
            IN  /\ r.val = hash[a].val
                /\ a \notin stale => r.ptr = IF p = Null THEN Null ELSE LocOf(s, p)

\* "This msg tells Standby that Active has Finished syncing all its Application
\* state, and no object is pending" (tha_sync.c:39-40), and the standby prints
\* "State is Synchronized" (568): one that is alive when it is about to take COMMIT
\* holds what the active held when it sent it.
CommitMirrors ==
    chan # <<>> /\ Head(chan).op = "COMMIT" /\ sb.status = "up" => Holds(sb, Head(chan).snap)

\* The standby survives every message and never writes through a pointer that
\* it freed.
StandbySurvives == sb.status = "up"

Synced == \A a \in Live : ~Unsynced(a)
LiveCells ==
    [a \in Live |-> [val |-> mem[a].val,
                     ptr |-> IF a \in stale THEN NotTha ELSE WirePtr(mem[a].ptr)]]

\* From some moment on the application does nothing.
Rests == <>[][Recv]_vars

\* With Net = {} and Ops \subseteq {"free", "sync"}: when the application rests and
\* has nothing left to sync, the standby becomes and stays a mirror image, up to
\* the pointers that HashedMirror excepts.
Converges == Rests /\ <>[]Synced => <>[](Holds(sb, LiveCells))
=============================================================================
