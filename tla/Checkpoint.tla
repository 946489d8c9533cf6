----------------------------- MODULE Checkpoint -----------------------------
(***************************************************************************)
(* Checkpoints of the active machine (tha_bulk_sync with enable_checkpoint *)
(* set, load_checkpoint in tha_sync.c, state_sync_start and ha_sync in     *)
(* tha_sock.c) and what they do to the standby.                            *)
(*                                                                         *)
(* A checkpoint is the file of the messages that a bulk sync would have    *)
(* sent.  load_checkpoint cleans both machines, then takes the messages    *)
(* from the file as if this machine were a standby, one at a time, and     *)
(* forwards each to the standby.  The objects come back at addresses that  *)
(* calloc chooses anew, but keep the obj_id that they were saved with, the *)
(* address they had then: from then on identity and address differ.        *)
(*                                                                         *)
(* The active process may die and start again; the file and the standby    *)
(* outlive it.  The socket is reliable here, and a bulk sync that goes to  *)
(* the standby instead of a file is in Replication.                        *)
(*                                                                         *)
(* While checkpoints are enabled state_sync_start writes to the file what  *)
(* it would have sent: CREATE and the messages of a bulk sync.  DELETE and *)
(* CLEAN do not pass through it and always go to the standby.              *)
(***************************************************************************)
EXTENDS HeapGraph, Receiver

CONSTANTS
    Val,        \* contents of the data field
    Faults,     \* what may happen besides: "restart" of the active, "restart in
                \* load", "same id": calloc returns an address that is the
                \* obj_id of a loaded object
    MaxObj,     \* bound on the records of the active
    MaxWrite,   \* bound on the stores of the application
    MaxChan     \* bound on the messages in the socket

ASSUME ZeroAssumption == Zero \in Val
ASSUME FaultsAssumption == Faults \subseteq {"restart", "restart in load", "same id"}
ASSUME BoundAssumption == {MaxObj, MaxWrite, MaxChan} \subseteq Nat

VARIABLES
    act,        \* the active: a record [db, orphans, status], see Receiver
    hash,       \* hash[l]: contents that the stored hashes of the object at l
                \* were computed from
    stale,      \* history: objects whose pointer the stored hash says nothing about
    enabled,    \* enable_checkpoint
    file,       \* the last checkpoint written
    todo,       \* messages of the file that are still to be loaded
    loading,    \* the application is inside load_checkpoint
    chan,       \* messages in the socket, oldest first
    sb,         \* the standby
    saved,      \* history: what the active held when it wrote the file
    aligned,    \* history: the standby has no state of an earlier process
    writes      \* number of stores so far, for the bound

active == <<act, hash, stale, enabled, todo, loading>>
disk == <<file, saved>>
vars == <<act, hash, stale, enabled, file, todo, loading, chan, sb, saved, aligned, writes>>

Fields == {"val", "ptr"}
ZeroCell == [val |-> Zero, ptr |-> Null]
CellOf(r) == [val |-> r.val, ptr |-> r.ptr]

Live == {r.loc : r \in ToSet(act.db)}
Ids(s) == {r.id : r \in ToSet(s.db)}
\* tha_object_db_lookup_by_Addr
RecAt(s, l) == s.db[SelectInSeq(s.db, LAMBDA r : r.loc = l)]

CanSend(n) == Len(chan) + n <= MaxChan
\* The application runs: the process is alive and not inside a load.
Running == act.status = "up" /\ ~loading

Init == /\ act \in {Registered(s) : s \in SetToSeqs(Static)}
        /\ hash = [l \in Addr |-> ZeroCell]
        /\ stale = {}
        /\ enabled = FALSE
        /\ file = <<>> /\ saved = <<>>
        /\ todo = <<>> /\ loading = FALSE
        /\ chan = <<>>
        /\ sb = act
        /\ aligned = TRUE
        /\ writes = 0

(***************************************************************************)
(* The application.                                                        *)
(***************************************************************************)

\* ha_calloc.  With checkpoints enabled CREATE is written to a file that is
\* only open inside a bulk sync (tha_sock.c:49).
HaCalloc(l) ==
    LET s == Create(act, l, l)
    IN  /\ Running
        /\ l \in Heap \ Live
        /\ l \notin Ids(act) \/ "same id" \in Faults
        /\ Len(act.db) < MaxObj
        /\ CanSend(1)
        /\ act' = IF enabled THEN [s EXCEPT !.status = "segfault"] ELSE s
        /\ hash' = [hash EXCEPT ![l] = ZeroCell]
        /\ chan' = IF enabled THEN chan ELSE Append(chan, [op |-> "CREATE", id |-> l])
        /\ UNCHANGED <<stale, enabled, disk, todo, loading, sb, aligned, writes>>

\* ha_free of a heap object.  DELETE names it by its obj_id and is sent at once.
\* Other objects keep their pointers to the memory, which calloc may return
\* again, and the hashes of them.
HaFree(i) ==
    LET l == act.db[i].loc
    IN  /\ Running
        /\ l \in Heap
        /\ CanSend(1)
        /\ act' = [act EXCEPT !.db = RemoveAt(@, i)]
        /\ hash' = [hash EXCEPT ![l] = ZeroCell]
        /\ stale' = (stale \cup {a \in Live : hash[a].ptr = l}) \ {l}
        /\ chan' = Append(chan, [op |-> "DELETE", id |-> act.db[i].id])
        /\ UNCHANGED <<enabled, disk, todo, loading, sb, aligned, writes>>

\* A plain store into the i-th object; a pointer is taken from a live object.
Store(i, r) ==
    /\ Running
    /\ writes < MaxWrite
    /\ act' = [act EXCEPT !.db[i] = r]
    /\ writes' = writes + 1
    /\ UNCHANGED <<hash, stale, enabled, disk, todo, loading, chan, sb, aligned>>

Write(i) ==
    \/ \E v \in Val \ {act.db[i].val} : Store(i, [act.db[i] EXCEPT !.val = v])
    \/ \E p \in (Live \cup {Null}) \ {act.db[i].ptr} : Store(i, [act.db[i] EXCEPT !.ptr = p])

\* The wire form of a pointer: NULL, the obj_id of a registered object, or the
\* mark of a pointer to anything else.
WirePtr(p) == CASE p = Null -> Null
                [] p \in Live -> RecAt(act, p).id
                [] OTHER -> NotTha

Msg(o, r, fields) ==
    [op |-> o, id |-> r.id, fields |-> fields, val |-> r.val, ptr |-> WirePtr(r.ptr)]
Changed(r) == {f \in Fields : r[f] # hash[r.loc][f]}

\* An UPDATE refreshes a pointer of the standby, except that the mark of a
\* pointer to memory without a record leaves it as it is.
StillStale ==
    {a \in Live : IF "ptr" \in Changed(RecAt(act, a)) THEN WirePtr(RecAt(act, a).ptr) = NotTha
                  ELSE a \in stale}

\* ha_sync, refused while checkpoints are enabled.
HaSync ==
    LET dirty == Only(act.db, {r \in ToSet(act.db) : Changed(r) # {}})
    IN  /\ Running
        /\ ~enabled
        /\ dirty # <<>>
        /\ CanSend(Len(dirty))
        /\ chan' = chan \o [i \in DOMAIN dirty |-> Msg("UPDATE", dirty[i], Changed(dirty[i]))]
        /\ hash' = [l \in Addr |-> IF l \in Live THEN CellOf(RecAt(act, l)) ELSE hash[l]]
        /\ stale' = StillStale
        /\ UNCHANGED <<act, enabled, disk, todo, loading, sb, aligned, writes>>

EnableCheckpoint(b) ==
    /\ Running
    /\ enabled # b
    /\ enabled' = b
    /\ UNCHANGED <<act, hash, stale, disk, todo, loading, chan, sb, aligned, writes>>

\* The object graph, by address, and the orders a bulk sync allows: HeapSync!Send.
Succ == [l \in Addr |-> IF l \in Live THEN {RecAt(act, l).ptr} \cap Live ELSE {}]
Reachable == ReachableFrom(Static, Succ)
BulkOrders ==
    {s \in SetToSeqs(Reachable) :
        \A i \in DOMAIN s : \A t \in Succ[s[i]] :
            (\E j \in 1..i : s[j] = t) \/ Reaches(t, s[i], Succ)}

\* Mutant: the orphan commit is written before the objects.
SaveCommitFirst(order) ==
    LET recs == [i \in DOMAIN order |-> RecAt(act, order[i])]
    IN  /\ Running
        /\ enabled
        /\ file' = <<[op |-> "ORPHAN_COMMIT"]>>
                      \o [i \in DOMAIN recs |-> Msg("BULK", recs[i], Fields)]
                      \o <<[op |-> "COMMIT"]>>
        /\ saved' = [a \in {r.id : r \in ToSet(recs)} |->
                        LET r == act.db[Lookup(act, a)]
                        IN  [val |-> r.val, ptr |-> WirePtr(r.ptr)]]
        /\ UNCHANGED <<active, chan, sb, aligned, writes>>

\* tha_bulk_sync with checkpoints enabled: every message goes to a new file.
Save(order) ==
    LET recs == [i \in DOMAIN order |-> RecAt(act, order[i])]
    IN  /\ Running
        /\ enabled
        /\ file' = [i \in DOMAIN recs |-> Msg("BULK", recs[i], Fields)]
                      \o <<[op |-> "ORPHAN_COMMIT"], [op |-> "COMMIT"]>>
        /\ saved' = [a \in {r.id : r \in ToSet(recs)} |->
                        LET r == act.db[Lookup(act, a)]
                        IN  [val |-> r.val, ptr |-> WirePtr(r.ptr)]]
        /\ UNCHANGED <<active, chan, sb, aligned, writes>>

(***************************************************************************)
(* load_checkpoint.                                                        *)
(***************************************************************************)

\* Mutant: the state of the standby is not cleaned.
BeginLoadHere(msgs) ==
    /\ Running
    /\ ~enabled
    /\ CanSend(1)
    /\ act' = Clean(act)
    /\ hash' = [l \in Addr |-> ZeroCell]
    /\ stale' = {}
    /\ todo' = msgs
    /\ aligned' = TRUE
    /\ UNCHANGED <<enabled, disk, chan, sb, writes>>

\* Refused while checkpoints are enabled; cleans the standby, then this machine,
\* and only then opens the file.  The hash of zeroed memory is zero.
BeginLoad(msgs) ==
    /\ Running
    /\ ~enabled
    /\ CanSend(1)
    /\ chan' = Append(chan, [op |-> "CLEAN"])
    /\ act' = Clean(act)
    /\ hash' = [l \in Addr |-> ZeroCell]
    /\ stale' = {}
    /\ todo' = msgs
    /\ aligned' = TRUE
    /\ UNCHANGED <<enabled, disk, sb, writes>>

LoadCheckpoint == file # <<>> /\ BeginLoad(file) /\ loading' = TRUE

\* The file cannot be opened: both machines stay empty.
LoadMissing == BeginLoad(<<>>) /\ loading' = FALSE

\* Mutant: the hashes of the linked pointers are not recomputed.
WrittenUnlinked(m, s) == IF m.op = "BULK" THEN {LocOf(s, m.id)} ELSE {}

\* Objects whose hashes are stored after m, s being the state it led to: those
\* it wrote (de_serialize_object), and those whose orphan pointers it linked
\* (hash_code_recompute_list).
Written(m, s) ==
    CASE m.op = "BULK" -> {LocOf(s, m.id)}
      [] m.op = "ORPHAN_COMMIT" -> {o.from : o \in ToSet(act.orphans)}
      [] OTHER -> {}

\* One message of the file; l is what calloc returns if it creates an object,
\* which is then announced to the standby by tha_add_object.
LoadMessage(l) ==
    LET m == Head(todo)
        s == DeliverAt(act, m, l)
        creates == m.op = "BULK" /\ Lookup(act, m.id) = 0
        create == IF creates THEN <<[op |-> "CREATE", id |-> m.id]>> ELSE <<>>
    IN  /\ loading /\ act.status = "up"
        /\ todo # <<>>
        /\ l \in IF creates THEN Heap \ Live ELSE {Null}
        /\ CanSend(1 + Len(create))
        /\ act' = s
        /\ hash' = [a \in Addr |-> IF a \in Written(m, s) THEN CellOf(RecAt(s, a)) ELSE hash[a]]
        /\ chan' = chan \o create \o (IF s.status = "up" THEN <<m>> ELSE <<>>)
        /\ todo' = Tail(todo)
        /\ UNCHANGED <<stale, enabled, disk, loading, sb, aligned, writes>>

LoadDone ==
    /\ loading /\ act.status = "up"
    /\ todo = <<>>
    /\ loading' = FALSE
    /\ UNCHANGED <<act, hash, stale, enabled, disk, todo, chan, sb, aligned, writes>>

(***************************************************************************)
(* The environment.                                                        *)
(***************************************************************************)

\* The active process dies and starts again, with its global objects only.  As a
\* bound, a process that has not loaded a checkpoint does not restart.
Restart ==
    /\ "restart" \in Faults
    /\ aligned
    /\ ~loading \/ "restart in load" \in Faults
    /\ \E s \in SetToSeqs(Static) : act' = Registered(s)
    /\ hash' = [l \in Addr |-> ZeroCell]
    /\ stale' = {}
    /\ enabled' = FALSE /\ loading' = FALSE /\ todo' = <<>>
    /\ aligned' = FALSE
    /\ UNCHANGED <<disk, chan, sb, writes>>

Recv ==
    /\ chan # <<>>
    /\ sb.status = "up"
    /\ sb' = Deliver(sb, Head(chan))
    /\ chan' = Tail(chan)
    /\ UNCHANGED <<active, disk, aligned, writes>>

Next ==
    \/ \E l \in Heap : HaCalloc(l)
    \/ \E i \in DOMAIN act.db : HaFree(i)
    \/ \E i \in DOMAIN act.db : Write(i)
    \/ HaSync
    \/ \E b \in BOOLEAN : EnableCheckpoint(b)
    \/ \E order \in BulkOrders : Save(order)
    \/ LoadCheckpoint \/ LoadMissing
    \/ \E l \in Heap \cup {Null} : LoadMessage(l)
    \/ LoadDone
    \/ Restart
    \/ Recv

Spec == Init /\ [][Next]_vars

(***************************************************************************)
(* Properties.                                                             *)
(***************************************************************************)

\* The standby after it has taken every message in the socket.
Drained == After(sb, chan)

\* When the last message of the file was loaded, this machine holds what it held
\* when the file was written and nothing else, at whatever addresses, and the
\* standby is about to: "User can save and reload application state from
\* persistent storage as well" (README).
LoadRestores ==
    loading /\ act.status = "up" /\ todo = <<>> =>
        /\ Holds(act, saved) /\ Ids(act) = DOMAIN saved
        /\ Holds(Drained, saved) /\ Ids(Drained) = DOMAIN saved

\* Unless the standby still has the state of an earlier process, its objects and
\* those of the active are twins, one to one: a twin has the same obj_id and the
\* contents that the active hashed last, and its pointer leads to the twin of the
\* object that the active's pointer led to.  A load, at any point of it, changes
\* neither.  "mirror images of each other at all point of time" (README).  The
\* exception are pointers whose hash was computed for an object that was freed
\* since, or that led to no object when they were synced last.
Mirror ==
    LET s == Drained
    IN  aligned /\ act.status = "up" =>
            \E twin \in Bijection(DOMAIN act.db, DOMAIN s.db) :
                \A i \in DOMAIN act.db :
                    LET a == act.db[i]
                        r == s.db[twin[i]]
                        p == hash[a.loc].ptr
                    IN  /\ r.id = a.id
                        /\ r.val = hash[a.loc].val
                        /\ \/ a.loc \in stale
                           \/ p = Null /\ r.ptr = Null
                           \/ \E j \in DOMAIN act.db :
                                 act.db[j].loc = p /\ r.ptr = s.db[twin[j]].loc

\* Neither machine dies of what a file holds; the active only dies of a creation
\* while checkpoints are enabled.
Survive == /\ sb.status = "up"
           /\ act.status = "up" \/ (act.status = "segfault" /\ enabled)

Loc == Addr \cup (Nat \ {0})
Rec == [id : Addr, loc : Loc, val : Val, ptr : Loc \cup {Null, Dangling}]
MachineState == [db : Seq(Rec), orphans : Seq([from : Loc \cup {Dangling}, target : Addr]),
                 status : {"up", "segfault", "corrupt"}]
Messages ==
    [op : {"CREATE", "DELETE"}, id : Addr]
    \cup [op : {"UPDATE", "BULK"}, id : Addr, fields : SUBSET Fields,
          val : Val, ptr : Addr \cup {Null, NotTha}]
    \cup [op : {"CLEAN", "ORPHAN_COMMIT", "COMMIT"}]

\* Every variable stays in its set, and no two objects share an address.
TypeOK ==
    /\ {act, sb} \subseteq MachineState
    /\ Cardinality(Live) = Len(act.db)
    /\ hash \in [Addr -> [val : Val, ptr : Addr \cup {Null, Dangling}]]
    /\ stale \in SUBSET Addr
    /\ {enabled, loading, aligned} \subseteq BOOLEAN
    /\ {file, todo, chan} \subseteq Seq(Messages)
    /\ Len(chan) <= MaxChan
=============================================================================
