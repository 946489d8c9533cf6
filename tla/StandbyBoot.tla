----------------------------- MODULE StandbyBoot -----------------------------
(***************************************************************************)
(* The start of a standby.  init_tha starts the thread that takes messages *)
(* from the socket before the lists of orphan pointers and hashes exist,   *)
(* and before the application has registered its structures and its global *)
(* objects, so both threads add to object_db and walk through it, without  *)
(* a lock.  Steps are the single reads and writes of the shared list that  *)
(* the library, which is compiled without optimization, makes.             *)
(*                                                                         *)
(* The contents of objects are left out (see Replication), and so are      *)
(* DELETE and CLEAN_STATE messages and the console.                        *)
(***************************************************************************)
EXTENDS Naturals, FiniteSets, Sequences

CONSTANTS
    Order,      \* global objects in the order of their registration
    Heap,       \* heap objects that messages are about
    AppType,    \* those of them whose structure the application registers
    Null        \* the NULL pointer

Global == {Order[i] : i \in DOMAIN Order}
Object == Global \cup Heap

\* Every global object is registered once, and is no heap object.
ASSUME OrderAssumption ==
    /\ Order \in Seq(Global)
    /\ \A i, j \in DOMAIN Order : Order[i] = Order[j] => i = j
ASSUME HeapAssumption == IsFiniteSet(Heap) /\ Heap \cap Global = {}

\* Records by obj_id and the thread that makes them: at most one message makes
\* a record of an object (bound).
Rec == (Global \X {"main"}) \cup (Object \X {"recv"})
Link == Rec \cup {Null}
ASSUME NullAssumption == Null \notin Rec
ObjId(r) == r[1]

VARIABLES
    head, count,    \* object_db
    next, prev,
    lists,      \* orphan_pointer_list and hash_code_recompute_list exist
    structs,    \* the structures of the application are registered
    stage,      \* main thread: number of global objects it has begun to register
    job,        \* what each thread does in the object database
    made,       \* records that have been allocated
    dead,       \* the process has read through NULL
    raced,      \* history: records linked while the other thread linked one
    overlap     \* history: both threads were in the object database at once

db == <<head, count, next, prev>>
vars == <<db, lists, structs, stage, job, made, dead, raced, overlap>>

\* A call: op is "register" on the main thread, or the message; at the place
\* that it has reached; id what it is about; cur and i the variables of a
\* lookup, and later the values of head and count that it has read.
Job(op, at, id) == [op |-> op, at |-> at, id |-> id, cur |-> Null, i |-> 0]
NoJob == Job("none", "idle", Null)
Thread == {"main", "recv"}

\* The record that t makes.
Mine(t) == <<job[t].id, t>>
At(t, place) == ~dead /\ job[t].at = place
Goes(t, place) == job' = [job EXCEPT ![t].at = place]

Init ==
    /\ head = Null /\ count = 0
    /\ next = [r \in Rec |-> Null] /\ prev = [r \in Rec |-> Null]
    /\ lists = FALSE /\ structs = FALSE
    /\ stage = 0
    /\ job = [t \in Thread |-> NoJob]
    /\ made = {}
    /\ dead = FALSE
    /\ raced = {} /\ overlap = FALSE

(***************************************************************************)
(* The main thread.                                                        *)
(***************************************************************************)

\* The rest of init_tha.
MakeLists ==
    /\ At("main", "idle") /\ ~lists
    /\ lists' = TRUE
    /\ UNCHANGED <<db, structs, stage, job, made, dead>>

\* HA_REG_STRUCT of the application's structures.
RegisterStructs ==
    /\ At("main", "idle") /\ lists /\ ~structs
    /\ structs' = TRUE
    /\ UNCHANGED <<db, lists, stage, job, made, dead>>

\* THA_ADD_GLOBAL_OBJECT_BY_REF: into tha_add_object.
RegisterGlobal ==
    /\ At("main", "idle") /\ structs /\ stage < Len(Order)
    /\ stage' = stage + 1
    /\ job' = [job EXCEPT !["main"] = Job("register", "look_up", Order[stage + 1])]
    /\ UNCHANGED <<db, lists, structs, made, dead>>

(***************************************************************************)
(* The receiving thread.                                                   *)
(***************************************************************************)

\* The record of the structure of object o is found.
KnownType(o) == o \in AppType => structs

\* tha_create_object, into tha_add_object.  Of an unknown type: dropped.
TakeCreate(o) ==
    /\ At("recv", "idle")
    /\ KnownType(o) /\ <<o, "recv">> \notin made
    /\ job' = [job EXCEPT !["recv"] = Job("CREATE", "look_up", o)]
    /\ UNCHANGED <<db, lists, structs, stage, made, dead>>

\* tha_update_object and tha_recv_bulk_sync look up the obj_id.
TakeUpdate(op, o) ==
    /\ At("recv", "idle")
    /\ job' = [job EXCEPT !["recv"] = Job(op, "look_up", o)]
    /\ UNCHANGED <<db, lists, structs, stage, made, dead>>

\* ORPHAN_POINTER_COMMIT reads through the NULL lists.  Otherwise it only sets
\* fields of objects.
TakeEarlyCommit ==
    /\ At("recv", "idle") /\ ~lists
    /\ dead' = TRUE
    /\ UNCHANGED <<db, lists, structs, stage, job, made>>

(***************************************************************************)
(* tha_object_db_lookup_by_Addr, of a new address, when an object is added *)
(* and tha_object_db_lookup_by_objid in the other calls: from head, for    *)
(* count turns, count being read in each of them.                          *)
(***************************************************************************)

LookUp(t) ==
    /\ At(t, "look_up")
    /\ job' = [job EXCEPT ![t].cur = head, ![t].i = 0,
                          ![t].at = IF head = Null THEN "missed" ELSE "turn"]
    /\ UNCHANGED <<db, lists, structs, stage, made, dead>>

Turn(t) == At(t, "turn") /\ job[t].i < count
Matches(t) ==
    job[t].op \in {"UPDATE", "BULK"} /\ job[t].cur # Null /\ ObjId(job[t].cur) = job[t].id

TurnOn(t) ==
    /\ Turn(t) /\ job[t].cur # Null /\ ~Matches(t)
    /\ job' = [job EXCEPT ![t].cur = next[@], ![t].i = @ + 1]
    /\ UNCHANGED <<db, lists, structs, stage, made, dead>>

\* The object is updated.
TurnFinds(t) ==
    /\ Turn(t) /\ Matches(t)
    /\ job' = [job EXCEPT ![t] = NoJob]
    /\ UNCHANGED <<db, lists, structs, stage, made, dead>>

\* Behind the last record.
TurnDies(t) ==
    /\ Turn(t) /\ job[t].cur = Null
    /\ dead' = TRUE
    /\ UNCHANGED <<db, lists, structs, stage, job, made>>

LookUpEnds(t) ==
    /\ At(t, "turn") /\ job[t].i >= count
    /\ job' = [job EXCEPT ![t] = Job(@.op, "missed", @.id)]
    /\ UNCHANGED <<db, lists, structs, stage, made, dead>>

\* tha_update_object of an unknown object, and tha_recv_bulk_sync of one of an
\* unknown type (or one that a message has made before: bound).
Drop(t) ==
    /\ At(t, "missed")
    /\ \/ job[t].op = "UPDATE"
       \/ job[t].op = "BULK" /\ (~KnownType(job[t].id) \/ Mine(t) \in made)
    /\ job' = [job EXCEPT ![t] = NoJob]
    /\ UNCHANGED <<db, lists, structs, stage, made, dead>>

\* tha_recv_bulk_sync creates the object: tha_add_object looks up its address.
BulkCreates(t) ==
    /\ At(t, "missed") /\ job[t].op = "BULK"
    /\ KnownType(job[t].id) /\ Mine(t) \notin made
    /\ job' = [job EXCEPT ![t] = Job("BULK_CREATE", "look_up", @.id)]
    /\ UNCHANGED <<db, lists, structs, stage, made, dead>>

(***************************************************************************)
(* The rest of tha_add_object, which is ha_reg_object.                     *)
(***************************************************************************)

Allocate(t) ==
    /\ At(t, "missed") /\ job[t].op \in {"register", "CREATE", "BULK_CREATE"}
    /\ made' = made \cup {Mine(t)}
    /\ Goes(t, "test")
    /\ UNCHANGED <<db, lists, structs, stage, dead>>

TestHead(t) ==
    /\ At(t, "test")
    /\ Goes(t, IF head = Null THEN "publish" ELSE "link")
    /\ UNCHANGED <<db, lists, structs, stage, made, dead>>

\* head = object_db->head; rec->next = head.
LinkNext(t) ==
    /\ At(t, "link")
    /\ next' = [next EXCEPT ![Mine(t)] = head]
    /\ job' = [job EXCEPT ![t].at = "back", ![t].cur = head]
    /\ UNCHANGED <<head, count, prev, lists, structs, stage, made, dead>>

\* Mutant: head->next = rec.
LinkPrevAsNext(t) ==
    /\ At(t, "back")
    /\ next' = [next EXCEPT ![job[t].cur] = Mine(t)]
    /\ Goes(t, "publish")
    /\ UNCHANGED <<head, count, prev, lists, structs, stage, made, dead>>

\* head->prev = rec.
LinkPrev(t) ==
    /\ At(t, "back")
    /\ prev' = [prev EXCEPT ![job[t].cur] = Mine(t)]
    /\ Goes(t, "publish")
    /\ UNCHANGED <<head, count, next, lists, structs, stage, made, dead>>

\* object_db->head = rec.
Publish(t) ==
    /\ At(t, "publish")
    /\ head' = Mine(t)
    /\ job' = [job EXCEPT ![t] = Job(@.op, "count", @.id)]
    /\ UNCHANGED <<count, next, prev, lists, structs, stage, made, dead>>

\* object_db->count++, which reads and then writes.
ReadCount(t) ==
    /\ At(t, "count")
    /\ job' = [job EXCEPT ![t].at = "add", ![t].i = count]
    /\ UNCHANGED <<db, lists, structs, stage, made, dead>>

\* Mutant: count stays behind.
WriteCountLess(t) ==
    /\ At(t, "add")
    /\ count' = job[t].i
    /\ job' = [job EXCEPT ![t] = IF @.op = "BULK_CREATE" THEN Job("UPDATE", "look_up", @.id)
                                 ELSE NoJob]
    /\ UNCHANGED <<head, next, prev, lists, structs, stage, made, dead>>

\* After it a BULK_SYNC message goes on as an UPDATE.
WriteCount(t) ==
    /\ At(t, "add")
    /\ count' = job[t].i + 1
    /\ job' = [job EXCEPT ![t] = IF @.op = "BULK_CREATE" THEN Job("UPDATE", "look_up", @.id)
                                 ELSE NoJob]
    /\ UNCHANGED <<head, next, prev, lists, structs, stage, made, dead>>

Main == MakeLists \/ RegisterStructs \/ RegisterGlobal
Receive ==
    \/ \E o \in Heap : TakeCreate(o)
    \/ \E o \in Object, op \in {"UPDATE", "BULK"} : TakeUpdate(op, o)
    \/ TakeEarlyCommit
Step(t) ==
    \/ LookUp(t) \/ TurnOn(t) \/ TurnFinds(t) \/ TurnDies(t) \/ LookUpEnds(t)
    \/ Drop(t) \/ BulkCreates(t)
    \/ Allocate(t) \/ TestHead(t) \/ LinkNext(t) \/ LinkPrev(t) \/ Publish(t)
    \/ ReadCount(t) \/ WriteCount(t)

\* t is in ha_reg_object and has not made its record the head.
Linking(t) == job[t].at \in {"test", "link", "back", "publish"}

Next ==
    /\ Main \/ Receive \/ \E t \in Thread : Step(t)
    /\ raced' = raced \cup IF \A t \in Thread : Linking(t)' THEN {Mine(t)' : t \in Thread} ELSE {}
    /\ overlap' = (overlap \/ \A t \in Thread : job'[t].at # "idle")

Spec == Init /\ [][Next]_vars

(***************************************************************************)
(* Properties.                                                             *)
(***************************************************************************)

\* The first n records from head on, or all there are.
Walk(n) ==
    LET walk[k \in 0..n] == IF k = 0 THEN head
                            ELSE IF walk[k - 1] = Null THEN Null ELSE next[walk[k - 1]]
    IN  {walk[k] : k \in 0..n} \ {Null}
OnList == Walk(Cardinality(Rec))

\* The first record of o in the first n.
Finds(o, r) ==
    \E n \in 0..Cardinality(Rec) : /\ r \in Walk(n) /\ ObjId(r) = o
                                   /\ \A q \in Walk(n) \ {r} : ObjId(q) # o

\* Every variable stays in its set, and however the two threads link their
\* records, the list is free of cycles and of records that nobody allocated.
TypeOK ==
    /\ head \in Link /\ count \in 0..Cardinality(Rec)
    /\ {next, prev} \subseteq [Rec -> Link]
    /\ {lists, structs, dead, overlap} \subseteq BOOLEAN
    /\ stage \in 0..Len(Order)
    /\ job \in [Thread -> [op : {"none", "register", "CREATE", "UPDATE", "BULK", "BULK_CREATE"},
                           at : {"idle", "look_up", "turn", "missed", "test", "link", "back",
                                 "publish", "count", "add"},
                           id : Object \cup {Null}, cur : Link, i : 0..Cardinality(Rec)]]
    /\ made \subseteq Rec /\ raced \subseteq made
    /\ OnList \subseteq made
    /\ head # Null => \E r \in OnList : next[r] = Null

\* A record that was linked while the other thread linked none is on the list
\* for good.  If the two threads were never in the object database at once, no
\* lookup leaves the list, and after each call count is the length of the list
\* and the obj_id of every registered global object leads to it, copies that
\* earlier messages made of it notwithstanding.
RegisteredIsFound ==
    /\ \A t \in Thread : \A r \in made \ raced :
          r[2] = t => r \in OnList \/ (Linking(t) /\ r = Mine(t))
    /\ ~overlap =>
          /\ dead => ~lists
          /\ (\A t \in Thread : job[t].at = "idle") =>
                /\ count = Cardinality(OnList)
                /\ \A i \in 1..stage : Finds(Order[i], <<Order[i], "main">>)
=============================================================================
