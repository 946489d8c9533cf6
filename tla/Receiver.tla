------------------------------ MODULE Receiver ------------------------------
(***************************************************************************)
(* What de_serialize_buffer does with each message (tha_sync.c), as        *)
(* functions of the state of the machine that takes it: the standby, for   *)
(* the messages in the socket, and the active while it loads a checkpoint, *)
(* for those in the file.                                                  *)
(*                                                                         *)
(* The state is a record [db, orphans, status].  db is object_db, head     *)
(* first; a record of it is [id, loc, val, ptr], loc being where its       *)
(* object lives.  Every object has one data field, val, and one VOID_PTR   *)
(* field, ptr.                                                             *)
(***************************************************************************)
EXTENDS Naturals, SequencesExt

CONSTANTS
    Static,     \* global objects, registered on both machines
    Heap,       \* addresses that calloc can return on the active
    Zero,       \* the content of zeroed memory
    Null,       \* the NULL pointer
    Dangling,   \* a pointer into memory that has been freed
    NotTha      \* NOT_THA_ENABLED_POINTER

\* Addresses of the active, which are also the identities of objects.
Addr == Static \cup Heap

ASSUME DistinctAssumption ==
    /\ Static \cap Heap = {}
    /\ Addr \cap {Null, Dangling, NotTha} = {}
    /\ Null # Dangling /\ Null # NotTha /\ Dangling # NotTha
    /\ {Null, Dangling} \cap Nat = {}
\* There are finitely many addresses.
ASSUME FiniteAssumption == IsFiniteSet(Addr)

\* The elements of seq that are in S, in their order: SelectSeq, written as a
\* recursive function so that the provers can look into it.
Only(seq, S) ==
    LET kept[n \in 0..Len(seq)] == IF n = 0 THEN <<>>
                                   ELSE IF seq[n] \in S THEN Append(kept[n - 1], seq[n])
                                   ELSE kept[n - 1]
    IN  kept[Len(seq)]

\* Position of the first record with this obj_id (tha_object_db_lookup_by_objid),
\* 0 if there is none.
Lookup(s, id) == SelectInSeq(s.db, LAMBDA r : r.id = id)
LocOf(s, id) == s.db[Lookup(s, id)].loc

\* The memory of an object is freed: pointers into it, in objects and in the
\* list of orphan pointers, dangle.
Poison(s, l) ==
    [s EXCEPT !.db = [i \in DOMAIN @ |-> IF @[i].ptr = l THEN [@[i] EXCEPT !.ptr = Dangling]
                                         ELSE @[i]],
              !.orphans = [i \in DOMAIN @ |-> IF @[i].from = l THEN [@[i] EXCEPT !.from = Dangling]
                                              ELSE @[i]]]

\* tha_create_object: no test whether the obj_id exists already.  calloc returns l.
Create(s, id, l) ==
    [s EXCEPT !.db = Cons([id |-> id, loc |-> l, val |-> Zero, ptr |-> Null], @)]

\* Mutant: a pointer to an unknown object is not put on the orphan list.
UpdateForgetful(s, m) ==
    LET i == Lookup(s, m.id)
        newPtr == CASE m.ptr = NotTha -> s.db[i].ptr
                    [] m.ptr = Null \/ Lookup(s, m.ptr) = 0 -> Null
                    [] OTHER -> LocOf(s, m.ptr)
    IN  IF i = 0 THEN s
        ELSE [s EXCEPT
                !.db[i].val = IF "val" \in m.fields THEN m.val ELSE @,
                !.db[i].ptr = IF "ptr" \in m.fields THEN newPtr ELSE @]

\* tha_update_object and de_serialize_object: the fields that the message
\* carries.  A pointer to an object that is not known is NULL until the next
\* commit of the orphan pointers.
Update(s, m) ==
    LET i == Lookup(s, m.id)
        orphan == "ptr" \in m.fields /\ m.ptr \in Addr /\ Lookup(s, m.ptr) = 0
        newPtr == CASE m.ptr = NotTha -> s.db[i].ptr
                    [] m.ptr = Null -> Null
                    [] OTHER -> IF orphan THEN Null ELSE LocOf(s, m.ptr)
    IN  IF i = 0 THEN s
        ELSE [s EXCEPT
                !.db[i].val = IF "val" \in m.fields THEN m.val ELSE @,
                !.db[i].ptr = IF "ptr" \in m.fields THEN newPtr ELSE @,
                !.orphans = IF orphan THEN Cons([from |-> s.db[i].loc, target |-> m.ptr], @)
                            ELSE @]

\* tha_recv_bulk_sync: creates the object if it is not known, then updates it.
BulkUpdate(s, m, l) == Update(IF Lookup(s, m.id) = 0 THEN Create(s, m.id, l) ELSE s, m)

\* Mutant: the record at the head of the list is removed, not the one found.
DeleteHead(s, m) ==
    LET i == Lookup(s, m.id)
    IN  IF i = 0 THEN s
        ELSE [Poison(s, s.db[i].loc) EXCEPT !.db = Tail(@)]

\* tha_delete_object: the first record with the obj_id.
Delete(s, m) ==
    LET i == Lookup(s, m.id)
    IN  IF i = 0 THEN s
        ELSE [Poison(s, s.db[i].loc) EXCEPT !.db = RemoveAt(@, i)]

\* tha_clean_application_state: frees the heap objects, zeroes the global ones
\* and leaves the list of orphan pointers alone.
Clean(s) ==
    LET kept == Only(s.db, {r \in ToSet(s.db) : r.loc \in Static})
    IN  [s EXCEPT
            !.db = [i \in DOMAIN kept |-> [kept[i] EXCEPT !.val = Zero, !.ptr = Null]],
            !.orphans = [i \in DOMAIN @ |->
                            IF @[i].from \in Static THEN @[i]
                            ELSE [@[i] EXCEPT !.from = Dangling]]]

\* tha_process_commit_orphan_pointers_list: from the head of the list, newest
\* entry first, each pointer is set.  An entry whose target is not known makes
\* the process read through NULL (line 73); one whose pointer was freed makes it
\* write into freed memory (line 77).
CommitOrphans(s) ==
    LET broken == {i \in DOMAIN s.orphans : \/ Lookup(s, s.orphans[i].target) = 0
                                            \/ s.orphans[i].from = Dangling}
        entries(l) == {i \in DOMAIN s.orphans : s.orphans[i].from = l}
        Linked(r) == IF entries(r.loc) = {} THEN r
                     ELSE [r EXCEPT !.ptr = LocOf(s, s.orphans[Max(entries(r.loc))].target)]
    IN  IF broken = {}
        THEN [s EXCEPT !.db = [i \in DOMAIN @ |-> Linked(@[i])], !.orphans = <<>>]
        ELSE [s EXCEPT !.status = IF Lookup(s, s.orphans[Min(broken)].target) = 0
                                  THEN "segfault" ELSE "corrupt"]

\* de_serialize_buffer, when calloc returns l.
DeliverAt(s, m, l) ==
    CASE m.op = "CREATE" -> Create(s, m.id, l)
      [] m.op = "UPDATE" -> Update(s, m)
      [] m.op = "BULK" -> BulkUpdate(s, m, l)
      [] m.op = "DELETE" -> Delete(s, m)
      [] m.op = "CLEAN" -> Clean(s)
      [] m.op = "ORPHAN_COMMIT" -> CommitOrphans(s)
      [] m.op = "COMMIT" -> s

\* Mutant: the standby is out of memory and calloc's result is not tested.
FreshLocUnchecked(s) == 0

\* calloc on the standby: some location without an object.
FreshLoc(s) == CHOOSE l \in 1..(Len(s.db) + 1) : \A i \in DOMAIN s.db : s.db[i].loc # l

\* The receiving thread of the standby: one message.
Deliver(s, m) == DeliverAt(s, m, FreshLoc(s))

\* The standby after it has taken a sequence of messages.
After(s, msgs) ==
    LET state[n \in 0..Len(msgs)] == IF n = 0 THEN s ELSE Deliver(state[n - 1], msgs[n])
    IN  state[Len(msgs)]

\* A machine that has registered its global objects, and nothing else yet.
Registered(order) ==
    [db |-> [i \in DOMAIN order |->
                [id |-> order[i], loc |-> order[i], val |-> Zero, ptr |-> Null]],
     orphans |-> <<>>,
     status |-> "up"]

\* s holds the objects of snap with their contents.
Holds(s, snap) ==
    /\ s.status = "up"
    /\ \A a \in DOMAIN snap :
          /\ Lookup(s, a) # 0
          /\ LET r == s.db[Lookup(s, a)]
             IN  /\ r.val = snap[a].val
                 /\ CASE snap[a].ptr = Null -> r.ptr = Null
                      [] snap[a].ptr \in DOMAIN snap ->
                            Lookup(s, snap[a].ptr) # 0 /\ r.ptr = LocOf(s, snap[a].ptr)
                      [] OTHER -> TRUE
=============================================================================
