------------------------------ MODULE BulkSync ------------------------------
(***************************************************************************)
(* tha_bulk_sync and add_to_dependency_graph (tha_sync.c) at the grain of  *)
(* one pointer field per step, over a heap that the application builds     *)
(* through tha_add_object, plain writes and ha_free (tha_db.c).            *)
(*                                                                         *)
(* The object database is the list db (head first); an object is named by  *)
(* its address.  The C call stack of the recursive add_to_dependency_graph *)
(* is the variable stack, one frame [obj, slot] per activation, slot being *)
(* the pair of loop counters (obj_index, i) of tha_sync.c:960-961.         *)
(*                                                                         *)
(* The application is single threaded: it does not run while the scan      *)
(* does.  Only the dirty bits and the objects sent are modelled here, the  *)
(* contents of the messages and the standby are in Replication.            *)
(***************************************************************************)
EXTENDS HeapGraph, Naturals, Sequences

CONSTANTS
    Obj,        \* addresses at which an object can be registered
    Static,     \* of these, the addresses of global objects (STATIC_OBJ)
    NSlots,     \* fields per object
    Dtype,      \* Dtype[o][i]: data type of the i-th field of the object at o
    Null,       \* the NULL pointer
    NotTha,     \* a pointer that reads as NOT_THA_ENABLED_POINTER (-1) when it
                \* is cast to an int, which no object's address does
    Foreign,    \* any other pointer to memory the library does not know
    Stores,     \* bound: Stores[o] are the values that the application stores in
                \* the object at o
    MarkAlone   \* the application calls mark_changed_objects on its own, as
                \* choice 21 of the demonstration application does

Slots == 1..NSlots
PtrDtypes == {"OBJ_PTR", "VOID_PTR"}
\* "OBJ_STRUCT" stands for a pointer inside an embedded structure and "DATA"
\* for every type that holds no pointer.
Dtypes == PtrDtypes \cup {"OBJ_STRUCT", "DATA"}
Values == Obj \cup {Null, NotTha, Foreign}
\* Values that the scan passes over before it looks for a record.
Nowhere == {Null, NotTha}

ASSUME StaticAssumption == Static \subseteq Obj
ASSUME NSlotsAssumption == NSlots \in Nat
ASSUME DtypeAssumption == Dtype \in [Obj -> [Slots -> Dtypes]]
ASSUME NullAssumption == Obj \cap {Null, NotTha, Foreign} = {} /\ Foreign \notin Nowhere
ASSUME StoresAssumption == Stores \in [Obj -> SUBSET Values]
ASSUME MarkAloneAssumption == MarkAlone \in BOOLEAN

VARIABLES
    db,      \* object_db: registered objects, head of the list first
    ptr,     \* ptr[o][i]: value of the i-th field of the object at o
    dirty,   \* objects whose record has dirty_bit set
    pre,     \* history: dirty when the last bulk sync started
    phase,   \* "app", "scan" (inside tha_bulk_sync) or "crashed"
    cur,     \* position in db of the record tha_bulk_sync looks at next
    stack,   \* activations of add_to_dependency_graph, outermost first
    sent     \* objects of the BULK_SYNC messages of this bulk sync

vars == <<db, ptr, dirty, pre, phase, cur, stack, sent>>
scanVars == <<pre, phase, cur, stack, sent>>

RangeOf(s) == {s[i] : i \in 1..Len(s)}
Live == RangeOf(db)
OnStack == {stack[k].obj : k \in 1..Len(stack)}
Sent == RangeOf(sent)

\* The graph a bulk sync walks, from its roots along what each object points to.
\* An object that was marked before the scan is not part of it: whoever meets its
\* dirty_bit takes it for one that was visited.
Visible == Live \ pre
Targets(o) == {ptr[o][i] : i \in {j \in Slots : Dtype[o][j] \in PtrDtypes}} \cap Visible
Succ == [o \in Obj |-> IF o \in Live THEN Targets(o) ELSE {}]
Roots == Static \cap Visible

Frame == [obj : Obj, slot : 1..(NSlots + 1)]

Init == /\ db = <<>>
        /\ ptr = [o \in Obj |-> [i \in Slots |-> Null]]
        /\ dirty = {}
        /\ pre = {}
        /\ phase = "app"
        /\ cur = 1
        /\ stack = <<>>
        /\ sent = <<>>

(***************************************************************************)
(* The application.                                                        *)
(***************************************************************************)

\* ha_calloc of a fresh object, or THA_ADD_GLOBAL_OBJECT of a global one: the
\* object is zeroed and a record with dirty_bit 0 becomes the head of the list.
AddObject(o) ==
    /\ phase = "app"
    /\ o \notin Live
    /\ db' = <<o>> \o db
    /\ ptr' = [ptr EXCEPT ![o] = [i \in Slots |-> Null]]
    /\ UNCHANGED <<dirty, scanVars>>

\* The application stores v in a field of a registered object.
AppWrite(o, i, v) ==
    /\ phase = "app"
    /\ o \in Live
    /\ Dtype[o][i] # "DATA"
    /\ v \in Stores[o]
    /\ ptr' = [ptr EXCEPT ![o][i] = v]
    /\ UNCHANGED <<db, dirty, scanVars>>

\* ha_free of the object whose record is at position n: pointers to it stay.
HaFree(n) ==
    /\ phase = "app"
    /\ n \in 1..Len(db)
    /\ db[n] \notin Static
    /\ db' = SubSeq(db, 1, n - 1) \o SubSeq(db, n + 1, Len(db))
    /\ dirty' = dirty \ {db[n]}
    /\ UNCHANGED <<ptr, scanVars>>

\* mark_changed_objects alone: S are the unmarked objects whose hash no longer
\* agrees.
MarkChangedObjects(S) ==
    /\ phase = "app"
    /\ MarkAlone
    /\ dirty' = dirty \cup S
    /\ UNCHANGED <<db, ptr, scanVars>>

\* tha_sync_object_db (ha_sync) with some object changed: marks it, sends the
\* marked objects and cleans every dirty bit.  With no object changed it
\* returns before it cleans, which leaves this state as it is.
HaSync ==
    /\ phase = "app"
    /\ dirty # {}
    /\ dirty' = {}
    /\ UNCHANGED <<db, ptr, scanVars>>

(***************************************************************************)
(* tha_bulk_sync.                                                          *)
(***************************************************************************)

\* Mutant: the position in the list starts one record too early.
BulkStartEarly ==
    /\ phase = "app"
    /\ phase' = "scan"
    /\ pre' = dirty
    /\ cur' = 0
    /\ stack' = <<>>
    /\ sent' = <<>>
    /\ UNCHANGED <<db, ptr, dirty>>

BulkStart ==
    /\ phase = "app"
    /\ phase' = "scan"
    /\ pre' = dirty
    /\ cur' = 1
    /\ stack' = <<>>
    /\ sent' = <<>>
    /\ UNCHANGED <<db, ptr, dirty>>

Scanning == phase = "scan" /\ stack = <<>> /\ cur <= Len(db)

\* Mutant: the list is advanced twice past a record that is skipped.
ScanSkipTwice ==
    /\ Scanning
    /\ db[cur] \in dirty \/ db[cur] \notin Static
    /\ cur' = cur + 2
    /\ UNCHANGED <<db, ptr, dirty, pre, phase, stack, sent>>

\* tha_sync.c:1035-1046: already marked, or not a static object.
ScanSkip ==
    /\ Scanning
    /\ db[cur] \in dirty \/ db[cur] \notin Static
    /\ cur' = cur + 1
    /\ UNCHANGED <<db, ptr, dirty, pre, phase, stack, sent>>

\* add_to_dependency_graph of a root.
ScanEnter ==
    /\ Scanning
    /\ db[cur] \notin dirty /\ db[cur] \in Static
    /\ cur' = cur + 1
    /\ dirty' = dirty \cup {db[cur]}
    /\ stack' = <<[obj |-> db[cur], slot |-> 1]>>
    /\ UNCHANGED <<db, ptr, pre, phase, sent>>

Top == stack[Len(stack)]
Field == ptr[Top.obj][Top.slot]
FieldDtype == Dtype[Top.obj][Top.slot]
InField == phase = "scan" /\ stack # <<>> /\ Top.slot <= NSlots
\* Mutant: the loop counter is not advanced.
AdvancedNever == stack

Advanced == [stack EXCEPT ![Len(stack)].slot = @ + 1]

\* The field leads nowhere: no pointer, NULL or NOT_THA_ENABLED_POINTER, a
\* VOID_PTR to unknown memory or an object that is marked already.
SlotPass ==
    /\ InField
    /\ \/ FieldDtype \notin PtrDtypes
       \/ Field \in Nowhere
       \/ FieldDtype = "VOID_PTR" /\ Field \notin Live
       \/ Field \in Live /\ Field \in dirty
    /\ stack' = Advanced
    /\ UNCHANGED <<db, ptr, dirty, pre, phase, cur, sent>>

\* Mutant: dirty_bit is not set on entry.
SlotDescendUnmarked ==
    /\ InField
    /\ FieldDtype \in PtrDtypes
    /\ Field \in Live \ dirty
    /\ stack' = Append(Advanced, [obj |-> Field, slot |-> 1])
    /\ UNCHANGED <<db, ptr, dirty, pre, phase, cur, sent>>

\* The field points to an unmarked object: recursion.
SlotDescend ==
    /\ InField
    /\ FieldDtype \in PtrDtypes
    /\ Field \in Live \ dirty
    /\ dirty' = dirty \cup {Field}
    /\ stack' = Append(Advanced, [obj |-> Field, slot |-> 1])
    /\ UNCHANGED <<db, ptr, pre, phase, cur, sent>>

\* Mutant: NULL is not tested before the lookup.
SlotCrashNull ==
    /\ InField
    /\ FieldDtype = "OBJ_PTR"
    /\ Field # NotTha /\ Field \notin Live
    /\ phase' = "crashed"
    /\ UNCHANGED <<db, ptr, dirty, pre, cur, stack, sent>>

\* An OBJ_PTR to memory without a record: the lookup gives NULL and
\* nested_object->dirty_bit is read through it (tha_sync.c:972-973).
SlotCrash ==
    /\ InField
    /\ FieldDtype = "OBJ_PTR"
    /\ Field \notin Live \cup Nowhere
    /\ phase' = "crashed"
    /\ UNCHANGED <<db, ptr, dirty, pre, cur, stack, sent>>

\* Mutant: the parent's message overtakes those of its children.
SlotReturnParentFirst ==
    /\ phase = "scan" /\ stack # <<>> /\ Top.slot > NSlots
    /\ sent' = <<Top.obj>> \o sent
    /\ stack' = SubSeq(stack, 1, Len(stack) - 1)
    /\ UNCHANGED <<db, ptr, dirty, pre, phase, cur>>

\* Mutant: the loop over the fields ends one field too early.
SlotReturnEarly ==
    /\ phase = "scan" /\ stack # <<>> /\ Top.slot >= NSlots
    /\ sent' = Append(sent, Top.obj)
    /\ stack' = SubSeq(stack, 1, Len(stack) - 1)
    /\ UNCHANGED <<db, ptr, dirty, pre, phase, cur>>

\* All fields seen: tha_sync_object(BULK_SYNC, ...) and return.
SlotReturn ==
    /\ phase = "scan" /\ stack # <<>> /\ Top.slot > NSlots
    /\ sent' = Append(sent, Top.obj)
    /\ stack' = SubSeq(stack, 1, Len(stack) - 1)
    /\ UNCHANGED <<db, ptr, dirty, pre, phase, cur>>

ScanDone == phase = "scan" /\ stack = <<>> /\ cur > Len(db)

\* The leak count, clean_dirty_bit, the two commit messages and return.
Finish ==
    /\ ScanDone
    /\ dirty' = {}
    /\ phase' = "app"
    /\ cur' = 1
    /\ sent' = <<>>
    /\ UNCHANGED <<db, ptr, pre, stack>>

AppStep ==
    \/ \E o \in Obj : AddObject(o)
    \/ \E o \in Obj, i \in Slots, v \in Values : AppWrite(o, i, v)
    \/ \E n \in 1..Len(db) : HaFree(n)
    \/ \E S \in SUBSET (Live \ dirty) : MarkChangedObjects(S)
    \/ HaSync

ScanStep == ScanSkip \/ ScanEnter \/ SlotPass \/ SlotDescend \/ SlotCrash
                \/ SlotReturn \/ Finish

Next == AppStep \/ BulkStart \/ ScanStep

Spec == Init /\ [][Next]_vars

\* tha_bulk_sync is a plain function call: once entered it keeps running.
FairSpec == Spec /\ WF_vars(ScanStep)

(***************************************************************************)
(* Properties.                                                             *)
(***************************************************************************)

\* Every variable stays in its set; in particular the recursion never looks
\* past the last field and db lists registered addresses only.
TypeOK ==
    /\ db \in Seq(Obj)
    /\ ptr \in [Obj -> [Slots -> Values]]
    /\ dirty \in SUBSET Obj
    /\ pre \in SUBSET Obj
    /\ phase \in {"app", "scan", "crashed"}
    /\ cur \in Nat \ {0}
    /\ stack \in Seq(Frame)
    /\ sent \in Seq(Obj)

\* A bulk sync sends no object twice: shared substructures and cycles do not
\* duplicate messages (the dirty_bit tests of tha_sync.c:973 and 987).
SentOnce == \A i, j \in 1..Len(sent) : i # j => sent[i] # sent[j]

\* "leaf objects first then their parents till root" (tha_sync.c:949): when an
\* object was sent, each visible object it points to had been sent, or leads back
\* to it, so no order could satisfy both.
BottomUp ==
    phase = "scan" =>
        \A i \in 1..Len(sent) : \A t \in Targets(sent[i]) :
            \/ \E j \in 1..i : sent[j] = t
            \/ Reaches(t, sent[i], Succ)

\* When the scan ends, exactly the objects that a static object leads to without
\* passing through one marked before have been sent, whatever the shape of the
\* heap; the others are what the leak report dumps or what the marks hide.
Complete == ScanDone => Sent = ReachableFrom(Roots, Succ)

\* The process only dies in a scan because an object the scan had to visit has
\* an OBJ_PTR to memory that is not registered; a heap without such a pointer
\* is always scanned to the end.
CrashHasCause ==
    phase = "crashed" =>
        \E o \in ReachableFrom(Roots, Succ), i \in Slots :
            Dtype[o][i] = "OBJ_PTR" /\ ptr[o][i] \notin Live \cup Nowhere

\* The recursion terminates on every heap: a bulk sync ends with the commit,
\* or with the crash above.
ScanEnds == (phase = "scan") ~> (phase # "scan")

\* tha_bulk_sync implements HeapSync on the graph that the marks leave visible.
HS == INSTANCE HeapSync WITH
        roots <- Roots, succ <- Succ, synced <- Sent, mode <- phase
ImplementsHeapSync == HS!HSSpec

(***************************************************************************)
(* The inductive invariant behind the properties above.  In a crashed      *)
(* process the scan has stopped in the middle, so these hold there too.    *)
(***************************************************************************)

\* A static object that the outer loop has passed is marked.
RootsSeen == \A i \in 1..Len(db) : i < cur /\ db[i] \in Static => db[i] \in dirty

\* A sent object, and every field that an activation has passed, points to
\* marked objects only.
TargetsSeen ==
    /\ \A o \in Sent : Targets(o) \subseteq dirty
    /\ \A k \in 1..Len(stack) : \A i \in Slots :
          /\ i < stack[k].slot
          /\ Dtype[stack[k].obj][i] \in PtrDtypes
          /\ ptr[stack[k].obj][i] \in Live
          => ptr[stack[k].obj][i] \in dirty

\* The scan only visits what a static object leads to.
Justified == Sent \cup OnStack \subseteq ReachableFrom(Roots, Succ)

\* An activation was started through a chain of pointers from those below it.
Chain == \A j, k \in 1..Len(stack) :
            j <= k => Reaches(stack[j].obj, stack[k].obj, Succ)

StackOnce == \A j, k \in 1..Len(stack) : j # k => stack[j].obj # stack[k].obj

\* During a scan dirty_bit means: marked before the scan, already sent, or
\* being visited; an object is only one of the three.  Marking on entry is what
\* ends the recursion on a cycle.
Marking == /\ dirty = pre \cup Sent \cup OnStack
           /\ pre \cap (Sent \cup OnStack) = {}
           /\ Sent \cap OnStack = {}

ScanInv == Marking /\ StackOnce /\ RootsSeen /\ TargetsSeen /\ Justified /\ Chain

\* dirty_bit is set in existing records only.
IInv == /\ TypeOK
        /\ dirty \subseteq Live
        /\ SentOnce
        /\ phase = "app" => stack = <<>>
        /\ phase # "app" => ScanInv
        /\ BottomUp
        /\ CrashHasCause
=============================================================================
