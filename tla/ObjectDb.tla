------------------------------ MODULE ObjectDb ------------------------------
(***************************************************************************)
(* The object database of tha_db.c: records in a doubly linked list with a *)
(* count, the lookups that walk it, and tha_clean_application_state, which *)
(* removes records while it walks.  One action is one call of              *)
(* ha_reg_object or of tha_remove_object_db_rec, or one turn of a loop.    *)
(*                                                                         *)
(* The contents of objects are modelled in Replication; here an object is  *)
(* either zero or not.                                                     *)
(***************************************************************************)
EXTENDS Naturals, Sequences

CONSTANTS
    Rec,        \* addresses that calloc can return for a record
    Dynamic,    \* Dynamic[r]: the record at r is of a heap object (DYN_OBJ)
    Null        \* the NULL pointer

ASSUME NullAssumption == Null \notin Rec
ASSUME DynamicAssumption == Dynamic \in [Rec -> BOOLEAN]

VARIABLES
    head,   \* object_db->head
    count,  \* object_db->count
    next,   \* next and prev fields of the records
    prev,
    live,   \* records that are allocated and not freed
    zeroed, \* records whose object holds zeros only
    pc,     \* "idle", "lookup" or the loop that a clean is in
    cur,    \* the record that the loop looks at
    left,   \* lookup: turns of its loop that are left
    order   \* history: the registered records, newest first

vars == <<head, count, next, prev, live, zeroed, pc, cur, left, order>>
links == <<head, count, next, prev, live, order>>

Init == /\ head = Null
        /\ count = 0
        /\ next = [r \in Rec |-> Null]
        /\ prev = [r \in Rec |-> Null]
        /\ live = {}
        /\ zeroed = {}
        /\ pc = "idle"
        /\ cur = Null
        /\ left = 0
        /\ order = <<>>

\* Mutant: the first record is not counted.
HaRegObjectUncounted(r) ==
    /\ pc = "idle"
    /\ r \in Rec \ live
    /\ live' = live \cup {r}
    /\ zeroed' = zeroed \cup {r}
    /\ head' = r
    /\ count' = IF head = Null THEN count ELSE count + 1
    /\ order' = <<r>> \o order
    /\ next' = [next EXCEPT ![r] = head]
    /\ prev' = [a \in Rec |-> IF a = r THEN Null ELSE IF a = head THEN r ELSE prev[a]]
    /\ UNCHANGED <<pc, cur, left>>

\* calloc of a record and ha_reg_object; the object is zeroed memory.
HaRegObject(r) ==
    /\ pc = "idle"
    /\ r \in Rec \ live
    /\ live' = live \cup {r}
    /\ zeroed' = zeroed \cup {r}
    /\ head' = r
    /\ count' = count + 1
    /\ order' = <<r>> \o order
    /\ IF head = Null
       THEN /\ next' = [next EXCEPT ![r] = Null]
            /\ prev' = [prev EXCEPT ![r] = Null]
       ELSE /\ next' = [next EXCEPT ![r] = head]
            /\ prev' = [prev EXCEPT ![r] = Null, ![head] = r]
    /\ UNCHANGED <<pc, cur, left>>

\* The application writes to an object.
Write(r) ==
    /\ pc = "idle"
    /\ r \in live
    /\ zeroed' = zeroed \ {r}
    /\ UNCHANGED <<links, pc, cur, left>>

(***************************************************************************)
(* tha_remove_object_db_rec, case by case.                                 *)
(***************************************************************************)

Pos(r) == CHOOSE i \in 1..Len(order) : order[i] = r
Without(s, i) == SubSeq(s, 1, i - 1) \o SubSeq(s, i + 1, Len(s))

Unlinked(r) == /\ count' = count - 1
               /\ live' = live \ {r}
               /\ order' = Without(order, Pos(r))

RemoveOnly(r) ==
    /\ r = head /\ count = 1
    /\ head' = Null
    /\ Unlinked(r)
    /\ UNCHANGED <<next, prev>>

\* Mutant: the new head keeps its pointer to the record that is freed.
RemoveFirstKeepsPrev(r) ==
    /\ r = head /\ count # 1
    /\ head' = next[r]
    /\ Unlinked(r)
    /\ UNCHANGED <<next, prev>>

RemoveFirst(r) ==
    /\ r = head /\ count # 1
    /\ head' = next[r]
    /\ prev' = [prev EXCEPT ![next[r]] = Null]
    /\ Unlinked(r)
    /\ UNCHANGED next

RemoveLast(r) ==
    /\ r # head /\ next[r] = Null
    /\ next' = [next EXCEPT ![prev[r]] = Null]
    /\ Unlinked(r)
    /\ UNCHANGED <<head, prev>>

\* Mutant: only the forward link is repaired.
RemoveMiddleForward(r) ==
    /\ r # head /\ next[r] # Null /\ prev[r] # Null
    /\ next' = [next EXCEPT ![prev[r]] = next[r]]
    /\ Unlinked(r)
    /\ UNCHANGED <<head, prev>>

RemoveMiddle(r) ==
    /\ r # head /\ next[r] # Null /\ prev[r] # Null
    /\ next' = [next EXCEPT ![prev[r]] = next[r]]
    /\ prev' = [prev EXCEPT ![next[r]] = prev[r]]
    /\ Unlinked(r)
    /\ UNCHANGED head

Remove(r) == \/ RemoveOnly(r)
             \/ RemoveFirst(r)
             \/ RemoveLast(r)
             \/ RemoveMiddle(r)

\* ha_free of a heap object, and tha_delete_object on the standby.
HaFree(r) ==
    /\ pc = "idle"
    /\ r \in live /\ Dynamic[r]
    /\ Remove(r)
    /\ UNCHANGED <<zeroed, pc, cur, left>>

(***************************************************************************)
(* The lookups: count turns of a loop that follows next.                   *)
(***************************************************************************)

LookupStart ==
    /\ pc = "idle" /\ head # Null
    /\ pc' = "lookup"
    /\ cur' = head
    /\ left' = count
    /\ UNCHANGED <<links, zeroed>>

\* The record is not the one looked for.
LookupNext ==
    /\ pc = "lookup" /\ left > 0
    /\ cur' = next[cur]
    /\ left' = left - 1
    /\ UNCHANGED <<links, zeroed, pc>>

\* It is, or there is none.
LookupReturn ==
    /\ pc = "lookup"
    /\ pc' = "idle"
    /\ cur' = Null
    /\ left' = 0
    /\ UNCHANGED <<links, zeroed>>

(***************************************************************************)
(* tha_clean_application_state.                                            *)
(***************************************************************************)

CleanStart ==
    /\ pc = "idle"
    /\ pc' = "first"
    /\ cur' = head
    /\ UNCHANGED <<links, zeroed, left>>

\* Lines 711-717: heap objects at the head of the list.
CleanFirst ==
    /\ pc = "first"
    /\ cur # Null /\ Dynamic[cur]
    /\ Remove(cur)
    /\ cur' = head'
    /\ UNCHANGED <<zeroed, pc, left>>

CleanFirstDone ==
    /\ pc = "first"
    /\ cur # Null => ~Dynamic[cur]
    /\ pc' = "loop"
    /\ UNCHANGED <<links, zeroed, cur, left>>

\* Mutant: the loop does not step over a static object.
CleanKeepStays ==
    /\ pc = "loop"
    /\ cur # Null /\ ~Dynamic[cur]
    /\ cur' = cur
    /\ UNCHANGED <<links, zeroed, pc, left>>

\* Lines 719-729: the others.
CleanKeep ==
    /\ pc = "loop"
    /\ cur # Null /\ ~Dynamic[cur]
    /\ cur' = next[cur]
    /\ UNCHANGED <<links, zeroed, pc, left>>

\* Mutant: the loop goes on from the record that was freed.
CleanRemoveStale ==
    /\ pc = "loop"
    /\ cur # Null /\ Dynamic[cur]
    /\ Remove(cur)
    /\ cur' = cur
    /\ UNCHANGED <<zeroed, pc, left>>

CleanRemove ==
    /\ pc = "loop"
    /\ cur # Null /\ Dynamic[cur]
    /\ Remove(cur)
    /\ cur' = next'[prev[cur]]
    /\ UNCHANGED <<zeroed, pc, left>>

CleanLoopDone ==
    /\ pc = "loop"
    /\ cur = Null
    /\ pc' = "reset"
    /\ cur' = head
    /\ UNCHANGED <<links, zeroed, left>>

\* Mutant: the last object of the list is not reset.
CleanResetAllButLast ==
    /\ pc = "reset"
    /\ cur # Null
    /\ cur' = next[cur]
    /\ zeroed' = IF next[cur] = Null THEN zeroed ELSE zeroed \cup {cur}
    /\ UNCHANGED <<links, pc, left>>

\* Lines 731-739: the static objects are reset.
CleanReset ==
    /\ pc = "reset"
    /\ cur # Null
    /\ cur' = next[cur]
    /\ zeroed' = zeroed \cup {cur}
    /\ UNCHANGED <<links, pc, left>>

CleanReturn ==
    /\ pc = "reset"
    /\ cur = Null
    /\ pc' = "idle"
    /\ UNCHANGED <<links, zeroed, cur, left>>

LookupStep == LookupNext \/ LookupReturn
CleanStep == \/ CleanFirst \/ CleanFirstDone
             \/ CleanKeep \/ CleanRemove \/ CleanLoopDone
             \/ CleanReset \/ CleanReturn

Next == \/ \E r \in Rec : HaRegObject(r) \/ Write(r) \/ HaFree(r)
        \/ LookupStart \/ LookupStep
        \/ CleanStart \/ CleanStep

Spec == Init /\ [][Next]_vars

\* A clean is a plain function call: it runs until it returns.
FairSpec == Spec /\ WF_vars(CleanStep)

(***************************************************************************)
(* Properties.                                                             *)
(***************************************************************************)

\* Every variable stays in its set.
TypeOK ==
    /\ head \in Rec \cup {Null}
    /\ count \in Nat
    /\ next \in [Rec -> Rec \cup {Null}]
    /\ prev \in [Rec -> Rec \cup {Null}]
    /\ live \in SUBSET Rec
    /\ zeroed \in SUBSET Rec
    /\ pc \in {"idle", "lookup", "first", "loop", "reset"}
    /\ cur \in Rec \cup {Null}
    /\ left \in Nat
    /\ order \in Seq(Rec)

At(i) == IF i \in 1..Len(order) THEN order[i] ELSE Null

\* The list is well formed: head, next and prev link the registered records in
\* their order, both ways, and count is their number, so no lookup misses a
\* record that was not freed and none follows a pointer of a freed one.
Linked ==
    /\ head = At(1)
    /\ count = Len(order)
    /\ live = {order[i] : i \in 1..Len(order)}
    /\ \A i, j \in 1..Len(order) : i # j => order[i] # order[j]
    /\ \A i \in 1..Len(order) : next[order[i]] = At(i + 1) /\ prev[order[i]] = At(i - 1)

\* No loop ever stands on a record that was freed, although the clean frees
\* records as it goes; a lookup only runs off the list with its last turn.
NoStaleCursor ==
    /\ cur # Null => cur \in live
    /\ pc = "lookup" /\ left > 0 => cur # Null

\* What a clean leaves behind: no heap object, and every object reset.
CleanLeaves ==
    pc = "reset" /\ cur = Null =>
        \A i \in 1..Len(order) : ~Dynamic[order[i]] /\ order[i] \in zeroed

\* A clean ends.
CleanEnds == (pc \in {"first", "loop", "reset"}) ~> (pc = "idle")

\* What a walk along next finds.
Walk == LET node[i \in 1..count] ==
                IF i = 1 THEN head
                ELSE IF node[i - 1] = Null THEN Null
                ELSE next[node[i - 1]]
        IN  node

\* What a walk of count records finds is the directory: every call and every
\* turn of a clean changes it as it should.
Dir == INSTANCE Directory WITH
           list <- Walk, cleaning <- pc \in {"first", "loop", "reset"}
ImplementsDirectory == Dir!DirSpec

(***************************************************************************)
(* The inductive invariant: Linked, and where the cursor of each loop is.  *)
(***************************************************************************)

StaticAt(j) == ~Dynamic[order[j]]

Cursor ==
    /\ pc = "lookup" => /\ left <= Len(order)
                        /\ cur = At(Len(order) - left + 1)
    /\ pc = "first" => cur = At(1)
    /\ pc = "loop" =>
          /\ order # <<>> => StaticAt(1)
          /\ \E i \in 1..(Len(order) + 1) :
                 cur = At(i) /\ \A j \in 1..(i - 1) : StaticAt(j)
    /\ pc = "reset" =>
          /\ \A j \in 1..Len(order) : StaticAt(j)
          /\ \E i \in 1..(Len(order) + 1) :
                 cur = At(i) /\ \A j \in 1..(i - 1) : order[j] \in zeroed
    /\ pc = "idle" => cur = Null

IInv == TypeOK /\ Linked /\ Cursor
=============================================================================
