# Transparent High Availability: specifications and proofs

TransparentHighAvailability is a C library that keeps the heap of one process
(the *active*) mirrored in another (the *standby*). The application registers
its structures and its objects; the library can then walk the heap, find what
has changed, serialise it field by field, send it over UDP and rebuild it on
the standby, where every object lives at another address. This directory holds
TLA+ specifications of that library, TLC configurations that check them on
small instances, and proofs checked by TLAPS.

Paths below are relative to the repository root; `tha_db.c`, `tha_sync.c`,
`tha_sock.c` and `serialize.c` are in `THA/ACTIVE/`, the containers in
`THA/ACTIVE/DS/`. `PROJECT.json` maps every definition to the lines it models.

Contents: [1 Inventory](#1-inventory) · [2 Modules and the code](#2-modules-and-the-code) ·
[3 Runs, bounds, fairness](#3-runs-bounds-and-fairness) · [4 Proofs](#4-proofs) ·
[5 What the checks found](#5-what-the-checks-found) ·
[6 What is not modelled](#6-what-is-not-modelled) · [7 Plan](#7-plan)

## 1 Inventory

| Component | State it keeps | Operations | Talks to |
|---|---|---|---|
| Object database (`tha_db.c`) | doubly linked list of records (`ptr`, `obj_id`, type, `units`, hashes, `dirty_bit`) and its count | `ha_calloc`, `THA_ADD_GLOBAL_OBJECT`, `ha_free`, lookups by address, id and name, `tha_clean_application_state` | sync: each add and remove on the active sends a message |
| Structure database (`tha_db.c`) | structures and their fields (type, offset, size) | registration at start-up, lookup | read by every walk over fields |
| Bulk sync (`tha_sync.c`) | `dirty_bit` of the records, the C stack of a recursion | `tha_bulk_sync`, `add_to_dependency_graph`, `mark_changed_objects`, `clean_dirty_bit` | object database, wire format, socket |
| Incremental sync (`tha_sync.c`) | per-field hashes, orphan pointer list, list of hashes to recompute | `ha_sync`, the CREATE/DELETE messages, on the standby `de_serialize_buffer` and its handlers, `tha_process_commit_orphan_pointers_list` | object database, socket |
| Wire format (`tha_sync.c`, `serialize.c`) | a buffer that doubles, its write position | `serialize_object`, `serialize_object_all_fields`, `serialize_internal_object` and their inverses | both syncs |
| Socket (`tha_sock.c`) | one UDP socket, a receiving thread on the standby | `send_sock_msg`, `recv_sock_msg`, the standby's console loop | the message handlers |
| Checkpoints (`tha_sync.c`, `tha_sock.c`) | `enable_checkpoint`, a file of messages | enable and disable, save (a bulk sync into the file), `load_checkpoint` | the handlers of the standby, run on the active; the socket |
| Start-up and console (`tha_db.c`, `tha_sock.c`, both `app_main.c`) | the lists that `init_tha` makes, the listening thread | registration of structures and global objects, `wait_for_interrupt` | object database, from two threads |
| Queue, stack, lists, trees (`DS/`) | the containers that applications put under replication | see section 2 | `ha_calloc`/`ha_free` in their HA variants |
| Thread wrappers and pool (`threadApi.c`) | threads, a pool with a mutex | add to, remove from and scan the pool, `wait_t`, `signal_t` | the listening thread |
| Demonstration application (`THA/DemoApp`) | a menu over the calls above | | all of them |

How they interact: the active runs a single thread. A library call is a plain
function call inside the application, so application and sync never interleave
on the active; what interleaves is the *standby*, which takes the messages one
by one, later, over a socket that gives no guarantees. On the standby the
listening thread starts before `init_tha` returns, so it also runs beside the
registration of the global objects. CREATE and DELETE leave
at once from `ha_calloc` and `ha_free`; field contents leave only with the next
`ha_sync` or bulk sync; so the standby sees the three kinds of changes in
another order than the application made them.

What is hard, and what makes each part correct:

* **Bulk sync.** A recursion over a graph with sharing, cycles, dangling and
  foreign pointers, where one bit means both "changed" and "visited". Correct
  when it ends, sends each object that a static object leads to once, children
  first as far as a cycle allows, and cleans its marks.
* **Incremental sync.** A stored hash claims to know what the standby holds.
  Correct when, once the messages under way have arrived, that is so, and both
  databases list the same objects; and when a standby that has been lost,
  cleaned or damaged is made whole by a bulk sync.
* **Orphan pointers.** A pointer to an object the standby has not seen is left
  NULL and remembered; it must be set, once, to the right object, and never
  after it has become out of date.
* **Object database.** Records are unlinked by four separate cases, also from
  inside the loop that walks them.
* **Wire format.** No field carries a tag or length; writer and reader must
  agree word by word, through NULL pointers, skipped slots, a count filled in
  afterwards and a growing buffer.
* **Checkpoints.** The active plays the standby for the messages of a file and
  passes each on; objects come back at other addresses under their old names,
  perhaps in a process that was started anew beside a standby that was not.
  Correct when both machines hold what was saved and go on as mirror images.
* **Start-up.** Two threads link records into one list, and look things up in
  it, without a lock. Correct at best when they do not overlap.
* **Thread pool.** One function leaves its mutex locked, one reads without it,
  and signals are sent without the mutex of the waiting thread.
* **Containers.** Index arithmetic at the wrap, the last slot and the limit;
  traversals that keep flags in the nodes between calls.

`PROJECT.json` lists these hazards one by one with their lines and the
properties that cover them.

## 2 Modules and the code

```
HeapGraph ──┬── HeapSync (abstract)  <== implements ==  BulkSync ── BulkSync_proofs
            ├── Replication          (both send in the orders HeapSync allows)
            └── Checkpoint
Receiver ───┬── Replication ── Replication_proofs ┐
   │        └── Checkpoint ─── Checkpoint_proofs ─┤
   └─────────── Receiver_proofs (lemmas) ─────────┘
Directory    (abstract)  <== implements ==  ObjectDb ── ObjectDb_proofs
StandbyBoot ── StandbyBoot_proofs   (the list of ObjectDb, by two threads)
BoundedQueue (abstract)  <== implements ==  Queue ──┐
ThreadPool ─────────────────────────────────────────┼── Library_proofs
Stack ── Tree ──────────────────────────────────────┘
Wire ── Wire_proofs
```

`MC*` modules give the constants their values for TLC. Operators whose comment
starts with "Mutant:" are wrong versions of the definition that follows them.
No action uses them; they are there to show that the properties can fail.

**HeapGraph** defines reachability by closed sets (an object is reachable when
no closed superset of the roots leaves it out), so that neither TLC nor the
provers need paths or induction.

**HeapSync** is what `tha_sync.c:946-951` and `1014` say of a bulk sync:
between begin and commit each reachable object is sent once, nothing else is,
and an object follows those it points to unless they lead back to it.

**BulkSync** is `tha_bulk_sync` and `add_to_dependency_graph` at the grain of
one field per step, with the C call stack as the variable `stack` (one frame
per activation, with the loop counters `obj_index` and `i` in `slot`), the
`dirty_bit`s as the set `dirty`, the object list as the sequence `db`. The
application allocates, frees, stores any pointer including a dangling and a
foreign one and one that reads as `NOT_THA_ENABLED_POINTER` (the scan passes it
over, lines 969 and 981), calls `ha_sync`, and, if `MarkAlone`, calls `mark_changed_objects`
by itself as choice 21 of the demonstration application does. The scan takes an
object marked in that way for one it has visited, so the graph that it walks is
stated over the `Visible` objects, those without a mark when it starts. An `OBJ_PTR` to
memory without a record ends the process, as the code does (lines 972-973).

**Replication** is the whole protocol: the active's database, memory and
stored hashes; the socket `chan`; and the standby `sb`, a record of its
database, its orphan list and whether it has survived. `ha_calloc` may return
what `ha_free` freed, and other objects keep their pointers to it; the history
`stale` holds the objects whose pointer field has a hash that was computed for
memory freed before or since, of which the hash says nothing any more.

**Receiver** holds what both ends of a message have in common: each handler of
`de_serialize_buffer` is an operator on the states of the machine that takes
the message (`Create`, `Update`, `BulkUpdate`, `Delete`, `Clean`,
`CommitOrphans`, together `DeliverAt`), so the invariants can ask what the
standby *will* be when it has taken what is under way (`Drained`), and
Checkpoint can let the active take the messages of a file. Locations on the
receiving machine are not addresses of the sender; freeing makes pointers
dangle. `After` and `Only` are recursive functions, not recursive operators, so
that the proofs can look into them. `CommitOrphans` models line 73 (reading through NULL in the error
message) and line 77 (a store through the remembered address).

**Checkpoint** is the active with `enable_checkpoint` and a file beside it:
`Save` is a bulk sync into the file, `BeginLoad` cleans the standby and then
this machine, `LoadMessage` takes one message of the file, announces an object
that it creates, and forwards the message. `ha_calloc`, `ha_free`, stores and
`ha_sync` run beside them; what `ha_calloc` sends goes to the file, which is closed
then (`tha_sock.c:49`), the DELETE of `ha_free` straight to the standby
(`tha_sync.c:921`). Objects have an identity and an
address here, which differ after a load. `Restart` is a new process on the
active; the file and the standby outlive it.

**StandbyBoot** is the start of a standby: the main thread makes the lists,
registers the structures and the global objects, while the listening thread
creates and updates objects. Each read and write of `head`, `next`, `prev` and
`count` is a step of its own, the two of `count++` included.

**ThreadPool** is `threadApi.c`: what runs under `pool_mutex` is one step, the
reads of `get_blocked_thread_from_pool`, which takes no lock, are one each, and
`signal_t` and its assignments behind the signal are two.

**Wire** writes and reads one message in words of four bytes: `Put`, `Skip`
and `Patch` are the calls of `serialize.c`, `PutField` and `PutWords` the
serialisers, `ReadUnit` and `ReadField` the readers with the checks that would
stop them. Space that is skipped holds zeros in the first `InitWords` words
and anything that `realloc` may leave behind them.

**ObjectDb** is the linked list with `next`, `prev`, `head` and `count`, one
action per branch of `tha_remove_object_db_rec` and per turn of each of the
three loops of `tha_clean_application_state`, and the counted loop of the
lookups. **Directory** is the list as its callers see it.

**Queue** is every operation of `DS/Queue/Queue.c` (a ring whose indices move
*down*), **BoundedQueue** the FIFO queue it should be.

**Tree** is insertion, search, lowest common ancestor, removal of half nodes
and the three iterative traversals of `DS/Trees/tree.c`, one loop turn per
step, on a stack that is an instance of **Stack**, the words of `struct stack`
with the counter that lies behind its array. The recursive versions are
recursive functions that the traversals are compared with.

Abstractions that matter:

* An object is named by its address on the active, which is its `obj_id` on
  the wire (`"Dyn"` and the address, or a global's name).
* Field hashes are taken to be injective (`hash` holds the contents).
* Two fields or one pointer and one number stand for the fields of a structure.
* In Replication and Checkpoint the order of a bulk sync is any that HeapSync allows; BulkSync
  is proved to implement HeapSync.
* The standby's own hashes, which it does not use before it becomes active,
  are left out, and with them the list of hashes to recompute.
* Stack assumes a pointer to be as wide as `int`, for which the library's
  offsets are written; only then is the word behind the array the counter.
* In Tree the nodes that `removeHalfNodes` takes out are not freed (the code
  does not free them either), and its dummy node is not shown.

## 3 Runs, bounds and fairness

A run passes when TLC explores the whole state space without an error. Every
property of a passing run is also checked against a mutated definition
(`mutants` in `PROJECT.json`) that must violate it under the same cfg.

| Run | Question | Bounds |
|---|---|---|
| `bulk` | Does a bulk sync of any heap, whatever is marked, end, send what it should, once, bottom up, and implement HeapSync? `TypeOK`, `BottomUp`, `Complete`, `CrashHasCause`, `ImplementsHeapSync`, `ScanEnds` | one static and two heap objects of two fields, mixed `OBJ_PTR`/`VOID_PTR`/data, `MarkAlone`; `Stores`: not every pointer to no object in every object, but each in an `OBJ_PTR` and in a `VOID_PTR` |
| `replication` | Do the databases agree and do the hashes tell the truth, under any interleaving with deliveries, and does the standby become a mirror? `TypeOK`, `SameDirectory`, `HashedMirror`, `Converges` | two heap objects, two values, two messages under way, four records, addresses reused, pointers to freed memory kept |
| `replication_bulk` | Does a bulk sync mirror the heap and heal a standby that was cleaned, or for which CREATE and DELETE were lost, doubled or reordered? `CommitMirrors`, `StandbySurvives` | one static and one heap object, two values, four messages, three records on the standby |
| `replication_orphan` | *(violation)* the same promise with incremental syncs before the bulk sync: `CommitMirrors` | one static and one heap object, one value, four messages |
| `checkpoint` | Do both machines hold what was saved, at every point of a load and after it, also in a new process? `TypeOK`, `LoadRestores`, `Mirror`, `Survive` | one static object, two heap addresses, two values, two stores, two messages under way |
| `checkpoint_ids` | *(violation)* "mirror images": `Mirror`, when `calloc` returns an address that a loaded object is named after | as above, one value |
| `wire` | Does the standby read the fields that were written? `TypeOK`, `Faithful`, `BulkRefreshes` | arrays of 1 to 3 objects with a pointer and an embedded structure, names of 2 words, initial buffer 10 words, receive limit 20, four stores and messages in all |
| `objectdb` | Are the list and the loops over it right? `TypeOK`, `Linked`, `NoStaleCursor`, `CleanLeaves`, `ImplementsDirectory`, `CleanEnds` | two static and two dynamic records |
| `boot` | What holds of the list while two threads use it without a lock? `TypeOK` (no cycles), `RegisteredIsFound` | two global objects, one heap object of a type the application registers, one copy of each by a message |
| `queue` | Is the ring a FIFO queue? `QTypeOK`, `RingInv`, `ImplementsBoundedQueue` | three slots, two pointers |
| `tree` | Do the traversals agree with the recursive ones, end and stay in bounds; do insertion, search, ancestor and half-node removal keep the tree? `TreeTypeOK`, `SafeWithinLimit`, `SearchTree`, `AgreesWithRecursion`, `RemovesHalfNodes`, `TraversalEnds` | five nodes, three values, a stack of four |
| `threadpool` | What can go wrong in the pool, and from which causes only? `TypeOK`, `ScanFindsBlocked`, `StuckHasCause`, `FlagHasCause` | two slots; three threads that call, one of which waits, and one that only is put into the pool; two with the same id and one with an id too large |

Why the bounds are enough to be worth something. Three objects with two pointer
fields give every shape the marking scan distinguishes: self-loops, cycles with
and without the root, sharing, a chain, an unreachable object that points back,
dangling and foreign pointers, marked and unmarked. Two heap objects are enough for
a pointer to overtake the creation of its target, and for an address to be used
again while a message about its first use is under way; global objects, which
differ from them in that nothing creates or frees them, are in `checkpoint`. In `replication_bulk` one heap object
does: in the cycle of the global and the heap object the bulk sync may send
either first, so that a pointer becomes an orphan when the CREATE was lost. Two
heap addresses let the objects of a checkpoint come back exchanged. In `boot`
both threads can be at any place of `ha_reg_object` and of a lookup at once,
with an empty list and with one. In `wire` the initial
buffer is filled exactly, exceeded by a skip and doubled within one message,
and 20 words cut the largest messages. Four records reach each of the four
unlink cases with each kind of neighbour. A ring of three wraps in every
position, full and empty. The stack of four is exceeded by trees of five.

The conditions under which properties hold are part of what they say:

* `replication` assumes a reliable ordered socket and neither orders to clean nor
  bulk syncs, but nothing of `calloc` and of the application. When an object is freed and its address
  allocated again, a pointer to it has the same hash as before and the standby is not told
  of the new object, while its own pointer dangles. `HashedMirror`, `Converges` and,
  in `checkpoint`, `Mirror` except exactly these pointers (`stale`), from the free
  until an UPDATE sends the field with NULL or an object in it; contents of data fields and the lists of
  objects are never excepted. A bulk sync repairs them,
  which `replication_bulk` checks.
* `replication_bulk` lets only CREATE and DELETE be disturbed. A lost BULK_SYNC
  or COMMIT has no repair in the code.
* `CommitMirrors` speaks of a standby that is alive. In the passing run no
  incremental sync leaves orphan pointers; `replication_orphan` shows why.
* `Faithful` and `BulkRefreshes` speak of messages that none of four causes has
  damaged; the causes are the variable `harm`: `junk` (a NULL pointer behind the
  initial buffer), `count` (the count is not filled in when the buffer is
  exactly full), `shift` (a NULL pointer in an embedded structure is not stepped
  over), `cut` (a message larger than `recvfrom` takes). That nothing *else* can
  go wrong is what the properties say.
* `Complete` and `ImplementsHeapSync` speak of the objects that no mark hides
  from the scan (`Visible`). What a mark left by choice 21 hides is not sent,
  although the comment at `tha_sync.c:1014` speaks of the entire heap state.
* `checkpoint` leaves out a restart in the middle of a load: the orphan pointers
  which the standby has put aside then outlive it, and the next commit meets
  targets that were cleaned away, as in `replication_orphan`. It also assumes
  that `calloc` does not return an address that a loaded object is named after;
  `checkpoint_ids` shows why.
* `Mirror` speaks of the first process and, after a restart, of the time from a load
  on (`aligned`): a process that was started anew
  knows nothing of what the standby holds until it loads or cleans.
* `RegisteredIsFound` promises that no registration is lost only for records
  whose linking did not overlap with one of the other thread, and a right
  count and right lookups only if the two threads were never in the database at
  once. That the library cannot promise more is what the list of causes says.

Fairness is used in four runs. In `bulk`, `objectdb` and `tree` it is
weak fairness of the steps of one function call: nothing else runs while the
call does, and a process that is scheduled at all makes its next step. In
`replication` it is weak fairness of `Recv`: the receiving thread loops
over a blocking `recvfrom`. Nothing is assumed of the application, which may
never sync; `Converges` therefore speaks of behaviours in which there is, from
some time on, nothing left to sync.

Deadlock is checked in `objectdb` and `queue`. In the others the system may
stop for a reason: a crashed or dead process, an application that does nothing
while the socket is empty and the bounds are reached, a tree that is complete,
threads that wait for a mutex nobody will unlock.

## 4 Proofs

All are for every value of the constants under the named assumptions of the
module; none uses a result of TLC.

**BulkSync_proofs** (assumptions: static objects are objects, `NSlots` is a
natural number, field types are well typed, `Stores` holds values for each object,
`Null`, `NotTha` and `Foreign` are no objects, and `Foreign` is not one of the first two). The conjunction of the properties is not inductive: nothing in
them says why an object that the scan has passed cannot be needed again.
`IInv` adds, for a scan in progress, the parts of `ScanInv`:
* `Marking`: a marked object was marked before, is sent or is on the stack, and
  just one of these;
* `StackOnce`: no object has two activations;
* `RootsSeen`: static objects behind the cursor are marked;
* `TargetsSeen`: whatever a sent object, or a field that an activation has
  passed, points to is marked;
* `Justified`: only reachable objects are visited;
* `Chain`: an activation is reachable from every one below it.

From these, `TypeCorrect`, `SentOnceHolds`, `BottomUpHolds` and
`CrashHasCauseHolds` follow. `BottomUp` uses `Chain`: a child that is not
yet sent when its parent is must be on the stack below it, so it leads to the
parent. `CompleteHolds`: when the scan ends the stack is empty, so by `Marking`
the marked objects are the sent ones, by `RootsSeen` and `TargetsSeen` they are
a closed set with the roots in it, and by `Justified` no larger than that.
`RefinesHeapSync` states that `Spec` implies the abstract specification, with
and without marks left over: application steps map to `Mutate` or a stutter, `BulkStart` to
`Begin`, `SlotReturn` to `Send`, `Finish` to `Commit`, `SlotCrash` to `Crash`
and every other step of the scan to a stutter.

**ObjectDb_proofs** (assumptions: `Null` is no record, `Dynamic` is Boolean).
`IInv` is `TypeOK`, `Linked` and `Cursor`, which says where each loop stands:
that the records the clean has passed are static (or reset), and that a lookup
with `left` turns to go stands at the position that leaves it. The history
variable `order` lets `Linked` be stated by positions; each of the four unlink
cases is a lemma about the positions that move up. `LinkedHolds`,
`NoStaleCursorHolds` and `CleanLeavesHolds` follow. `RefinesDirectory` states
that `Spec` implements Directory, whose list is what a walk of `count` records
along `next` finds. The walk is a recursive function; `WalkIsOrder` shows that
in a well-formed list it is `order` (two solutions of its equation have no first
position at which they differ), so `HaRegObject` maps to `Register`, each removal
to `Unregister`, `CleanStart` to `CleanBegin`, `CleanReturn` to `CleanEnd`, and
the turns of loops, the lookups and the stores to a stutter.

**Library_proofs, Queue** (assumptions: `Size` is positive, `Null` is no element).
`RingHolds` is inductive together with `QTypeOK`; `RefinesBoundedQueue` maps
the ring to the sequence of its elements from the oldest to the newest.

**Library_proofs, ThreadPool** (assumptions: waiters are callers and callers are threads,
`None` is no thread, ids and the size of the pool are natural numbers). `TypeOK`
says, besides types, that whoever is behind `pthread_mutex_lock` holds the mutex
and that no id is in the pool twice; it is inductive. `ScanFindsBlocked` needs
only `TypeOK` beside itself: `_pool_add` fills a slot that was empty, so it
never takes away what a scan is still to meet, and a removal ends its promise.
For `StuckHasCause` the thread that left the mutex locked cannot be inside a
function again, because each first waits for that mutex, and the array changes
only under it. `FlagHasCause` is inductive with `TypeOK`.

**Library_proofs, Tree** (assumptions: `MaxNodes` is a natural number, values are
natural numbers, the stack has room for something, `Zero` is no node). Nodes are
numbered as they are allocated, and `Descends` says that children have greater
numbers than their parents. So a statement about subtrees can be proved from its
children upwards (`TreeInduction`, over the set of nodes that satisfy it), and each
function that recurses over the tree exists and meets its equations (`FoldExists`
and the lemmas `...Equations`). `TreeInvariant` has three parts:
* `Types`, the ranges of the variables, the words of the stack included;
* `Trees`: `Descends`, unused nodes have no links, and `Searches`, at every node of
  the tree the values on the left are no greater and those on the right are
  greater. Insertion hangs the new node at the one place where that stays true
  (`PlaceBelongs`, `HangSearches`); `removeHalfNodes` leaves below the replacement of
  a node exactly its descendants with no or two children (`HalvedWhole`), in their
  order (`HalvedOrder`). From `Searches` alone no node is below two parents, the
  recursive in-order traversal is sorted, `getNodePtrBST` finds what is there, and
  `LowestCommonAncestor` is right (`FoundRight`, `AncestorRight`);
* `Walk`, what a traversal is about: the nodes on the stack are a path downwards
  (`Chain`), each owes a sequence of nodes that its `isVisited` flag determines
  (`Pending`, `Owed`), and what has been printed, what is printed at the current
  node and what is owed below it are together what the recursive traversal prints.
  The three traversals differ only in where a node prints itself (`Early`, `Amid`,
  `Late`), and the flag of a node is written before anything relies on it, which is
  why the flags of earlier traversals do not matter.

`AgreesWithRecursionHolds` is `Walk` with an empty stack. A path is no longer, and
what is printed is no more, than the tree has nodes, which gives
`SafeWithinLimitHolds`. `TreeTypeCorrect`, `SearchTreeHolds` and
`RemovesHalfNodesHolds` follow from `Trees`.

**Receiver_proofs** (assumptions: addresses, `Null`, `Dangling` and `NotTha`
are distinct, there are finitely many addresses, `Null` and `Dangling` are no
numbers) holds the lemmas about the handlers that both ends share: for each of
`Create`, `Update`, `BulkUpdate`, `Delete`, `Clean` and `CommitOrphans` what it
does to the list of records, to the record of an id and to the orphan list
(`CreateFacts` to `CommitFacts`), that it keeps types (`DeliverFacts`) and that
records keep distinct locations; that `calloc` on the standby finds a free
location (`FreshLocFacts`, by the pigeonhole principle); and that `After` takes
the messages of a concatenation one part after the other (`AfterConcat`).
`After` is a recursive function over the messages. The library's induction
theorem cannot be used, because it takes an operator as parameter;
`NatSetInduction` states induction for the *set* of numbers that have a
property instead, which follows from the well-foundedness of `<`.

**Replication_proofs** (besides: `Zero` is a value, the bounds are numbers).
The properties speak of `Drained`, the standby after everything in the socket.
Delivery leaves `Drained` as it is and sending appends to what it is computed
from, so each action of the active has to be compared with the effect of its
own messages only.
* `TypeCorrect` needs no hypothesis.
* `SameDirectoryHolds`, for a socket that neither loses nor reorders (`Net = {}`)
  and an active that orders no clean: with `Registry` (no address twice in `db`,
  static objects always listed) the property is inductive.
* `HashedMirrorHolds`, if moreover there is no bulk sync; nothing is assumed of
  `calloc` or of what the application keeps. `Mirrored` strengthens the property:
  what a pointer that is not stale was hashed from is an object still, the very
  one. `Apartness` says that the standby's objects do not share memory, so that a
  DELETE there makes only those pointers dangle that become stale here. An
  incremental sync is a family of states, one for each
  message of the sync (`SyncArrives`).
* `CommitMirrorsHolds` (for a standby that is alive) and `StandbySurvivesHolds`, if there is no incremental
  sync and only CREATE, DELETE and CLEAN_STATE can be lost, doubled or
  reordered. The invariant is `Delivery`: each BULK_SYNC, ORPHAN_COMMIT and
  COMMIT under way belongs to a whole bulk sync, of which the standby may have
  taken a beginning (`Flow`), and in that case `Progress` says what it holds:
  each object that has arrived is in place, and the orphan list has exactly the
  pointers of these objects whose target was missing (`Arrived`).
  Loss, doubling and exchange of messages move the positions of the ones behind
  (`FlowRemove`, `FlowInsert`, `FlowSwap`).

**StandbyBoot_proofs** (assumptions: `Order` lists each global object once, heap
objects are finitely many and not global, `Null` is no record). `TypeOK` says
that the list has no cycle, which is proved from its formulation by sets: every
nonempty set of published records has a member whose `next` leaves it. The
inductive invariant `LinkInv` adds where each thread stands inside
`ha_reg_object` and inside a lookup (`Jobs`), that the records of the list and
the ones about to be published are allocated and lead to such (`Shape`), what
the two halves of `count++` owe (`Counts`), and that an undisturbed record lies
ahead of `head` and of what a linking thread is about to put behind its record
(`Kept`). While the threads have not overlapped (`Alone`) the count is the
number of records and a lookup has as many turns left as records ahead of it.
`TypeCorrect` and `RegisteredIsFoundHolds` follow without further hypotheses.

**Checkpoint_proofs** (the same assumptions as Replication_proofs).
`TypeCorrect` needs no hypothesis. `SurviveHolds`, `LoadRestoresHolds` and
`MirrorHolds` are for an active that may restart, but not in the middle of a
load, and for a `calloc` that returns no address which is the `obj_id` of a
loaded object (`Faults` within `{"restart"}`). Both restrictions are needed:
`checkpoint_ids` shows what such an address does to the mirror, and a
restart in the middle of a load leaves the standby with orphan pointers that no
commit has resolved. The properties are not inductive because none of them says
what a file is or where a load stands. `Inv` does, besides `Types`:
* `Own`: the active has every `obj_id` once, and its global objects are named after
  their addresses;
* `Phase`: orphan pointers exist only during a load, and the active is dead only
  of a creation while checkpoints are enabled;
* `IsFile`: a file is a whole bulk sync of what `saved` remembers, closed under
  its pointers, with the global objects in it. It is because of this that a load
  never meets an orphan pointer without its object, and it outlives the process;
* `Copy`: the standby will live and has every object of the active, also while it
  still has the state of an earlier process;
* `Mirrored`: once a process has loaded, the `obj_id`s agree one to one and the
  standby is the `Twin` of what the active hashed, except for the pointers that are
  `stale`; a process that has restarted is not `aligned` until it loads;
* `Load`: what is left of the file is its end, and *both* machines have come as
  far as the part before it (`Progress`, with the `Arrived` of Receiver_proofs);
  the hashes are those of the objects as they are.

The two machines choose addresses independently, so `Twin` compares pointers by
the `obj_id` of what they lead to. One message of a load creates, writes and
announces on the active and creates and writes on the standby:
`CreateTwin`, `BulkTwin` and `UpdateTwin` say that the pair stays a twin through
each; `HoldsTwin` that two machines which hold the same file are twins. `FreeTwin` is
the same for `ha_free`: the active keeps its pointers to the freed object, the
standby's dangle, and both are stale from then on; `DeleteKeeps` says that the
standby loses just the record of that `obj_id`, which for two records of
one name would not be so.

**Wire_proofs** (assumptions: a structure has fields, each of a known type; the
limits are numbers, positive where the code needs it; identifiers, `Mark`
and `Foreign` are no numbers, and `Mark` and `Foreign` no identifiers). `TypeCorrect`, `FaithfulHolds` and
`BulkRefreshesHolds` need no other hypothesis: they hold for every layout of the
structures, every number of objects in an array, every initial size of the buffer
and every receive limit. The functions that add up the sizes of fields and lay
out their words are recursive; set induction shows that their equations have a
solution (without that nothing is known of a recursive function) and what it
is. `Typed` is `TypeOK` with the loops of writer and reader kept within their unit.
The inductive invariant `Sound` says of a message without `harm` that there is a
set of *entries*, each the count of an object or one of its fields with the
position of its words, such that
* `Laid`: they lie in the message and no two share a word;
* `Chained`: where one ends the next one of the object begins, or the next object;
* `Indexed`: an entry begins with the index of its field, or with the number of
  fields of its object, except for the object that is being written, whose number
  is filled in when it is complete;
* `Carries`: the words of an entry, applied to the object that the standby has,
  give what is expected;
* `Kept`, `Meant`: a field without an entry is not to change, one with an entry
  is to be as in the memory of the active;
* while the message is written (`Writing`) the entries end where the buffer does,
  in a bulk message none is missing (`AllPut`), and `CountOpen` says where the
  number to fill in is; while it is read (`Reading`) the read position is the
  beginning of an entry, and the entries before it have been applied.

The number that is filled in afterwards is the delicate step: `UnitEndWords`
shows that its word belongs to no other entry. `FieldPutWords` shows that a field
written without harm has the words that its reader expects, `FailsDamaged` that
the checks of the reader fail only for a message with harm.

Only model-checked are the liveness properties (`Converges`, `ScanEnds`,
`CleanEnds`, `TraversalEnds`), since fairness and `ENABLED` are out of the prover's
reach. Every other property of the passing runs is stated by a theorem.

## 5 What the checks found

Two runs show the code doing something else than a comment or a message of the
program says:

* **`checkpoint_ids`**: `README.md:6` of the repository promises heaps that are
  mirror images of each other at all points of time. A loaded object keeps as its
  `obj_id` the address it had when it was saved. When `ha_calloc` later gets that
  address, `tha_add_object` builds the same `obj_id` (`tha_db.c:222-229`) without
  looking for it, and the standby has two records of that name. Until then each
  object still has its copy (`Mirror` asks for *some* way to pair them). Then, in
  the trace, the application frees the loaded object: DELETE carries the name, the
  standby's lookup finds the newer record first, and it frees its copy of the new
  object and keeps that of the freed one, with its old pointer.
* **`replication_orphan`**: a pointer that an incremental sync left on the
  orphan list stays there when the field is written later or its target is freed.
  In the trace `g` points to `x` when `ha_sync` sends its UPDATE behind an order to
  clean; then `g` is changed to point to itself, and `x` is freed and allocated
  again. The standby cleans away its `x`, so the UPDATE leaves an orphan pointer
  from `g` to `x`. The bulk sync sends `g` as it is now and the standby, which has taken
  the new CREATE of `x`, stores that; but the commit finds an object `x` for the orphan pointer
  and writes its address into `g` over what the bulk sync sent
  (`tha_sync.c:77`), just before the standby reports "State is Synchronized" (568).

Behaviours that the models contain because the code has them, and that limit
what could be stated, are listed under `hazards`: the four causes of `harm` in
Wire, the crash at `tha_sync.c:973`, the commit that reads through NULL at line
73 (when the target of such an orphan pointer does not exist any more:
`CommitMirrors` speaks of a living standby, so no run claims this one), pointers to
freed memory whose hash does not change when the address is allocated again, marks that hide objects from a bulk sync, a standby that loses a registration
to an early message, a commit that comes before the lists exist, a mutex that
stays locked, a second CREATE that hides the first record, hashes that a bulk sync does
not store, pointers in embedded structures that the scan does not follow, and a
stack that overwrites its own counter when it is filled beyond its array.

## 6 What is not modelled

* **The standby's console**: its clean frees the records on which the listening
  thread stands, without a lock. From the first overlap on everything may happen,
  and there is nothing to state but that there was none.
* **DELETE and CLEAN_STATE in StandbyBoot**: for the same reason. Replication
  has them after registration.
* **Checkpoint files that are damaged or cut short.**
* **Thread pool**: `resume_thread_id` and the dump functions, which are only for
  printing, and failing pthread calls.
* **Linked lists**: the library's own lists only append and are emptied, which
  Receiver shows as a sequence; nothing in the library calls the rest of the list
  API, a set of sequential functions without shared state.
* **Structure database**: written once at start-up; it is the constants `Dtype`
  (BulkSync) and `Fields`, `Inner` (Wire), and in StandbyBoot the flag `structs`.
* **Threaded trees, mirror images, distances, tree to list**: not used by the
  demonstration application.
* **`hash_code`, `itoa`, printing, the menu**: formatting and input/output; the
  hash is taken to be injective.

## 7 Plan

Done, in this order: HeapGraph, HeapSync, BulkSync with proofs; Replication;
ObjectDb with Directory and proofs; Queue with BoundedQueue and proofs; Wire;
Stack and Tree; the refinement of BulkSync over marks left from before; Receiver,
Checkpoint, StandbyBoot; ThreadPool with proofs; proofs for Receiver and
Replication, StandbyBoot and Checkpoint; ObjectDb implements Directory; proofs
for Wire and for Tree.

What remains is what section 6 leaves out, and liveness beyond the small instances.
