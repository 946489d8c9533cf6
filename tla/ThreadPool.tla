------------------------------ MODULE ThreadPool ------------------------------
(***************************************************************************)
(* threadApi.c: the pool of blocked threads, an array of pool_size         *)
(* pointers to _pthread_t under a mutex, and wait_t and signal_t, which    *)
(* stop a thread on its condition variable and let it go on.               *)
(*                                                                         *)
(* Nothing in the library calls these functions, so the clients are any    *)
(* threads that make any calls, in any order.  Steps are as small as the   *)
(* other threads can tell: what runs under the mutex is one step, reads    *)
(* without it are one each.  Left out is resume_thread_id, which only      *)
(* dump_thread_DS reads.                                                   *)
(***************************************************************************)
EXTENDS Integers, FiniteSetsExt

CONSTANTS
    Thread,     \* threads, each with its _pthread_t
    Caller,     \* threads that call these functions, about any thread
    Waiter,     \* the callers that call wait_t, each on its own _pthread_t
    SelfId,     \* SelfId[t]: selfid, chosen by the caller of pthread_init
    PoolSize,   \* pool_size
    None        \* NULL in the array, nobody as the holder of the mutex

ASSUME ThreadAssumption == Waiter \subseteq Caller /\ Caller \subseteq Thread /\ None \notin Thread
ASSUME SelfIdAssumption == SelfId \in [Thread -> Nat]
ASSUME PoolSizeAssumption == PoolSize \in Nat

Slot == 0..(PoolSize - 1)

VARIABLES
    slot,       \* blocked_thread_collection
    holder,     \* who has locked pool_mutex
    call,       \* the call that each thread is in
    isWaiting,
    spurious    \* history: the last wait of the thread ended without a signal

vars == <<slot, holder, call, isWaiting, spurious>>

\* A call that p is in: its name, the thread it is about, the index of its
\* loop, and (history) whether the pool has held a thread when the call was
\* made and none has been removed since.
Call(op, who, at, calm) == [op |-> op, who |-> who, at |-> at, calm |-> calm]
Idle(p) == Call("idle", p, -1, FALSE)

Occupied == {i \in Slot : slot[i] # None}

\* init_blocked_pool, and pthread_init of every thread.
Init ==
    /\ slot = [i \in Slot |-> None]
    /\ holder = None
    /\ call = [p \in Thread |-> Idle(p)]
    /\ isWaiting = [p \in Thread |-> FALSE]
    /\ spurious = [p \in Thread |-> FALSE]

In(p, op) == call[p].op = op
Returns(p) == call' = [call EXCEPT ![p] = Idle(p)]
Who(p) == call[p].who

(***************************************************************************)
(* The pool.                                                               *)
(***************************************************************************)

\* is_thread_in_block_pool: the slots that hold a thread with t's id.
SlotsOf(t) == {i \in Occupied : SelfId[slot[i]] = SelfId[t]}

\* The test of _pool_add and remove_thread_from_pool, on unsigned numbers:
\* pool_size - 1 of an empty pool is larger than every id.
OutOfRange(t) == PoolSize > 0 /\ SelfId[t] > PoolSize - 1

\* p calls a function of the pool about t.
Start(p, op, t) ==
    /\ In(p, "idle")
    /\ call' = [call EXCEPT ![p] = Call(op, t, -1, FALSE)]
    /\ UNCHANGED <<slot, holder, isWaiting, spurious>>

\* remove_thread_from_pool of a thread whose id is too large.
RemoveRefused(p) ==
    /\ In(p, "remove") /\ OutOfRange(Who(p))
    /\ Returns(p)
    /\ UNCHANGED <<slot, holder, isWaiting, spurious>>

\* pthread_mutex_lock, after which the call goes on.
Lock(p, op, locked) ==
    /\ holder = None
    /\ In(p, op)
    /\ op = "remove" => ~OutOfRange(Who(p))
    /\ holder' = p
    /\ call' = [call EXCEPT ![p].op = locked]
    /\ UNCHANGED <<slot, isWaiting, spurious>>

Unlock == holder' = None

\* get_empty_slot_from_pool: the free slot with the highest index.
FreeSlot == Slot \ Occupied

\* Mutant: the test whether the thread is in the pool already is lost.
AddTwice(p) ==
    /\ In(p, "adding")
    /\ slot' = IF OutOfRange(Who(p)) \/ FreeSlot = {} THEN slot
               ELSE [slot EXCEPT ![Max(FreeSlot)] = Who(p)]
    /\ Unlock /\ Returns(p)
    /\ UNCHANGED <<isWaiting, spurious>>

\* add_thread_to_pool: not if a thread with this id is in the pool, if the id
\* is too large, or if there is no free slot.
Add(p) ==
    /\ In(p, "adding")
    /\ slot' = IF SlotsOf(Who(p)) # {} \/ OutOfRange(Who(p)) \/ FreeSlot = {} THEN slot
               ELSE [slot EXCEPT ![Max(FreeSlot)] = Who(p)]
    /\ Unlock /\ Returns(p)
    /\ UNCHANGED <<isWaiting, spurious>>

\* remove_thread_from_pool.
Remove(p) ==
    /\ In(p, "removing")
    /\ slot' = IF SlotsOf(Who(p)) = {} THEN slot
               ELSE [slot EXCEPT ![Min(SlotsOf(Who(p)))] = None]
    /\ call' = [q \in Thread |->
                   IF q = p THEN Idle(p)
                   ELSE [call[q] EXCEPT !.calm = @ /\ SlotsOf(Who(p)) = {}]]
    /\ Unlock
    /\ UNCHANGED <<isWaiting, spurious>>

\* Mutant: the mutex stays locked when the thread is found.
FindKeepsLock(p) ==
    /\ In(p, "finding")
    /\ holder' = IF SlotsOf(Who(p)) = {} THEN None ELSE p
    /\ Returns(p)
    /\ UNCHANGED <<slot, isWaiting, spurious>>

\* is_thread_in_block_pool_mutex.
Find(p) ==
    /\ In(p, "finding")
    /\ Unlock /\ Returns(p)
    /\ UNCHANGED <<slot, isWaiting, spurious>>

\* get_empty_slot_from_pool_mutex: its if has no braces, so it returns after
\* the last slot, and unlocks only if that one is free.
Look(p) ==
    /\ In(p, "looking")
    /\ holder' = IF PoolSize - 1 \in Occupied THEN p ELSE None
    /\ Returns(p)
    /\ UNCHANGED <<slot, isWaiting, spurious>>

\* Mutant: the scan begins one slot too low.
PeekLow(p) ==
    /\ In(p, "idle")
    /\ call' = [call EXCEPT ![p] = Call("peek", p, PoolSize - 2, Occupied # {})]
    /\ UNCHANGED <<slot, holder, isWaiting, spurious>>

\* get_blocked_thread_from_pool: no lock.  Each slot is read once for the test,
\* and again for the result.
Peek(p) ==
    /\ In(p, "idle")
    /\ call' = [call EXCEPT ![p] = Call("peek", p, PoolSize - 1, Occupied # {})]
    /\ UNCHANGED <<slot, holder, isWaiting, spurious>>

PeekTest(p) ==
    /\ In(p, "peek") /\ call[p].at >= 0
    /\ call' = IF slot[call[p].at] = None THEN [call EXCEPT ![p].at = @ - 1]
               ELSE [call EXCEPT ![p].op = "take"]
    /\ UNCHANGED <<slot, holder, isWaiting, spurious>>

\* Returns slot[at], or NULL behind the loop.
PeekReturn(p) ==
    /\ In(p, "take") \/ (In(p, "peek") /\ call[p].at < 0)
    /\ Returns(p)
    /\ UNCHANGED <<slot, holder, isWaiting, spurious>>

(***************************************************************************)
(* wait_t and signal_t.                                                    *)
(***************************************************************************)

\* wait_t, up to pthread_cond_wait.  The mutex, which the caller brings, is not
\* taken by signal_t, and each waiting thread may have its own.
Wait(p) ==
    /\ p \in Waiter /\ In(p, "idle")
    /\ isWaiting' = [isWaiting EXCEPT ![p] = TRUE]
    /\ call' = [call EXCEPT ![p].op = "wait"]
    /\ UNCHANGED <<slot, holder, spurious>>

Sleep(p) ==
    /\ In(p, "wait")
    /\ call' = [call EXCEPT ![p].op = "asleep"]
    /\ UNCHANGED <<slot, holder, isWaiting, spurious>>

\* pthread_cond_wait may return without a signal.
WakeUp(p) ==
    /\ In(p, "asleep")
    /\ Returns(p)
    /\ spurious' = [spurious EXCEPT ![p] = TRUE]
    /\ UNCHANGED <<slot, holder, isWaiting>>

\* signal_t: pthread_cond_signal, without the mutex.  If t sleeps it returns
\* from wait_t.
Signal(p, t) ==
    /\ In(p, "idle") /\ t # p
    /\ call' = [call EXCEPT ![p] = Call("signal", t, -1, FALSE),
                            ![t] = IF In(t, "asleep") THEN Idle(t) ELSE @]
    /\ spurious' = [spurious EXCEPT ![t] = @ /\ ~In(t, "asleep")]
    /\ UNCHANGED <<slot, holder, isWaiting>>

\* Mutant: the signalling thread's own flag is reset.
SignalMarkSelf(p) ==
    /\ In(p, "signal")
    /\ isWaiting' = [isWaiting EXCEPT ![p] = FALSE]
    /\ Returns(p)
    /\ UNCHANGED <<slot, holder, spurious>>

\* The assignments behind it.
SignalMark(p) ==
    /\ In(p, "signal")
    /\ isWaiting' = [isWaiting EXCEPT ![Who(p)] = FALSE]
    /\ Returns(p)
    /\ UNCHANGED <<slot, holder, spurious>>

PoolStep(p) ==
    \/ \E op \in {"add", "remove", "find", "empty"}, t \in Thread : Start(p, op, t)
    \/ RemoveRefused(p)
    \/ Lock(p, "add", "adding") \/ Lock(p, "remove", "removing")
    \/ Lock(p, "find", "finding") \/ Lock(p, "empty", "looking")
    \/ Add(p) \/ Remove(p) \/ Find(p) \/ Look(p)
    \/ Peek(p) \/ PeekTest(p) \/ PeekReturn(p)

WaitStep(p) ==
    \/ Wait(p) \/ Sleep(p) \/ WakeUp(p)
    \/ \E t \in Thread : Signal(p, t)
    \/ SignalMark(p)

Next == \E p \in Caller : PoolStep(p) \/ WaitStep(p)

Spec == Init /\ [][Next]_vars

(***************************************************************************)
(* Properties.                                                             *)
(***************************************************************************)

\* p runs the part of a function that is under the mutex.
Inside(p) == call[p].op \in {"adding", "removing", "finding", "looking"}

Op == {"idle", "add", "remove", "find", "empty", "adding", "removing", "finding", "looking",
       "peek", "take", "wait", "asleep", "signal"}

\* Every variable stays in its set; only the holder of the mutex is behind
\* pthread_mutex_lock, and no two slots hold threads with the same id, so a
\* thread that is removed is not in the pool.
TypeOK ==
    /\ slot \in [Slot -> Thread \cup {None}]
    /\ holder \in Thread \cup {None}
    /\ call \in [Thread -> [op : Op, who : Thread, at : Slot \cup {-1}, calm : BOOLEAN]]
    /\ isWaiting \in [Thread -> BOOLEAN]
    /\ spurious \in [Thread -> BOOLEAN]
    /\ \A p \in Thread : Inside(p) => holder = p
    /\ \A i, j \in Occupied : SelfId[slot[i]] = SelfId[slot[j]] => i = j

\* get_blocked_thread_from_pool, which takes no lock, returns NULL only if the
\* pool was empty when it was called or a thread has been removed since:
\* additions, to whatever slot, never make it miss the threads that are there.
ScanFindsBlocked ==
    \A p \in Thread : call[p].calm =>
        /\ In(p, "peek") => \E i \in Occupied : i <= call[p].at
        /\ In(p, "take") => call[p].at \in Occupied

\* The mutex is held by a thread that is not in a function of the pool only if
\* get_empty_slot_from_pool_mutex has met a last slot in use.
StuckHasCause ==
    holder # None /\ ~Inside(holder) => PoolSize - 1 \in Occupied

\* isWaiting of a thread that does not wait is set only until the thread that
\* woke it has reset it, or if nobody woke it.
FlagHasCause ==
    \A p \in Thread : isWaiting[p] /\ ~In(p, "wait") /\ ~In(p, "asleep") =>
        \/ spurious[p]
        \/ \E q \in Thread : In(q, "signal") /\ Who(q) = p
=============================================================================
