------------------------------- MODULE Stack -------------------------------
(***************************************************************************)
(* DS/Stack/stack.c: the operations that the iterative tree traversals     *)
(* use (see Tree), on the words of struct stack.                           *)
(*                                                                         *)
(* struct stack is an array of Size pointers with the word count_of_push   *)
(* behind it (the library is written for pointers as wide as an int), so   *)
(* slot[Size] of the code is that word.  A word is [base, inc]: inc added  *)
(* to a pointer, or to 0 when base is Zero.                                *)
(***************************************************************************)
EXTENDS Naturals

CONSTANTS
    Size,       \* MAX_STACK_SIZE
    Elem,       \* pointers that are pushed
    Zero,       \* the base of a plain number
    MaxCalls    \* bound on the value of the two counters

Number(n) == [base |-> Zero, inc |-> n]
Pointer(e) == [base |-> e, inc |-> 0]
Plus1(w) == [w EXCEPT !.inc = @ + 1]

VARIABLES
    top,    \* index of the top element plus one: top of the code is top - 1
    slot,   \* the array and the word behind it, slot[Size + 1]
    pops    \* count_of_pop

vars == <<top, slot, pops>>

Pushes == slot[Size + 1]

\* get_new_stack.
Init == /\ top = 0
        /\ slot = [i \in 1..(Size + 1) |-> Number(0)]
        /\ pops = 0

\* reset_stack: the array is cleared, the counters with it.
Reset == /\ top' = 0
         /\ slot' = [i \in 1..(Size + 1) |-> Number(0)]
         /\ pops' = 0

Room == top <= Size
Stored(e) == [slot EXCEPT ![top + 1] = Pointer(e)]

\* push: the test of line 75 lets top of the code, which starts at -1, reach
\* Size; the element is stored before count_of_push is incremented.
Push(e) ==
    /\ Room
    /\ Pushes.inc < MaxCalls
    /\ top' = top + 1
    /\ slot' = [Stored(e) EXCEPT ![Size + 1] = Plus1(@)]
    /\ UNCHANGED pops

\* pop: the slot keeps its word.
Pop ==
    /\ top > 0
    /\ pops < MaxCalls
    /\ top' = top - 1
    /\ pops' = pops + 1
    /\ UNCHANGED slot
=============================================================================
