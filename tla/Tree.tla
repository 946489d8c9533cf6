-------------------------------- MODULE Tree --------------------------------
(***************************************************************************)
(* DS/Trees/tree.c, the binary search tree of the demonstration            *)
(* application: insertion, lookup, lowest common ancestor, removal of half *)
(* nodes, and the three traversals without recursion, which keep their way *)
(* in a Stack and in the isVisited flag of the nodes.  One step of a       *)
(* traversal does at most one push or pop.                                 *)
(*                                                                         *)
(* Nodes are numbered in the order of their allocation; removed nodes are  *)
(* not freed and not used again.                                           *)
(***************************************************************************)
EXTENDS Naturals, Sequences, FiniteSets, Functions

CONSTANTS
    MaxNodes,   \* bound: nodes allocated
    Data,       \* values stored in nodes
    StackSize,  \* MAX_STACK_SIZE
    Zero        \* see Stack

ASSUME MaxNodesAssumption == MaxNodes \in Nat
ASSUME DataAssumption == Data \subseteq Nat
ASSUME StackSizeAssumption == StackSize \in Nat \ {0}

Nil == 0
Node == 1..MaxNodes
Link == {Nil} \cup Node
ASSUME ZeroAssumption == Zero \notin Node

VARIABLES
    root, left, right, data, visited,   \* the tree and its nodes
    used,       \* nodes allocated so far
    kind,       \* the traversal under way: "pre", "in" or "post"
    pc,         \* "idle", "push", "descend" (top of the loop), "iterate" (the
                \* label ITERATE), or "dead" when memory was overwritten
    cur,        \* local variable root of the traversal
    out,        \* local array output, as nodes
    top, array, pops   \* the stack of the traversal

St == INSTANCE Stack WITH Elem <- Node, Size <- StackSize, MaxCalls <- MaxNodes + 1,
                          slot <- array

tree == <<root, left, right, data, used>>
stack == <<top, array, pops>>
treevars == <<tree, visited, kind, pc, cur, out, stack>>

TreeInit == /\ root = Nil
            /\ left = [n \in Node |-> Nil]
            /\ right = [n \in Node |-> Nil]
            /\ data = [n \in Node |-> 0]
            /\ visited = [n \in Node |-> FALSE]
            /\ used = 0
            /\ kind = "pre" /\ pc = "idle" /\ cur = Nil /\ out = <<>>
            /\ St!Init

(***************************************************************************)
(* The functions without a stack.                                          *)
(***************************************************************************)

\* _printPreorder, _printInorder and _printPostorder: the nodes in the order in
\* which they are printed.
Preorder[n \in Link] ==
    IF n = Nil THEN <<>> ELSE <<n>> \o Preorder[left[n]] \o Preorder[right[n]]
Inorder[n \in Link] ==
    IF n = Nil THEN <<>> ELSE Inorder[left[n]] \o <<n>> \o Inorder[right[n]]
Postorder[n \in Link] ==
    IF n = Nil THEN <<>> ELSE Postorder[left[n]] \o Postorder[right[n]] \o <<n>>

Printed(k) == CASE k = "pre" -> Preorder[root]
                [] k = "in" -> Inorder[root]
                [] k = "post" -> Postorder[root]

Under(n) == Range(Inorder[n])

\* getNodePtrBST: the node found for d.
Found(d) ==
    LET From[n \in Link] ==
            IF n = Nil \/ data[n] = d THEN n
            ELSE IF d > data[n] THEN From[right[n]] ELSE From[left[n]]
    IN  From[root]

\* _LowestCommonAncestor: a node that holds a value is returned only where not
\* both subtrees have returned something.
Ancestor(d1, d2) ==
    LET From[n \in Link] ==
            IF n = Nil THEN Nil
            ELSE LET l == From[left[n]]
                     r == From[right[n]]
                 IN  IF (l # Nil /\ r # Nil) \/ data[n] \in {d1, d2} THEN n
                     ELSE IF l # Nil THEN l ELSE r
    IN  From[root]

\* Mutant: the side of the new node is taken from a comparison with the root.
AddBeside(n, d) ==
    LET Place[p \in Node] ==
            LET next == IF d <= data[p] THEN left[p] ELSE right[p]
            IN  IF next = Nil THEN p ELSE Place[next]
        parent == Place[root]
    IN  IF root = Nil THEN root' = n /\ UNCHANGED <<left, right>>
        ELSE /\ UNCHANGED root
             /\ IF d <= data[root]
                THEN left' = [left EXCEPT ![parent] = n] /\ UNCHANGED right
                ELSE right' = [right EXCEPT ![parent] = n] /\ UNCHANGED left

\* The new node goes below the last node of the search path.
AddNode(n, d) ==
    LET Place[p \in Node] ==
            LET next == IF d <= data[p] THEN left[p] ELSE right[p]
            IN  IF next = Nil THEN p ELSE Place[next]
        parent == Place[root]
    IN  IF root = Nil THEN root' = n /\ UNCHANGED <<left, right>>
        ELSE /\ UNCHANGED root
             /\ IF d <= data[parent]
                THEN left' = [left EXCEPT ![parent] = n] /\ UNCHANGED right
                ELSE right' = [right EXCEPT ![parent] = n] /\ UNCHANGED left

\* add_tree_node_by_value.
Insert(d) ==
    /\ pc = "idle" /\ used < MaxNodes
    /\ used' = used + 1
    /\ data' = [data EXCEPT ![used + 1] = d]
    /\ AddNode(used + 1, d)
    /\ UNCHANGED <<visited, kind, pc, cur, out, stack>>

\* Mutant: the right child of a half node is not moved up.
KeptLeft(n, l, r) == IF r = Nil /\ l # Nil THEN l ELSE n

\* What _removeHalfNodes returns for the subtree of a node, given what it
\* returned for its children.
Kept(n, l, r) == IF (l = Nil) = (r = Nil) THEN n ELSE IF l = Nil THEN r ELSE l

Replacement[n \in Link] ==
    IF n = Nil THEN Nil ELSE Kept(n, Replacement[left[n]], Replacement[right[n]])

\* Mutant: the left subtree is hung up on both sides.
RemoveHalfNodesTwice ==
    /\ pc = "idle" /\ root # Nil
    /\ root' = Replacement[root]
    /\ left' = [n \in Node |-> IF n \in Under(root) THEN Replacement[left[n]] ELSE left[n]]
    /\ right' = [n \in Node |-> IF n \in Under(root) THEN Replacement[left[n]] ELSE right[n]]
    /\ UNCHANGED <<data, used, visited, kind, pc, cur, out, stack>>

\* removeHalfNodes; the dummy node above the root is not in the tree afterwards.
RemoveHalfNodes ==
    /\ pc = "idle" /\ root # Nil
    /\ root' = Replacement[root]
    /\ left' = [n \in Node |-> IF n \in Under(root) THEN Replacement[left[n]] ELSE left[n]]
    /\ right' = [n \in Node |-> IF n \in Under(root) THEN Replacement[right[n]] ELSE right[n]]
    /\ UNCHANGED <<data, used, visited, kind, pc, cur, out, stack>>

(***************************************************************************)
(* PreorderNR, InorderNR and PostorderNR.                                  *)
(***************************************************************************)

\* output[] has room for StackSize values; one more is written over the stack frame.
\* Otherwise the traversal goes on at next.
Emit(nodes, next) ==
    /\ out' = out \o nodes
    /\ pc' = IF Len(out') > StackSize THEN "dead" ELSE next

\* The stack is new; reset_stack leaves the old one in the same state.
StartTraversal(k) ==
    /\ pc = "idle" /\ root # Nil
    /\ kind' = k /\ cur' = root /\ out' = <<>> /\ pc' = "push"
    /\ St!Reset
    /\ UNCHANGED <<tree, visited>>

PushRoot ==
    /\ pc = "push"
    /\ St!Push(root)
    /\ pc' = "descend"
    /\ UNCHANGED <<tree, visited, kind, cur, out>>

\* The element behind the array has been overwritten by count_of_push, and
\* there is no room for another one: reading the first is wild, pushing the
\* second fails the assertion of PUSH.
Die ==
    /\ pc = "descend" /\ top > StackSize
    /\ pc' = "dead"
    /\ UNCHANGED <<tree, visited, kind, cur, out, stack>>

\* The node at the top of the stack, which is within the array here.
Above == array[top].base
Descending == pc = "descend" /\ top <= StackSize

DescendLeft ==
    /\ Descending /\ left[cur] # Nil
    /\ St!Push(left[cur])
    /\ visited' = [visited EXCEPT ![cur] = FALSE]
    /\ cur' = left[cur]
    /\ Emit(IF kind = "pre" THEN <<Above>> ELSE <<>>, "descend")
    /\ UNCHANGED <<tree, kind>>

\* Mutant: the flag of the node is left as it was.
DescendRightUnmarked ==
    /\ Descending /\ left[cur] = Nil /\ right[cur] # Nil
    /\ St!Push(right[cur])
    /\ UNCHANGED visited
    /\ cur' = right[cur]
    /\ Emit(IF kind = "post" THEN <<>> ELSE <<Above>>, "descend")
    /\ UNCHANGED <<tree, kind>>

DescendRight ==
    /\ Descending /\ left[cur] = Nil /\ right[cur] # Nil
    /\ St!Push(right[cur])
    /\ visited' = [visited EXCEPT ![cur] = TRUE]
    /\ cur' = right[cur]
    /\ Emit(IF kind = "post" THEN <<>> ELSE <<Above>>, "descend")
    /\ UNCHANGED <<tree, kind>>

Leaf ==
    /\ Descending /\ left[cur] = Nil /\ right[cur] = Nil
    /\ St!Pop
    /\ visited' = IF kind = "in" THEN [visited EXCEPT ![Above] = TRUE] ELSE visited
    /\ Emit(<<Above>>, "iterate")
    /\ UNCHANGED <<tree, kind, cur>>

Iterating == pc = "iterate" /\ top > 0

\* Back from the left child: on to the right one.
TurnRight ==
    /\ Iterating /\ ~visited[Above] /\ right[Above] # Nil
    /\ visited' = [visited EXCEPT ![Above] = TRUE]
    /\ St!Push(right[Above])
    /\ cur' = right[Above]
    /\ Emit(IF kind = "in" THEN <<Above>> ELSE <<>>, "descend")
    /\ UNCHANGED <<tree, kind>>

\* Mutant: the node stays on the stack.
ClimbStays ==
    /\ Iterating /\ (visited[Above] \/ right[Above] = Nil)
    /\ visited' = [visited EXCEPT ![Above] = TRUE]
    /\ UNCHANGED stack
    /\ cur' = Above
    /\ Emit(IF kind = "post" \/ (kind = "in" /\ ~visited[Above]) THEN <<Above>> ELSE <<>>, "iterate")
    /\ UNCHANGED <<tree, kind>>

\* Done with a node.
Climb ==
    /\ Iterating /\ (visited[Above] \/ right[Above] = Nil)
    /\ visited' = [visited EXCEPT ![Above] = TRUE]
    /\ St!Pop
    /\ cur' = Above
    /\ Emit(IF kind = "post" \/ (kind = "in" /\ ~visited[Above]) THEN <<Above>> ELSE <<>>, "iterate")
    /\ UNCHANGED <<tree, kind>>

Finish ==
    /\ pc = "iterate" /\ top = 0
    /\ pc' = "idle" /\ cur' = Nil
    /\ UNCHANGED <<tree, visited, kind, out, stack>>

Traverse == \/ PushRoot \/ Die \/ DescendLeft \/ DescendRight \/ Leaf
            \/ TurnRight \/ Climb \/ Finish

TreeNext == \/ \E d \in Data : Insert(d)
            \/ RemoveHalfNodes
            \/ \E k \in {"pre", "in", "post"} : StartTraversal(k)
            \/ Traverse

TreeSpec == TreeInit /\ [][TreeNext]_treevars

\* A traversal is a call that runs on.
FairSpec == TreeSpec /\ WF_treevars(Traverse)

(***************************************************************************)
(* Properties.                                                             *)
(***************************************************************************)

\* Every variable stays in its set, and no node has two parents.
TreeTypeOK ==
    /\ {root, cur} \subseteq Link
    /\ {left, right} \subseteq [Node -> Link]
    /\ data \in [Node -> Data \cup {0}]
    /\ visited \in [Node -> BOOLEAN]
    /\ used \in 0..MaxNodes
    /\ kind \in {"pre", "in", "post"}
    /\ pc \in {"idle", "push", "descend", "iterate", "dead"}
    /\ out \in Seq(Node)
    /\ top \in 0..(StackSize + 1)
    /\ IsInjective(Inorder[root])

\* A traversal with a stack visits the nodes in the order of its recursive
\* counterpart, whatever the flags were before it, and leaves its stack empty.
AgreesWithRecursion == [][pc = "iterate" /\ pc' = "idle" => out = Printed(kind)]_treevars

\* Trees of at most MAX_STACK_SIZE nodes overflow neither the stack nor the
\* output of a traversal, whatever their shape.
SafeWithinLimit == Cardinality(Under(root)) <= StackSize => pc # "dead"

\* Every traversal comes to an end.
TraversalEnds == (pc # "idle") ~> (pc \in {"idle", "dead"})

\* For two values that are in the tree, once each, LowestCommonAncestor returns
\* the lowest node above both.
LowestAncestor ==
    \A m, n \in Under(root) :
        /\ \A k \in Under(root) : data[k] \in {data[m], data[n]} => k \in {m, n}
        /\ data[m] = data[n] => m = n
        => LET a == Ancestor(data[m], data[n])
           IN  /\ {m, n} \subseteq Under(a)
               /\ \A c \in {left[a], right[a]} : ~({m, n} \subseteq Under(c))

\* Insertion and removal of half nodes keep the order of the values, so that
\* getNodePtrBST finds each value that is in the tree and no other, and
\* LowestCommonAncestor the lowest node above two of them.
SearchTree ==
    /\ \A i \in 1..(Len(Inorder[root]) - 1) :
          data[Inorder[root][i]] <= data[Inorder[root][i + 1]]
    /\ \A d \in Data :
          IF \E n \in Under(root) : data[n] = d
          THEN Found(d) \in Under(root) /\ data[Found(d)] = d
          ELSE Found(d) = Nil
    /\ LowestAncestor

\* removeHalfNodes keeps leaves and nodes with two children in their order, and
\* nothing else; no node of the new tree has one child.
Whole(n) == (left[n] = Nil) = (right[n] = Nil)
Before(s, m, n) == \E i, j \in DOMAIN s : i < j /\ s[i] = m /\ s[j] = n
RemovesHalfNodes ==
    [][used' = used /\ tree' # tree
        => /\ Under(root)' = {n \in Under(root) : Whole(n)}
           /\ \A m, n \in Under(root)' : Before(Inorder[root], m, n)' => Before(Inorder[root], m, n)
           /\ \A n \in Under(root)' : Whole(n)']_treevars
=============================================================================
