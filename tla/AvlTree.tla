-------------------------------- MODULE AvlTree --------------------------------
(***************************************************************************)
(* class AvlTree (src/lib/algorithm.cpp), the TaskTree of a scheduler.  A  *)
(* node is its key: the handle of a task.  Insert and Remove run under the *)
(* lock of the scheduler, so each is one step; the operators below follow  *)
(* their pointer assignments in order, and a loop is a function from its   *)
(* rounds to what it has made of the tree.  An operation that follows a    *)
(* null pointer on its way through the tree records it in "crashed" and    *)
(* ends the run.  The assertions on root->parent (lines 24 and 158) read   *)
(* through a null root when the tree is empty.  KeMain has mapped page 0   *)
(* (keMapMemory starts from 0) before the first insertion, so the read     *)
(* does not fault.  What it yields only decides whether a line is logged,  *)
(* and root is read again after that call: the tree is the same whatever   *)
(* has been read.                                                          *)
(***************************************************************************)
EXTENDS Integers, FiniteSets

CONSTANTS
  MaxKey,    \* handles are 1 .. MaxKey
  Ascending  \* TRUE: handles reach the tree in the order they were given out

ASSUME AvlAssumption == MaxKey \in Nat \ {0} /\ Ascending \in BOOLEAN

Key == 1 .. MaxKey
Null == 0

VARIABLES
  tree,      \* root, left, right, parent, height and crashed
  inserted,  \* the handles for which Insert was called
  removed    \* the handles for which Remove was called

vars == <<tree, inserted, removed>>

NoLinks == [k \in Key |-> Null]
EmptyTree == [root |-> Null, left |-> NoLinks, right |-> NoLinks, parent |-> NoLinks,
              height |-> NoLinks, crashed |-> FALSE]

Crash(T) == [T EXCEPT !.crashed = TRUE]
Height(T, n) == IF n = Null THEN 0 ELSE T.height[n]
Larger(a, b) == IF a > b THEN a ELSE b

\* A store through a child or parent pointer that the code first compares with null.
Link(f, n, v) == IF n = Null THEN f ELSE [f EXCEPT ![n] = v]

UpdateHeight(T, n) ==
  [T EXCEPT !.height[n] = Larger(Height(T, T.left[n]), Height(T, T.right[n])) + 1]

\* Mutant of ReplaceChild: the new child always becomes the left one.
ReplaceLeftChild(T, p, n, m) ==
  [T EXCEPT !.root = IF n = @ THEN m ELSE @,
            !.left = IF p # Null THEN [@ EXCEPT ![p] = m] ELSE @]

\* The children of p with child n replaced by m (the root when p is null).
ReplaceChild(T, p, n, m) ==
  [T EXCEPT !.root = IF n = @ THEN m ELSE @,
            !.left = IF p # Null /\ n = T.left[p] THEN [@ EXCEPT ![p] = m] ELSE @,
            !.right = IF p # Null /\ n # T.left[p] THEN [@ EXCEPT ![p] = m] ELSE @]

\* Mutant of RotateLeft: the height of the node that goes down is not updated.
RotateLeftStaleHeight(T, n) ==
  LET p == T.parent[n]
      r == T.right[n]
      A == ReplaceChild(T, p, n, r)
      B == [A EXCEPT !.right[n] = T.left[r],
                     !.parent = [Link(@, T.left[r], n) EXCEPT ![n] = r, ![r] = p],
                     !.left[r] = n]
  IN IF T.crashed \/ r = Null THEN Crash(T) ELSE UpdateHeight(B, r)

\* Mutant of RotateLeft: the subtree that changes sides keeps its parent.
RotateLeftStaleParent(T, n) ==
  LET p == T.parent[n]
      r == T.right[n]
      A == ReplaceChild(T, p, n, r)
      B == [A EXCEPT !.right[n] = T.left[r],
                     !.parent = [@ EXCEPT ![n] = r, ![r] = p],
                     !.left[r] = n]
  IN IF T.crashed \/ r = Null THEN Crash(T) ELSE UpdateHeight(UpdateHeight(B, n), r)

RotateLeft(T, n) ==
  LET p == T.parent[n]
      r == T.right[n]
      A == ReplaceChild(T, p, n, r)
      B == [A EXCEPT !.right[n] = T.left[r],
                     !.parent = [Link(@, T.left[r], n) EXCEPT ![n] = r, ![r] = p],
                     !.left[r] = n]
  IN IF T.crashed \/ r = Null THEN Crash(T) ELSE UpdateHeight(UpdateHeight(B, n), r)

RotateRight(T, n) ==
  LET p == T.parent[n]
      l == T.left[n]
      A == ReplaceChild(T, p, n, l)
      B == [A EXCEPT !.left[n] = T.right[l],
                     !.parent = [Link(@, T.right[l], n) EXCEPT ![n] = l, ![l] = p],
                     !.right[l] = n]
  IN IF T.crashed \/ l = Null THEN Crash(T) ELSE UpdateHeight(UpdateHeight(B, n), l)

\* The four imbalance patterns at node n with child y on the heavy side:
\* onLeft says which child y is, toRight on which side of y the excess is.
Rotate(T, n, y, onLeft, toRight) ==
  CASE ~onLeft /\ ~toRight -> RotateLeft(RotateRight(T, y), n)
    [] ~onLeft /\ toRight  -> RotateLeft(T, n)
    [] onLeft /\ ~toRight  -> RotateRight(T, n)
    [] onLeft /\ toRight   -> RotateRight(RotateLeft(T, y), n)

Imbalance(T, n) == Height(T, T.left[n]) - Height(T, T.right[n])
InBalance(T, n) == Imbalance(T, n) \in {-1, 0, 1}

\* No loop below takes more rounds, one for each node on the way or rotated.
Rounds == 2 * MaxKey

--------------------------------------------------------------------------------
\* The child of n on the side of k.
Toward(T, n, k) == IF k > n THEN T.right[n] ELSE T.left[n]

\* Search, and SearchNode: down from start, or from the root if that is null.
Search(T, k, start) ==
  LET at[i \in Nat] ==
        IF i = 0 THEN IF start = Null THEN T.root ELSE start
        ELSE LET n == at[i - 1] IN IF n \in {Null, k} THEN n ELSE Toward(T, n, k)
  IN at[Rounds]

\* A round of BalanceNode, for w.k: one node further up, or a rotation, which ends it.
\* w.i counts the nodes, w.last is the one below.
Balance(w) ==
  LET n == w.at
      A == [w.tree EXCEPT !.height[n] = Larger(@, w.i)]
  IN CASE n = Null -> w
       [] n # Null /\ InBalance(A, n) ->
            [w EXCEPT !.tree = A, !.last = n, !.at = A.parent[n], !.i = @ + 1]
       [] OTHER ->
            [w EXCEPT !.tree = Rotate(A, n, w.last, w.last = A.left[n],
                                      Search(A, w.k, A.right[w.last]) # Null),
                      !.at = Null]

BalanceNode(T, k) ==
  LET walk[i \in Nat] ==
        IF i = 0 THEN [tree |-> T, k |-> k, last |-> k, at |-> T.parent[k], i |-> 2]
        ELSE Balance(walk[i - 1])
  IN walk[Rounds].tree

\* The node under which Insert puts k.
LeafFor(T, k) ==
  LET at[i \in Nat] ==
        IF i = 0 THEN T.root
        ELSE LET n == at[i - 1] IN IF Toward(T, n, k) = Null THEN n ELSE Toward(T, n, k)
  IN at[Rounds]

\* The first key becomes the root, whatever the assertion has read at address 0.
InsertKey(T, k) ==
  LET A == [T EXCEPT !.height[k] = 1]
      p == LeafFor(T, k)
      B == IF k > p THEN [A EXCEPT !.right[p] = k, !.parent[k] = p]
                    ELSE [A EXCEPT !.left[p] = k, !.parent[k] = p]
  IN IF T.root = Null THEN [A EXCEPT !.root = k]
     ELSE BalanceNode(UpdateHeight(B, p), k)

--------------------------------------------------------------------------------
\* Successor and Predecessor walk with "near" and "far" the other way round; -1 is the
\* null pointer they go on with.
Extreme(near, far, start) ==
  LET at[i \in Nat] ==
        IF i = 0 THEN start
        ELSE LET n == at[i - 1]
             IN CASE n = -1 -> -1
                  [] n # -1 /\ near[n] # Null -> near[n]
                  [] n # -1 /\ near[n] = Null /\ far[n] = Null -> n
                  [] OTHER -> IF near[far[n]] = Null THEN -1 ELSE near[far[n]]
  IN at[Rounds]

\* Mutant of Successor: the rightmost node of the right subtree.
SuccessorRightmost(T, n) ==
  IF T.right[n] = Null THEN Null ELSE Extreme(T.right, T.left, T.right[n])

Successor(T, n) == IF T.right[n] = Null THEN Null ELSE Extreme(T.left, T.right, T.right[n])
Predecessor(T, n) == IF T.left[n] = Null THEN Null ELSE Extreme(T.right, T.left, T.left[n])

\* The heights of n and its ancestors.
UpdateUp(T, n) ==
  LET walk[i \in Nat] ==
        IF i = 0 THEN [tree |-> T, at |-> n]
        ELSE LET w == walk[i - 1]
             IN IF w.at = Null THEN w
                ELSE [tree |-> UpdateHeight(w.tree, w.at), at |-> w.tree.parent[w.at]]
  IN walk[Rounds].tree

\* The replacement m, a leaf, leaves its parent and takes the links of k.
TakeOver(T, k, m) ==
  LET q == T.parent[m]
      A == IF m = T.right[q] THEN [T EXCEPT !.right[q] = Null] ELSE [T EXCEPT !.left[q] = Null]
      B == UpdateUp(A, q)
  IN UpdateHeight([B EXCEPT !.parent[m] = B.parent[k], !.left[m] = B.left[k],
                            !.right[m] = B.right[k]], m)

\* A round of the climb that follows a removal: a node that is out of balance is
\* rotated, and the climb goes on with the node that is then above it.
Climb(w) ==
  LET T == w.tree
      n == w.at
      onLeft == Imbalance(T, n) > 0
      y == IF onLeft THEN T.left[n] ELSE T.right[n]
      A == IF InBalance(T, n) THEN T ELSE Rotate(T, n, y, onLeft, Imbalance(T, y) <= 0)
  IN IF n = Null \/ T.crashed THEN w ELSE [tree |-> A, at |-> A.parent[n]]

\* From the parent of the removed node to the root.
Rebalance(T, n) ==
  LET walk[i \in Nat] == IF i = 0 THEN [tree |-> T, at |-> n] ELSE Climb(walk[i - 1])
  IN walk[Rounds].tree

\* Also of the last key, after which the assertion reads through a null root.
RemoveKey(T, k) ==
  LET s == Successor(T, k)
      d == Predecessor(T, k)
      m == IF s # Null THEN s ELSE d
      p == T.parent[k]
      A == IF m = Null THEN T ELSE TakeOver(T, k, m)
      B == ReplaceChild(A, p, k, m)
      C == IF p = Null THEN B ELSE UpdateHeight(B, p)
      D == [C EXCEPT !.parent = Link(Link(@, C.left[k], m), C.right[k], m)]
      E == [D EXCEPT !.left[k] = Null, !.right[k] = Null, !.parent[k] = Null, !.height[k] = 0]
  IN IF s = -1 \/ d = -1 THEN Crash(T) ELSE Rebalance(E, p)

--------------------------------------------------------------------------------
AvlInit == tree = EmptyTree /\ inserted = {} /\ removed = {}

Insert(k) ==
  /\ ~tree.crashed
  /\ k \notin inserted
  /\ Ascending => \A j \in inserted : j < k
  /\ tree' = InsertKey(tree, k)
  /\ inserted' = inserted \cup {k}
  /\ UNCHANGED removed

\* Tick removes a task that it has inserted.  If it is not found, a null pointer is used.
Remove(k) ==
  /\ ~tree.crashed
  /\ k \in inserted \ removed
  /\ tree' = IF Search(tree, k, Null) = k THEN RemoveKey(tree, k) ELSE Crash(tree)
  /\ removed' = removed \cup {k}
  /\ UNCHANGED inserted

AvlNext == \E k \in Key : Insert(k) \/ Remove(k)

AvlSpec == AvlInit /\ [][AvlNext]_vars

--------------------------------------------------------------------------------
\* n and what is below it.
NodesBelow(T, n) ==
  LET below[i \in Nat] ==
        IF i = 0 THEN {n} \ {Null}
        ELSE (UNION {{b, T.left[b], T.right[b]} : b \in below[i - 1]}) \ {Null}
  IN below[MaxKey]

Members == NodesBelow(tree, tree.root)

\* Rotations and removals lose no task and bring none back: as long as no null pointer was
\* followed, the tree holds what was inserted and not removed.
TasksKept == ~tree.crashed => Members = inserted \ removed

\* Parent links, along which the heights are updated and the tree balanced, are
\* the inverse of child links, and the root has no parent (algorithm.cpp:158).
ParentsConsistent ==
  /\ tree.root # Null => tree.parent[tree.root] = Null
  /\ \A n \in Members : \A c \in {tree.left[n], tree.right[n]} \ {Null} : tree.parent[c] = n

\* What an AVL tree is, with the heights that are stored.
Balanced ==
  \A n \in Members : /\ InBalance(tree, n)
                     /\ tree.height[n] = 1 + Larger(Height(tree, tree.left[n]),
                                                    Height(tree, tree.right[n]))

\* As long as tasks are only inserted, in the order of their handles, the tree is
\* an AVL tree: stored heights are heights and differ by at most one between the
\* subtrees of a node (algorithm.cpp:81).
BalancedWhileGrowing == Ascending /\ removed = {} => Balanced

\* Keys are in search order, so that Search finds every task in the tree.
\* algorithm.cpp:318: Successor returns the "Successor node".
SearchTree ==
  \A n \in Members : /\ \A k \in NodesBelow(tree, tree.left[n]) : k < n
                     /\ \A k \in NodesBelow(tree, tree.right[n]) : k > n

\* An insertion keeps the search order whatever shape the tree is in, and a removal does
\* if the tree is an AVL tree: only out of balance does Successor miss the successor.
OrderKept == [][SearchTree /\ (removed' = removed \/ Balanced) => SearchTree']_vars
================================================================================
