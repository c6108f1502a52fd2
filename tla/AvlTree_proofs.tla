----------------------------- MODULE AvlTree_proofs -----------------------------
(***************************************************************************)
(* The tree of tasks, for any number of handles, inserted in any order.    *)
(***************************************************************************)
EXTENDS AvlTree, FiniteSetTheorems, WellFoundedInduction, TLAPS

(* Induction on natural numbers, for sets, and what it gives for functions *)
(* that are defined by recursion.                                          *)

\* Every set of natural numbers has a smallest element.
LEMMA Smallest ==
  ASSUME NEW S \in SUBSET Nat, S # {}
  PROVE  \E m \in S : \A n \in S : m <= n
<1> DEFINE R == OpToRel(<, Nat)
<1>1. PICK m \in S : \A n \in S : <<n, m>> \notin R
  BY NatLessThanWellFounded, WFMin
<1>2. \A i, j \in Nat : i < j => <<i, j>> \in R
  BY DEF OpToRel
<1> HIDE DEF R
<1>3. ASSUME NEW n \in S PROVE m <= n
  <2>1. ~(n < m)
    BY <1>1, <1>2
  <2> QED  BY <2>1
<1> QED  BY <1>3

\* So a set that holds 0 and, with a number, the next one holds them all.
LEMMA Induction ==
  ASSUME NEW S, 0 \in S, \A n \in Nat : n \in S => n + 1 \in S
  PROVE  \A n \in Nat : n \in S
<1> SUFFICES ASSUME Nat \ S # {} PROVE FALSE
  OBVIOUS
<1>1. PICK m \in Nat \ S : \A n \in Nat \ S : m <= n
  BY Smallest
<1>2. m # 0 /\ m - 1 \in Nat /\ m - 1 \in S
  BY <1>1
<1> QED  BY <1>1, <1>2

\* A function on Nat can be defined by saying how each value follows from the one before.
Iterates(f, D, f0, s) == f \in [Nat -> D] /\ f[0] = f0 /\ \A n \in Nat : f[n + 1] = s[f[n]]

\* Such a function exists.
LEMMA Recursion ==
  ASSUME NEW D, NEW f0 \in D, NEW s \in [D -> D]
  PROVE  \E f : Iterates(f, D, f0, s)
<1> DEFINE P(n, g) == /\ g \in [0 .. n -> D] /\ g[0] = f0
                      /\ \A i \in 0 .. n - 1 : g[i + 1] = s[g[i]]
<1>1. \A n \in Nat : \E g : P(n, g)
  <2> DEFINE S == {n \in Nat : \E g : P(n, g)}
  <2>1. 0 \in S
    <3>1. P(0, [i \in 0 .. 0 |-> f0])
      OBVIOUS
    <3> QED  BY <3>1
  <2>2. ASSUME NEW n \in Nat, n \in S PROVE n + 1 \in S
    <3>1. PICK g : P(n, g)
      BY <2>2
    <3> DEFINE h == [i \in 0 .. n + 1 |-> IF i = n + 1 THEN s[g[n]] ELSE g[i]]
    <3>2. P(n + 1, h)
      <4>1. h \in [0 .. n + 1 -> D] /\ h[0] = f0
        BY <3>1
      <4>2. ASSUME NEW i \in 0 .. (n + 1) - 1 PROVE h[i + 1] = s[h[i]]
        <5>1. h[i] = g[i] /\ i \in 0 .. n
          OBVIOUS
        <5>2. CASE i = n
          BY <5>1, <5>2
        <5>3. CASE i # n
          BY <5>1, <5>3, <3>1
        <5> QED  BY <5>2, <5>3
      <4> QED  BY <4>1, <4>2
    <3> HIDE DEF h
    <3>3. n + 1 \in Nat
      OBVIOUS
    <3> QED  BY <3>2
  <2> HIDE DEF S
  <2>3. \A n \in Nat : n \in S
    BY <2>1, <2>2, Induction
  <2> QED  BY <2>3 DEF S
<1>2. ASSUME NEW n \in Nat, NEW g, NEW h, P(n, g), P(n + 1, h)
      PROVE  g[n] = h[n]
  <2> DEFINE S == {i \in Nat : i <= n => g[i] = h[i]}
  <2>1. 0 \in S
    BY <1>2
  <2>2. ASSUME NEW i \in Nat, i \in S PROVE i + 1 \in S
    BY <1>2, <2>2
  <2> HIDE DEF S
  <2>3. \A i \in Nat : i \in S
    BY <2>1, <2>2, Induction
  <2> QED  BY <2>3 DEF S
<1> DEFINE G(n) == CHOOSE g : P(n, g)
           f == [n \in Nat |-> G(n)[n]]
<1>3. \A n \in Nat : P(n, G(n))
  BY <1>1
<1> HIDE DEF G
<1>4. f \in [Nat -> D] /\ f[0] = f0
  BY <1>3
<1>5. ASSUME NEW n \in Nat PROVE f[n + 1] = s[f[n]]
  <2>1. G(n)[n] = G(n + 1)[n]
    <3>1. n + 1 \in Nat
      OBVIOUS
    <3> HIDE DEF P
    <3> QED  BY <3>1, <1>2, <1>3
  <2>2. G(n + 1)[n + 1] = s[G(n + 1)[n]]
    BY <1>3
  <2> QED  BY <2>1, <2>2
<1> QED  BY <1>4, <1>5 DEF Iterates

--------------------------------------------------------------------------------
(* The shape of the tree                                                   *)

Node == Key \cup {Null}

\* The types of the fields.
Record == [root : Node, left : [Key -> Node], right : [Key -> Node], parent : [Key -> Node],
           height : [Key -> Nat], crashed : BOOLEAN]

\* Node x has the children near[x] and far[x], and below[x] are x and what is below it.
NodeOK(near, far, parent, S, below, x) ==
  /\ near[x] \in S \cup {Null} /\ far[x] \in S \cup {Null}
  /\ below[x] = {x} \cup below[near[x]] \cup below[far[x]]
  /\ x \notin below[near[x]] /\ x \notin below[far[x]]
  /\ below[near[x]] \cap below[far[x]] = {}
  /\ near[x] # Null => parent[near[x]] = x
  /\ far[x] # Null => parent[far[x]] = x

\* The root is above all nodes, and every other node is a child of its parent.
RootOK(root, near, far, parent, S, below) ==
  /\ root \in S \cup {Null} /\ below[root] = S
  /\ root # Null => parent[root] = Null
  /\ \A x \in S : x # root => parent[x] \in S /\ x \in {near[parent[x]], far[parent[x]]}

\* The nodes of S are a tree.
Shape(root, near, far, parent, S, below) ==
  /\ S \in SUBSET Key /\ root \in Node
  /\ near \in [Key -> Node] /\ far \in [Key -> Node] /\ parent \in [Key -> Node]
  /\ below \in [S \cup {Null} -> SUBSET S] /\ below[Null] = {}
  /\ RootOK(root, near, far, parent, S, below)
  /\ \A x \in S : NodeOK(near, far, parent, S, below, x)

\* What is not in the tree has no links.
Unlinked(T, S) == \A x \in Key \ S : T.left[x] = Null /\ T.right[x] = Null /\ T.parent[x] = Null

Tree(T, S, below) ==
  /\ T \in Record /\ Unlinked(T, S)
  /\ Shape(T.root, T.left, T.right, T.parent, S, below)

\* What is below the near child comes before, what is below the far one after, where up
\* says whether the order is that of the numbers or its reverse.
Before(up, x, y) == IF up THEN x < y ELSE y < x

Ordered(up, near, far, S, below) ==
  \A x \in S : /\ \A y \in below[near[x]] : Before(up, y, x)
              /\ \A y \in below[far[x]] : Before(up, x, y)

\* Keys are numbers, not null, and there are MaxKey of them.
LEMMA KeyFacts == Null \notin Key /\ Key \subseteq Nat /\ IsFiniteSet(Key) /\ Cardinality(Key) = MaxKey
<1>1. MaxKey \in Nat
  BY AvlAssumption
<1> QED  BY <1>1, FS_Interval DEF Key, Null

\* Left and right may be exchanged.
LEMMA Mirrored ==
  ASSUME NEW root, NEW near, NEW far, NEW parent, NEW S, NEW below,
         Shape(root, near, far, parent, S, below)
  PROVE  Shape(root, far, near, parent, S, below)
<1>1. \A x \in S : NodeOK(near, far, parent, S, below, x) => NodeOK(far, near, parent, S, below, x)
  BY DEF NodeOK
<1>2. RootOK(root, far, near, parent, S, below)
  BY DEF Shape, RootOK
<1> QED  BY <1>1, <1>2 DEF Shape

\* The order is then the reverse.
LEMMA MirroredOrder ==
  ASSUME NEW near, NEW far, NEW S, NEW below, NEW up \in BOOLEAN,
         Ordered(up, near, far, S, below)
  PROVE  Ordered(~up, far, near, S, below)
  BY DEF Ordered, Before

\* A child is below its parent, and neither above it nor its brother.
LEMMA Children ==
  ASSUME NEW root, NEW near, NEW far, NEW parent, NEW S, NEW below,
         Shape(root, near, far, parent, S, below), NEW x \in S
  PROVE  /\ x \in Key /\ x # Null /\ x \in below[x]
         /\ near[x] # Null => /\ near[x] \in S /\ near[x] # x /\ near[x] # far[x] /\ near[x] # root
                              /\ parent[near[x]] = x /\ near[x] \in below[near[x]]
         /\ far[x] # Null => /\ far[x] \in S /\ far[x] # x /\ far[x] # near[x] /\ far[x] # root
                             /\ parent[far[x]] = x /\ far[x] \in below[far[x]]
<1>1. x \in Key /\ x # Null
  BY KeyFacts DEF Shape
<1>2. \A y \in S : y \in below[y]
  BY DEF Shape, NodeOK
<1>3. NodeOK(near, far, parent, S, below, x) /\ below[Null] = {}
  BY DEF Shape
<1>4. root # Null => parent[root] = Null
  BY DEF Shape, RootOK
<1> QED  BY <1>1, <1>2, <1>3, <1>4 DEF NodeOK

\* What the shape says, in one piece.
Facts(near, far, parent, S, below) ==
  /\ S \subseteq Key /\ S \subseteq Nat /\ Null \notin S /\ -1 \notin S
  /\ below \in [S \cup {Null} -> SUBSET S] /\ below[Null] = {}
  /\ \A x \in S : /\ near[x] \in S \cup {Null} /\ far[x] \in S \cup {Null}
                  /\ below[x] = {x} \cup below[near[x]] \cup below[far[x]]
                  /\ x \notin below[near[x]] /\ x \notin below[far[x]]
                  /\ below[near[x]] \cap below[far[x]] = {}
                  /\ near[x] # Null => parent[near[x]] = x
                  /\ far[x] # Null => parent[far[x]] = x

\* They follow from the shape.
LEMMA ShapeFacts ==
  ASSUME NEW root, NEW near, NEW far, NEW parent, NEW S, NEW below,
         Shape(root, near, far, parent, S, below)
  PROVE  Facts(near, far, parent, S, below)
<1>1. S \subseteq Key
  BY DEF Shape
<1>2. S \subseteq Nat /\ Null \notin S
  BY <1>1, KeyFacts
<1>3. -1 \notin Nat
  OBVIOUS
<1>4. -1 \notin S
  BY <1>2, <1>3
<1> QED  BY <1>1, <1>2, <1>4 DEF Shape, NodeOK, Facts

--------------------------------------------------------------------------------
(* Rotations                                                               *)

\* n goes down to the near side, and its far child takes its place.
Turned(root, near, far, parent, n, root2, near2, far2, parent2) ==
  LET r == far[n]
      a == near[r]
      p == parent[n]
  IN /\ root2 = IF n = root THEN r ELSE root
     /\ near2 = [x \in Key |-> IF x = r THEN n ELSE IF x = p /\ near[p] = n THEN r ELSE near[x]]
     /\ far2 = [x \in Key |-> IF x = n THEN a ELSE IF x = p /\ far[p] = n THEN r ELSE far[x]]
     /\ parent2 = [x \in Key |-> IF x = r THEN p ELSE IF x = n THEN r ELSE IF x = a THEN n
                                 ELSE parent[x]]

\* What is below each node then.
BelowTurned(near, far, below, n) ==
  [below EXCEPT ![n] = {n} \cup below[near[n]] \cup below[near[far[n]]], ![far[n]] = below[n]]

\* A rotation keeps the shape and the order, whichever way it goes.
LEMMA TurnedShape ==
  ASSUME NEW root, NEW near, NEW far, NEW parent, NEW S, NEW below,
         Shape(root, near, far, parent, S, below), NEW n \in S, far[n] # Null,
         NEW root2, NEW near2, NEW far2, NEW parent2,
         Turned(root, near, far, parent, n, root2, near2, far2, parent2), NEW up \in BOOLEAN
  PROVE  /\ Shape(root2, near2, far2, parent2, S, BelowTurned(near, far, below, n))
         /\ Ordered(up, near, far, S, below)
              => Ordered(up, near2, far2, S, BelowTurned(near, far, below, n))
<1> DEFINE r == far[n]
           a == near[r]
           b == far[r]
           l == near[n]
           p == parent[n]
           below2 == BelowTurned(near, far, below, n)
<1>1. /\ S \subseteq Key /\ Null \notin Key
      /\ near \in [Key -> Node] /\ far \in [Key -> Node] /\ parent \in [Key -> Node]
      /\ below \in [S \cup {Null} -> SUBSET S] /\ below[Null] = {}
  BY KeyFacts DEF Shape
<1>2. /\ n \in Key /\ n # Null /\ n \in below[n] /\ r \in S /\ r # n /\ r # l
      /\ parent[r] = n /\ r # root /\ r # Null /\ r \in below[r]
      /\ l \in S \cup {Null} /\ (l # Null => l # n /\ parent[l] = n)
  <2>1. /\ n \in Key /\ n # Null /\ n \in below[n] /\ r \in S /\ r # n /\ r # l
        /\ parent[r] = n /\ r # root /\ r \in below[r] /\ (l # Null => l # n /\ parent[l] = n)
    BY Children
  <2>2. l \in S \cup {Null}
    BY DEF Shape, NodeOK
  <2> QED  BY <2>1, <2>2
<1>3. /\ a \in S \cup {Null} /\ b \in S \cup {Null}
      /\ a # Null => a # r /\ a # b /\ parent[a] = r /\ a \in below[a]
      /\ b # Null => b # r /\ parent[b] = r /\ b \in below[b]
  BY <1>2, Children DEF Shape, NodeOK
<1>4. /\ NodeOK(near, far, parent, S, below, n) /\ NodeOK(near, far, parent, S, below, r)
      /\ RootOK(root, near, far, parent, S, below)
  BY <1>2 DEF Shape
<1>5. a # n /\ b # n
  BY <1>2, <1>3, <1>4 DEF NodeOK
<1>6. /\ n # root => p \in S /\ p # n /\ p # r /\ n \in {near[p], far[p]} /\ p # Null
      /\ n = root => p = Null
  <2>1. n = root => p = Null
    BY <1>2, <1>4 DEF RootOK
  <2>2. CASE n # root
    <3>1. p \in S /\ n \in {near[p], far[p]}
      BY <1>4, <2>2 DEF RootOK
    <3>2. p # n
      BY <1>2, <3>1
    <3>3. p # r
      BY <1>2, <1>5, <3>1
    <3> QED  BY <2>2, <3>1, <3>2, <3>3, <1>1
  <2> QED  BY <2>1, <2>2
<1>7. /\ root2 = IF n = root THEN r ELSE root
      /\ near2 \in [Key -> Node] /\ far2 \in [Key -> Node] /\ parent2 \in [Key -> Node]
      /\ \A x \in Key :
           /\ near2[x] = IF x = r THEN n ELSE IF x = p /\ near[p] = n THEN r ELSE near[x]
           /\ far2[x] = IF x = n THEN a ELSE IF x = p /\ far[p] = n THEN r ELSE far[x]
           /\ parent2[x] = IF x = r THEN p ELSE IF x = n THEN r ELSE IF x = a THEN n ELSE parent[x]
  BY <1>1, <1>2, <1>3 DEF Turned, Node
<1>8. /\ below2 \in [S \cup {Null} -> SUBSET S] /\ below2[Null] = {}
      /\ below2[n] = {n} \cup below[l] \cup below[a] /\ below2[r] = below[n]
      /\ \A x \in S \cup {Null} : x # n /\ x # r => below2[x] = below[x]
  BY <1>1, <1>2, <1>3 DEF BelowTurned
<1>9. below[n] = {n} \cup below[l] \cup below[r] /\ below[r] = {r} \cup below[a] \cup below[b]
      /\ n \notin below[l] /\ n \notin below[r] /\ r \notin below[a] /\ r \notin below[b]
      /\ below[l] \cap below[r] = {} /\ below[a] \cap below[b] = {}
  BY <1>4 DEF NodeOK
<1> HIDE DEF r, a, b, l, p, below2
<1>10. /\ NodeOK(near2, far2, parent2, S, below2, n)
       /\ below2[near2[n]] = below[l] /\ below2[far2[n]] = below[a]
  <2>1. near2[n] = l /\ far2[n] = a
    BY <1>2, <1>6, <1>7, <1>1 DEF l
  <2>2. (l # Null => parent2[l] = n) /\ (a # Null => parent2[a] = n)
    BY <1>1, <1>2, <1>3, <1>5, <1>7
  <2>3. below2[l] = below[l] /\ below2[a] = below[a]
    BY <1>1, <1>2, <1>3, <1>5, <1>8
  <2>4. NodeOK(near2, far2, parent2, S, below2, n)
    BY <1>2, <1>3, <1>8, <1>9, <2>1, <2>2, <2>3 DEF NodeOK
  <2> QED  BY <2>1, <2>3, <2>4
<1>11. /\ NodeOK(near2, far2, parent2, S, below2, r)
       /\ below2[near2[r]] = below2[n] /\ below2[far2[r]] = below[b]
  <2>1. near2[r] = n /\ far2[r] = b
    BY <1>1, <1>2, <1>6, <1>7 DEF b
  <2>2. parent2[n] = r /\ (b # Null => parent2[b] = r)
    BY <1>1, <1>2, <1>3, <1>5, <1>7
  <2>3. below2[b] = below[b]
    BY <1>1, <1>2, <1>3, <1>5, <1>8
  <2>4. NodeOK(near2, far2, parent2, S, below2, r)
    BY <1>2, <1>3, <1>8, <1>9, <2>1, <2>2, <2>3 DEF NodeOK
  <2> QED  BY <2>1, <2>3, <2>4
<1>12. ASSUME NEW x \in S, x # n, x # r
       PROVE  /\ NodeOK(near2, far2, parent2, S, below2, x)
              /\ below2[near2[x]] = below[near[x]] /\ below2[far2[x]] = below[far[x]]
  <2>1. NodeOK(near, far, parent, S, below, x) /\ x \in Key
    BY <1>1 DEF Shape
  <2>2. ASSUME NEW c \in S, c \in {near[x], far[x]}
        PROVE  /\ parent[c] = x /\ c # r /\ (c = n => x = p)
               /\ c # n => c # a /\ parent2[c] = x /\ below2[c] = below[c]
    BY <1>1, <1>2, <1>3, <1>7, <1>8, <1>12, <2>1, <2>2 DEF NodeOK, p
  <2>3. CASE x # p
    <3>1. near2[x] = near[x] /\ far2[x] = far[x]
      BY <1>7, <1>12, <2>1, <2>3
    <3>2. near[x] # n /\ far[x] # n
      <4>1. near[x] \in S \cup {Null} /\ far[x] \in S \cup {Null}
        BY <2>1 DEF NodeOK
      <4> QED  BY <1>2, <2>2, <2>3, <4>1
    <3>3. below2[near[x]] = below[near[x]] /\ below2[far[x]] = below[far[x]] /\ below2[x] = below[x]
      <4>1. near[x] \in S \cup {Null} /\ far[x] \in S \cup {Null}
        BY <2>1 DEF NodeOK
      <4> QED  BY <1>1, <1>8, <1>12, <2>2, <3>2, <4>1
    <3>4. NodeOK(near2, far2, parent2, S, below2, x)
      BY <1>1, <2>1, <2>2, <3>1, <3>2, <3>3 DEF NodeOK
    <3> QED  BY <3>1, <3>3, <3>4
  <2>4. CASE x = p
    <3>1. n # root /\ x # Null
      BY <1>1, <1>6, <2>1, <2>4
    <3>2. near[x] = far[x] => near[x] = Null
      BY Children
    <3>3. parent2[r] = x /\ below2[r] = below[n]
      BY <1>1, <1>2, <1>7, <1>8, <2>4
    <3>4. CASE near[x] = n
      <4>1. near2[x] = r /\ far2[x] = far[x] /\ far[x] # n
        BY <1>2, <1>7, <1>12, <2>1, <2>4, <3>2, <3>4
      <4> QED  BY <1>1, <1>2, <1>8, <1>12, <2>1, <2>2, <3>3, <3>4, <4>1 DEF NodeOK
    <3>5. CASE far[x] = n
      <4>1. far2[x] = r /\ near2[x] = near[x] /\ near[x] # n
        BY <1>2, <1>7, <1>12, <2>1, <2>4, <3>2, <3>5
      <4> QED  BY <1>1, <1>2, <1>8, <1>12, <2>1, <2>2, <3>3, <3>5, <4>1 DEF NodeOK
    <3> QED  BY <1>6, <2>4, <3>1, <3>4, <3>5
  <2> QED  BY <2>3, <2>4
<1>13. RootOK(root2, near2, far2, parent2, S, below2)
  <2>1. root2 \in S \cup {Null} /\ below2[root2] = S
    BY <1>2, <1>4, <1>7, <1>8 DEF RootOK
  <2>2. root2 # Null => parent2[root2] = Null
    BY <1>1, <1>2, <1>3, <1>4, <1>6, <1>7 DEF RootOK
  <2>3. ASSUME NEW x \in S, x # root2
        PROVE  parent2[x] \in S /\ x \in {near2[parent2[x]], far2[parent2[x]]}
    <3>1. CASE x = n
      BY <1>1, <1>2, <1>6, <1>7, <3>1
    <3>2. CASE x = r
      BY <1>1, <1>2, <1>6, <1>7, <2>3, <3>2
    <3>3. CASE x = a /\ x # n /\ x # r
      BY <1>1, <1>2, <1>6, <1>7, <3>3
    <3>4. CASE x # a /\ x # n /\ x # r
      <4>1. x # root
        BY <1>7, <2>3, <3>4
      <4>2. parent[x] \in S /\ x \in {near[parent[x]], far[parent[x]]} /\ parent2[x] = parent[x]
        BY <1>1, <1>4, <1>7, <3>4, <4>1 DEF RootOK
      <4>3. parent[x] = n => x = l
        BY <3>4, <4>2 DEF l, r
      <4>4. parent[x] = r => x = b
        BY <3>4, <4>2 DEF a, b
      <4> QED  BY <1>1, <1>2, <1>3, <1>6, <1>7, <3>4, <4>2, <4>3, <4>4 DEF l, b
    <3> QED  BY <3>1, <3>2, <3>3, <3>4
  <2> QED  BY <2>1, <2>2, <2>3 DEF RootOK
<1>14. root2 \in Node
  BY <1>1, <1>2, <1>7 DEF Shape, Node
<1>15. ASSUME Ordered(up, near, far, S, below) PROVE Ordered(up, near2, far2, S, below2)
  <2>1. /\ \A y \in below[l] : Before(up, y, n)
        /\ \A y \in below[r] : Before(up, n, y)
        /\ \A y \in below[a] : Before(up, y, r)
        /\ \A y \in below[b] : Before(up, r, y)
    BY <1>2, <1>15 DEF Ordered, l, r, a, b
  <2>2. \A y \in below[l] : Before(up, y, r)
    <3>1. below[l] \subseteq Nat /\ n \in Nat /\ r \in Nat
      BY <1>1, <1>2, KeyFacts
    <3> QED  BY <1>2, <2>1, <3>1 DEF Before
  <2>3. /\ \A y \in below2[near2[n]] : Before(up, y, n)
        /\ \A y \in below2[far2[n]] : Before(up, n, y)
    BY <1>9, <1>10, <2>1
  <2>4. /\ \A y \in below2[near2[r]] : Before(up, y, r)
        /\ \A y \in below2[far2[r]] : Before(up, r, y)
    BY <1>2, <1>8, <1>11, <2>1, <2>2
  <2>5. ASSUME NEW x \in S, x # n, x # r
        PROVE  /\ \A y \in below2[near2[x]] : Before(up, y, x)
               /\ \A y \in below2[far2[x]] : Before(up, x, y)
    BY <1>12, <1>15, <2>5 DEF Ordered
  <2> QED  BY <2>3, <2>4, <2>5 DEF Ordered
<1> QED  BY <1>1, <1>7, <1>8, <1>10, <1>11, <1>12, <1>13, <1>14, <1>15 DEF Shape, below2

\* U has the links of T.
SameLinks(T, U) ==
  /\ T \in Record /\ U \in Record
  /\ U.root = T.root /\ U.left = T.left /\ U.right = T.right /\ U.parent = T.parent

IsTree(T, S, o) ==
  \E below : Tree(T, S, below) /\ (o => Ordered(TRUE, T.left, T.right, S, below))

\* A tree is one whatever its heights are.
LEMMA SameTree ==
  ASSUME NEW T, NEW U, NEW S, NEW o, IsTree(T, S, o), SameLinks(T, U)
  PROVE  IsTree(U, S, o)
<1>1. PICK below : Tree(T, S, below) /\ (o => Ordered(TRUE, T.left, T.right, S, below))
  BY DEF IsTree
<1>2. Unlinked(U, S)
  BY <1>1 DEF Tree, Unlinked, SameLinks
<1>3. Tree(U, S, below) /\ (o => Ordered(TRUE, U.left, U.right, S, below))
  BY <1>1, <1>2 DEF Tree, SameLinks
<1> QED  BY <1>3 DEF IsTree

\* Steps that keep all links compose.
LEMMA LinksCompose ==
  ASSUME NEW T, NEW U, NEW V, SameLinks(T, U), SameLinks(U, V)
  PROVE  SameLinks(T, V)
  BY DEF SameLinks

\* To follow a null pointer changes no link.
LEMMA CrashKeeps ==
  ASSUME NEW T \in Record
  PROVE  SameLinks(T, Crash(T)) /\ Crash(T).crashed
  BY DEF Record, Crash, SameLinks

\* UpdateHeight changes the height of n and no link.
LEMMA HeightKeeps ==
  ASSUME NEW T \in Record, NEW n \in Key
  PROVE  /\ SameLinks(T, UpdateHeight(T, n)) /\ UpdateHeight(T, n).crashed = T.crashed
         /\ UpdateHeight(T, n).height
              = [T.height EXCEPT ![n] = Larger(Height(T, T.left[n]), Height(T, T.right[n])) + 1]
<1> DEFINE h == Larger(Height(T, T.left[n]), Height(T, T.right[n])) + 1
<1>1. Height(T, T.left[n]) \in Nat /\ Height(T, T.right[n]) \in Nat
  BY DEF Height, Record, Node
<1>2. h \in Nat
  BY <1>1 DEF Larger
<1> HIDE DEF h
<1>3. UpdateHeight(T, n) = [T EXCEPT !.height[n] = h]
  BY DEF UpdateHeight, h
<1>4. SameLinks(T, UpdateHeight(T, n)) /\ UpdateHeight(T, n).crashed = T.crashed
  BY <1>2, <1>3 DEF Record, SameLinks
<1>5. UpdateHeight(T, n).height = [T.height EXCEPT ![n] = h]
  BY <1>3 DEF Record
<1> QED  BY <1>4, <1>5 DEF h

\* The record that a rotation leaves before it updates the heights.
LeftTurned(T, n) ==
  LET p == T.parent[n]
      r == T.right[n]
      A == ReplaceChild(T, p, n, r)
  IN [A EXCEPT !.right[n] = T.left[r],
               !.parent = [Link(@, T.left[r], n) EXCEPT ![n] = r, ![r] = p],
               !.left[r] = n]

RightTurned(T, n) ==
  LET p == T.parent[n]
      l == T.left[n]
      A == ReplaceChild(T, p, n, l)
  IN [A EXCEPT !.left[n] = T.right[l],
               !.parent = [Link(@, T.right[l], n) EXCEPT ![n] = l, ![l] = p],
               !.right[l] = n]

\* The links after a rotation to the left are those of Turned.
LEMMA LeftTurnedLinks ==
  ASSUME NEW T, NEW S, NEW below, Tree(T, S, below), NEW n \in S, T.right[n] # Null
  PROVE  LET U == LeftTurned(T, n)
         IN /\ U \in Record /\ U.crashed = T.crashed /\ U.height = T.height
            /\ Turned(T.root, T.left, T.right, T.parent, n, U.root, U.left, U.right, U.parent)
<1> DEFINE p == T.parent[n]
           r == T.right[n]
           a == T.left[r]
           A == ReplaceChild(T, p, n, r)
           par == [Link(T.parent, a, n) EXCEPT ![n] = r, ![r] = p]
           U == LeftTurned(T, n)
<1>1. T \in Record /\ Shape(T.root, T.left, T.right, T.parent, S, below)
  BY DEF Tree
<1>2. n \in Key /\ r \in Key /\ r # n /\ n # Null /\ r # Null /\ T.parent[r] = n
  <2>1. r \in S /\ r # n /\ T.parent[r] = n
    BY <1>1, Children
  <2>2. S \subseteq Key
    BY <1>1 DEF Shape
  <2> QED  BY <2>1, <2>2, KeyFacts
<1>3. p \in Node /\ a \in Node /\ (p # Null => p \in S /\ n \in {T.left[p], T.right[p]})
  <2>1. T.parent[n] \in Node /\ T.left[r] \in Node
    BY <1>1, <1>2 DEF Record
  <2>2. n # T.root => p \in S /\ n \in {T.left[p], T.right[p]}
    BY <1>1 DEF Shape, RootOK
  <2>3. n = T.root => p = Null
    BY <1>1, <1>2 DEF Shape, RootOK
  <2> QED  BY <2>1, <2>2, <2>3
<1>4. a # Null => a # n /\ a # r
  <2>1. a # Null => T.parent[a] = r /\ a # r
    BY <1>1, <1>2, Children DEF Shape, NodeOK
  <2>2. a = n /\ a # Null => FALSE
    <3>1. NodeOK(T.left, T.right, T.parent, S, below, n) /\ NodeOK(T.left, T.right, T.parent, S, below, r)
      BY <1>1, <1>2 DEF Shape, NodeOK
    <3>2. n \in below[n]
      BY <3>1 DEF NodeOK
    <3> QED  BY <3>1, <3>2 DEF NodeOK
  <2> QED  BY <2>1, <2>2
<1>5. /\ A \in Record /\ A.crashed = T.crashed /\ A.height = T.height /\ A.parent = T.parent
      /\ A.root = IF n = T.root THEN r ELSE T.root
      /\ A.left = [x \in Key |-> IF x = p /\ T.left[p] = n THEN r ELSE T.left[x]]
      /\ A.right = [x \in Key |-> IF x = p /\ T.left[p] # n THEN r ELSE T.right[x]]
  <2> DEFINE ro == IF n = T.root THEN r ELSE T.root
             le == IF p # Null /\ n = T.left[p] THEN [T.left EXCEPT ![p] = r] ELSE T.left
             ri == IF p # Null /\ n # T.left[p] THEN [T.right EXCEPT ![p] = r] ELSE T.right
  <2>1. /\ T.left \in [Key -> Node] /\ T.right \in [Key -> Node] /\ T.root \in Node
        /\ r \in Node /\ (p # Null => p \in Key) /\ Null \notin Key
    BY <1>1, <1>2, <1>3, KeyFacts DEF Record, Node
  <2>2. ro \in Node /\ le \in [Key -> Node] /\ ri \in [Key -> Node]
    BY <2>1
  <2>3. /\ le = [x \in Key |-> IF x = p /\ T.left[p] = n THEN r ELSE T.left[x]]
        /\ ri = [x \in Key |-> IF x = p /\ T.left[p] # n THEN r ELSE T.right[x]]
    BY <2>1
  <2>4. A = [T EXCEPT !.root = ro, !.left = le, !.right = ri]
    BY <1>1 DEF ReplaceChild, Record
  <2> HIDE DEF A, ro, le, ri
  <2>5. /\ A \in Record /\ A.crashed = T.crashed /\ A.height = T.height /\ A.parent = T.parent
        /\ A.root = ro /\ A.left = le /\ A.right = ri
    BY <1>1, <2>2, <2>4 DEF Record
  <2> QED  BY <2>3, <2>5 DEF ro
<1>6. /\ par \in [Key -> Node]
      /\ par = [x \in Key |-> IF x = r THEN p ELSE IF x = n THEN r ELSE IF x = a THEN n
                              ELSE T.parent[x]]
  <2>1. T.parent \in [Key -> Node] /\ n \in Node /\ r \in Node /\ (a # Null => a \in Key)
        /\ Null \notin Key
    BY <1>1, <1>2, <1>3, KeyFacts DEF Record, Node
  <2>2. Link(T.parent, a, n) = [x \in Key |-> IF x = a THEN n ELSE T.parent[x]]
    BY <2>1 DEF Link
  <2>3. par = [x \in Key |-> IF x = r THEN p ELSE IF x = n THEN r ELSE IF x = a THEN n
                             ELSE T.parent[x]]
    BY <1>2, <2>2
  <2> HIDE DEF par
  <2> QED  BY <1>3, <2>1, <2>3
<1> HIDE DEF A, par
<1>7. U = [A EXCEPT !.right[n] = a, !.parent = par, !.left[r] = n]
  BY <1>5 DEF LeftTurned, A, par
<1>8. /\ U \in Record /\ U.crashed = T.crashed /\ U.height = T.height /\ U.parent = par
      /\ U.root = A.root /\ U.left = [A.left EXCEPT ![r] = n] /\ U.right = [A.right EXCEPT ![n] = a]
  <2> DEFINE ne == [A.left EXCEPT ![r] = n]
             fa == [A.right EXCEPT ![n] = a]
  <2>1. ne \in [Key -> Node] /\ fa \in [Key -> Node]
    BY <1>2, <1>3, <1>5 DEF Record, Node
  <2>2. U = [A EXCEPT !.right = fa, !.parent = par, !.left = ne]
    BY <1>5, <1>7 DEF Record
  <2> HIDE DEF U, ne, fa
  <2>3. /\ U \in Record /\ U.crashed = A.crashed /\ U.height = A.height /\ U.parent = par
        /\ U.root = A.root /\ U.left = ne /\ U.right = fa
    BY <1>5, <1>6, <2>1, <2>2 DEF Record
  <2> QED  BY <1>5, <2>3 DEF ne, fa
<1>9. p \in Key => (T.left[p] # n <=> T.right[p] = n)
  <2>1. p \in Key => p # Null
    BY KeyFacts
  <2>2. p \in S => ~(T.left[p] = n /\ T.right[p] = n)
    BY <1>1, <1>2, Children
  <2> QED  BY <1>3, <2>1, <2>2
<1>10. U.left = [x \in Key |-> IF x = r THEN n ELSE IF x = p /\ T.left[p] = n THEN r ELSE T.left[x]]
  BY <1>5, <1>8
<1>11. U.right = [x \in Key |-> IF x = n THEN a ELSE IF x = p /\ T.right[p] = n THEN r ELSE T.right[x]]
  BY <1>5, <1>8, <1>9
<1> QED  BY <1>5, <1>6, <1>8, <1>10, <1>11 DEF Turned

\* So are those after a rotation to the right, mirrored.
LEMMA RightTurnedLinks ==
  ASSUME NEW T, NEW S, NEW below, Tree(T, S, below), NEW n \in S, T.left[n] # Null
  PROVE  LET U == RightTurned(T, n)
         IN /\ U \in Record /\ U.crashed = T.crashed /\ U.height = T.height
            /\ Turned(T.root, T.right, T.left, T.parent, n, U.root, U.right, U.left, U.parent)
<1> DEFINE p == T.parent[n]
           r == T.left[n]
           a == T.right[r]
           A == ReplaceChild(T, p, n, r)
           par == [Link(T.parent, a, n) EXCEPT ![n] = r, ![r] = p]
           U == RightTurned(T, n)
<1>1. T \in Record /\ Shape(T.root, T.left, T.right, T.parent, S, below)
  BY DEF Tree
<1>2. n \in Key /\ r \in Key /\ r # n /\ n # Null /\ r # Null /\ T.parent[r] = n
  <2>1. r \in S /\ r # n /\ T.parent[r] = n
    BY <1>1, Children
  <2>2. S \subseteq Key
    BY <1>1 DEF Shape
  <2> QED  BY <2>1, <2>2, KeyFacts
<1>3. p \in Node /\ a \in Node /\ (p # Null => p \in S /\ n \in {T.left[p], T.right[p]})
  <2>1. T.parent[n] \in Node /\ T.right[r] \in Node
    BY <1>1, <1>2 DEF Record
  <2>2. n # T.root => p \in S /\ n \in {T.left[p], T.right[p]}
    BY <1>1 DEF Shape, RootOK
  <2>3. n = T.root => p = Null
    BY <1>1, <1>2 DEF Shape, RootOK
  <2> QED  BY <2>1, <2>2, <2>3
<1>4. a # Null => a # n /\ a # r
  <2>1. a # Null => T.parent[a] = r /\ a # r
    BY <1>1, <1>2, Children DEF Shape, NodeOK
  <2>2. a = n /\ a # Null => FALSE
    <3>1. NodeOK(T.left, T.right, T.parent, S, below, n) /\ NodeOK(T.left, T.right, T.parent, S, below, r)
      BY <1>1, <1>2 DEF Shape, NodeOK
    <3>2. n \in below[n]
      BY <3>1 DEF NodeOK
    <3> QED  BY <3>1, <3>2 DEF NodeOK
  <2> QED  BY <2>1, <2>2
<1>5. /\ A \in Record /\ A.crashed = T.crashed /\ A.height = T.height /\ A.parent = T.parent
      /\ A.root = IF n = T.root THEN r ELSE T.root
      /\ A.left = [x \in Key |-> IF x = p /\ T.left[p] = n THEN r ELSE T.left[x]]
      /\ A.right = [x \in Key |-> IF x = p /\ T.left[p] # n THEN r ELSE T.right[x]]
  <2> DEFINE ro == IF n = T.root THEN r ELSE T.root
             le == IF p # Null /\ n = T.left[p] THEN [T.left EXCEPT ![p] = r] ELSE T.left
             ri == IF p # Null /\ n # T.left[p] THEN [T.right EXCEPT ![p] = r] ELSE T.right
  <2>1. /\ T.left \in [Key -> Node] /\ T.right \in [Key -> Node] /\ T.root \in Node
        /\ r \in Node /\ (p # Null => p \in Key) /\ Null \notin Key
    BY <1>1, <1>2, <1>3, KeyFacts DEF Record, Node
  <2>2. ro \in Node /\ le \in [Key -> Node] /\ ri \in [Key -> Node]
    BY <2>1
  <2>3. /\ le = [x \in Key |-> IF x = p /\ T.left[p] = n THEN r ELSE T.left[x]]
        /\ ri = [x \in Key |-> IF x = p /\ T.left[p] # n THEN r ELSE T.right[x]]
    BY <2>1
  <2>4. A = [T EXCEPT !.root = ro, !.left = le, !.right = ri]
    BY <1>1 DEF ReplaceChild, Record
  <2> HIDE DEF A, ro, le, ri
  <2>5. /\ A \in Record /\ A.crashed = T.crashed /\ A.height = T.height /\ A.parent = T.parent
        /\ A.root = ro /\ A.left = le /\ A.right = ri
    BY <1>1, <2>2, <2>4 DEF Record
  <2> QED  BY <2>3, <2>5 DEF ro
<1>6. /\ par \in [Key -> Node]
      /\ par = [x \in Key |-> IF x = r THEN p ELSE IF x = n THEN r ELSE IF x = a THEN n
                              ELSE T.parent[x]]
  <2>1. T.parent \in [Key -> Node] /\ n \in Node /\ r \in Node /\ (a # Null => a \in Key)
        /\ Null \notin Key
    BY <1>1, <1>2, <1>3, KeyFacts DEF Record, Node
  <2>2. Link(T.parent, a, n) = [x \in Key |-> IF x = a THEN n ELSE T.parent[x]]
    BY <2>1 DEF Link
  <2>3. par = [x \in Key |-> IF x = r THEN p ELSE IF x = n THEN r ELSE IF x = a THEN n
                             ELSE T.parent[x]]
    BY <1>2, <2>2
  <2> HIDE DEF par
  <2> QED  BY <1>3, <2>1, <2>3
<1> HIDE DEF A, par
<1>7. U = [A EXCEPT !.left[n] = a, !.parent = par, !.right[r] = n]
  BY <1>5 DEF RightTurned, A, par
<1>8. /\ U \in Record /\ U.crashed = T.crashed /\ U.height = T.height /\ U.parent = par
      /\ U.root = A.root /\ U.right = [A.right EXCEPT ![r] = n] /\ U.left = [A.left EXCEPT ![n] = a]
  <2> DEFINE ne == [A.right EXCEPT ![r] = n]
             fa == [A.left EXCEPT ![n] = a]
  <2>1. ne \in [Key -> Node] /\ fa \in [Key -> Node]
    BY <1>2, <1>3, <1>5 DEF Record, Node
  <2>2. U = [A EXCEPT !.left = fa, !.parent = par, !.right = ne]
    BY <1>5, <1>7 DEF Record
  <2> HIDE DEF U, ne, fa
  <2>3. /\ U \in Record /\ U.crashed = A.crashed /\ U.height = A.height /\ U.parent = par
        /\ U.root = A.root /\ U.right = ne /\ U.left = fa
    BY <1>5, <1>6, <2>1, <2>2 DEF Record
  <2> QED  BY <1>5, <2>3 DEF ne, fa
<1>9. p \in Key => (T.left[p] # n <=> T.right[p] = n)
  <2>1. p \in Key => p # Null
    BY KeyFacts
  <2>2. p \in S => ~(T.left[p] = n /\ T.right[p] = n)
    BY <1>1, <1>2, Children
  <2> QED  BY <1>3, <2>1, <2>2
<1>10. U.right = [x \in Key |-> IF x = r THEN n ELSE IF x = p /\ T.right[p] = n THEN r ELSE T.right[x]]
  BY <1>5, <1>8, <1>9
<1>11. U.left = [x \in Key |-> IF x = n THEN a ELSE IF x = p /\ T.left[p] = n THEN r ELSE T.left[x]]
  BY <1>5, <1>8
<1> QED  BY <1>5, <1>6, <1>8, <1>10, <1>11 DEF Turned

\* A rotation leaves a tree on the same nodes, in the same order.
LEMMA RotatedLeft ==
  ASSUME NEW T, NEW S, NEW below, Tree(T, S, below), NEW n \in S, T.right[n] # Null,
         ~T.crashed
  PROVE  LET U == LeftTurned(T, n)
             V == RotateLeft(T, n)
             below2 == BelowTurned(T.left, T.right, below, n)
         IN /\ V = UpdateHeight(UpdateHeight(U, n), T.right[n])
            /\ SameLinks(U, V) /\ Tree(V, S, below2)
            /\ Ordered(TRUE, T.left, T.right, S, below) => Ordered(TRUE, V.left, V.right, S, below2)
<1> DEFINE U == LeftTurned(T, n)
           V == RotateLeft(T, n)
           r == T.right[n]
           below2 == BelowTurned(T.left, T.right, below, n)
<1>1. V = UpdateHeight(UpdateHeight(U, n), r)
  BY DEF RotateLeft, LeftTurned
<1>2. /\ T \in Record /\ Unlinked(T, S) /\ Shape(T.root, T.left, T.right, T.parent, S, below)
      /\ n \in Key /\ r \in Key /\ r \in S
  <2>1. T \in Record /\ Unlinked(T, S) /\ Shape(T.root, T.left, T.right, T.parent, S, below)
    BY DEF Tree
  <2>2. r \in S
    BY <2>1, Children
  <2>3. S \subseteq Key
    BY <2>1 DEF Shape
  <2> QED  BY <2>1, <2>2, <2>3
<1>3. /\ U \in Record
      /\ Turned(T.root, T.left, T.right, T.parent, n, U.root, U.left, U.right, U.parent)
  BY LeftTurnedLinks
<1> HIDE DEF U, r
<1>4. SameLinks(U, V)
  <2>1. SameLinks(U, UpdateHeight(U, n))
    BY <1>2, <1>3, HeightKeeps
  <2>2. UpdateHeight(U, n) \in Record
    BY <2>1 DEF SameLinks
  <2>3. SameLinks(UpdateHeight(U, n), V)
    BY <1>1, <1>2, <2>2, HeightKeeps
  <2> QED  BY <2>1, <2>3, LinksCompose
<1>5. /\ Shape(U.root, U.left, U.right, U.parent, S, below2)
      /\ Ordered(TRUE, T.left, T.right, S, below) => Ordered(TRUE, U.left, U.right, S, below2)
  BY <1>2, <1>3, TurnedShape
<1> HIDE DEF V, below2
<1>6. Unlinked(V, S)
  <2> SUFFICES ASSUME NEW x \in Key \ S
               PROVE  V.left[x] = Null /\ V.right[x] = Null /\ V.parent[x] = Null
    BY DEF Unlinked
  <2>1. x # n /\ x # r /\ x \in Key
    BY <1>2
  <2>2. x # T.parent[n]
    <3>1. n # T.root => T.parent[n] \in S
      BY <1>2 DEF Shape, RootOK
    <3>2. n = T.root => T.parent[n] = Null
      BY <1>2, KeyFacts DEF Shape, RootOK
    <3> QED  BY <3>1, <3>2, KeyFacts
  <2>3. x # T.left[r]
    <3>1. T.left[r] \in S \cup {Null}
      BY <1>2 DEF Shape, NodeOK
    <3> QED  BY <3>1, KeyFacts
  <2>4. U.left[x] = T.left[x] /\ U.right[x] = T.right[x] /\ U.parent[x] = T.parent[x]
    BY <1>3, <2>1, <2>2, <2>3 DEF Turned, r
  <2> QED  BY <1>2, <1>4, <2>4 DEF Unlinked, SameLinks
<1>7. Tree(V, S, below2)
  BY <1>4, <1>5, <1>6 DEF Tree, SameLinks
<1>8. V.left = U.left /\ V.right = U.right
  BY <1>4 DEF SameLinks
<1> QED  BY <1>1, <1>4, <1>5, <1>7, <1>8 DEF U, V, r, below2

\* And what RotateRight does.
LEMMA RotatedRight ==
  ASSUME NEW T, NEW S, NEW below, Tree(T, S, below), NEW n \in S, T.left[n] # Null,
         ~T.crashed
  PROVE  LET U == RightTurned(T, n)
             V == RotateRight(T, n)
             below2 == BelowTurned(T.right, T.left, below, n)
         IN /\ V = UpdateHeight(UpdateHeight(U, n), T.left[n])
            /\ SameLinks(U, V) /\ Tree(V, S, below2)
            /\ Ordered(TRUE, T.left, T.right, S, below) => Ordered(TRUE, V.left, V.right, S, below2)
<1> DEFINE U == RightTurned(T, n)
           V == RotateRight(T, n)
           r == T.left[n]
           below2 == BelowTurned(T.right, T.left, below, n)
<1>1. V = UpdateHeight(UpdateHeight(U, n), r)
  BY DEF RotateRight, RightTurned
<1>2. /\ T \in Record /\ Unlinked(T, S) /\ Shape(T.root, T.right, T.left, T.parent, S, below)
      /\ n \in Key /\ r \in Key /\ r \in S
  <2>1. T \in Record /\ Unlinked(T, S) /\ Shape(T.root, T.right, T.left, T.parent, S, below)
    BY Mirrored DEF Tree
  <2>2. r \in S
    BY <2>1, Children
  <2>3. S \subseteq Key
    BY <2>1 DEF Shape
  <2> QED  BY <2>1, <2>2, <2>3
<1>3. /\ U \in Record
      /\ Turned(T.root, T.right, T.left, T.parent, n, U.root, U.right, U.left, U.parent)
  BY RightTurnedLinks
<1> HIDE DEF U, r
<1>4. SameLinks(U, V)
  <2>1. SameLinks(U, UpdateHeight(U, n))
    BY <1>2, <1>3, HeightKeeps
  <2>2. UpdateHeight(U, n) \in Record
    BY <2>1 DEF SameLinks
  <2>3. SameLinks(UpdateHeight(U, n), V)
    BY <1>1, <1>2, <2>2, HeightKeeps
  <2> QED  BY <2>1, <2>3, LinksCompose
<1>5. /\ Shape(U.root, U.right, U.left, U.parent, S, below2)
      /\ Ordered(FALSE, T.right, T.left, S, below) => Ordered(FALSE, U.right, U.left, S, below2)
  BY <1>2, <1>3, TurnedShape
<1> HIDE DEF V, below2
<1>6. Unlinked(V, S)
  <2> SUFFICES ASSUME NEW x \in Key \ S
               PROVE  V.left[x] = Null /\ V.right[x] = Null /\ V.parent[x] = Null
    BY DEF Unlinked
  <2>1. x # n /\ x # r /\ x \in Key
    BY <1>2
  <2>2. x # T.parent[n]
    <3>1. n # T.root => T.parent[n] \in S
      BY <1>2 DEF Shape, RootOK
    <3>2. n = T.root => T.parent[n] = Null
      BY <1>2, KeyFacts DEF Shape, RootOK
    <3> QED  BY <3>1, <3>2, KeyFacts
  <2>3. x # T.right[r]
    <3>1. T.right[r] \in S \cup {Null}
      BY <1>2 DEF Shape, NodeOK
    <3> QED  BY <3>1, KeyFacts
  <2>4. U.left[x] = T.left[x] /\ U.right[x] = T.right[x] /\ U.parent[x] = T.parent[x]
    BY <1>3, <2>1, <2>2, <2>3 DEF Turned, r
  <2> QED  BY <1>2, <1>4, <2>4 DEF Unlinked, SameLinks
<1>7. Tree(V, S, below2)
  <2>1. Shape(U.root, U.left, U.right, U.parent, S, below2)
    BY <1>5, Mirrored
  <2> QED  BY <1>4, <1>6, <2>1 DEF Tree, SameLinks
<1>8. V.left = U.left /\ V.right = U.right
  BY <1>4 DEF SameLinks
<1>9. ASSUME Ordered(TRUE, T.left, T.right, S, below) PROVE Ordered(TRUE, U.left, U.right, S, below2)
  <2>1. Ordered(~TRUE, T.right, T.left, S, below)
    BY <1>9, MirroredOrder
  <2>2. Ordered(~FALSE, U.left, U.right, S, below2)
    BY <1>5, <2>1, MirroredOrder
  <2> QED  BY <2>2
<1> QED  BY <1>1, <1>4, <1>7, <1>8, <1>9 DEF U, V, r, below2

\* Both rotations make a tree of a tree.
LEMMA RotateLeftTree ==
  ASSUME NEW T, NEW S, NEW o, IsTree(T, S, o), NEW n \in S
  PROVE  IsTree(RotateLeft(T, n), S, o)
<1>1. PICK below : Tree(T, S, below) /\ (o => Ordered(TRUE, T.left, T.right, S, below))
  BY DEF IsTree
<1>2. CASE T.crashed \/ T.right[n] = Null
  <2>1. RotateLeft(T, n) = Crash(T)
    BY <1>2 DEF RotateLeft
  <2> QED  BY <1>1, <2>1, CrashKeeps, SameTree DEF Tree
<1>3. CASE ~T.crashed /\ T.right[n] # Null
  <2> DEFINE V == RotateLeft(T, n)
             below2 == BelowTurned(T.left, T.right, below, n)
  <2>1. /\ Tree(V, S, below2)
        /\ Ordered(TRUE, T.left, T.right, S, below) => Ordered(TRUE, V.left, V.right, S, below2)
    BY <1>1, <1>3, RotatedLeft
  <2> HIDE DEF V, below2
  <2>2. IsTree(V, S, o)
    BY <1>1, <2>1 DEF IsTree
  <2> QED  BY <2>2 DEF V
<1> QED  BY <1>2, <1>3

\* The same to the right.
LEMMA RotateRightTree ==
  ASSUME NEW T, NEW S, NEW o, IsTree(T, S, o), NEW n \in S
  PROVE  IsTree(RotateRight(T, n), S, o)
<1>1. PICK below : Tree(T, S, below) /\ (o => Ordered(TRUE, T.left, T.right, S, below))
  BY DEF IsTree
<1>2. CASE T.crashed \/ T.left[n] = Null
  <2>1. RotateRight(T, n) = Crash(T)
    BY <1>2 DEF RotateRight
  <2> QED  BY <1>1, <2>1, CrashKeeps, SameTree DEF Tree
<1>3. CASE ~T.crashed /\ T.left[n] # Null
  <2> DEFINE V == RotateRight(T, n)
             below2 == BelowTurned(T.right, T.left, below, n)
  <2>1. /\ Tree(V, S, below2)
        /\ Ordered(TRUE, T.left, T.right, S, below) => Ordered(TRUE, V.left, V.right, S, below2)
    BY <1>1, <1>3, RotatedRight
  <2> HIDE DEF V, below2
  <2>2. IsTree(V, S, o)
    BY <1>1, <2>1 DEF IsTree
  <2> QED  BY <2>2 DEF V
<1> QED  BY <1>2, <1>3

\* So do the four patterns of rotations.
LEMMA RotateTree ==
  ASSUME NEW T, NEW S, NEW o, IsTree(T, S, o), NEW n \in S, NEW y \in S,
         NEW onLeft \in BOOLEAN, NEW toRight \in BOOLEAN
  PROVE  IsTree(Rotate(T, n, y, onLeft, toRight), S, o)
<1>1. /\ IsTree(RotateLeft(RotateRight(T, y), n), S, o)
      /\ IsTree(RotateRight(RotateLeft(T, y), n), S, o)
      /\ IsTree(RotateLeft(T, n), S, o) /\ IsTree(RotateRight(T, n), S, o)
  BY RotateLeftTree, RotateRightTree
<1>2. CASE onLeft /\ toRight
  BY <1>1, <1>2 DEF Rotate
<1>3. CASE onLeft /\ ~toRight
  BY <1>1, <1>3 DEF Rotate
<1>4. CASE ~onLeft /\ toRight
  BY <1>1, <1>4 DEF Rotate
<1>5. CASE ~onLeft /\ ~toRight
  BY <1>1, <1>5 DEF Rotate
<1> QED  BY <1>2, <1>3, <1>4, <1>5

--------------------------------------------------------------------------------
(* Leaves that come and go                                                 *)

\* What is below each node when k is put under p.
BelowAdded(below, S, p, k) ==
  [x \in S \cup {k, Null} |->
     IF x = k THEN {k} ELSE IF p \in below[x] THEN below[x] \cup {k} ELSE below[x]]

\* What is below each node without m.
BelowRemoved(below, S, m) == [x \in (S \ {m}) \cup {Null} |-> below[x] \ {m}]

\* k has the place in the order that belongs to what is below p.
Placed(up, near, far, S, below, p, k) ==
  \A x \in S : /\ p \in below[near[x]] => Before(up, k, x)
               /\ p \in below[far[x]] => Before(up, x, k)

InPlace(up, near, far, S, below, p, k) ==
  Ordered(up, near, far, S, below) /\ Placed(up, near, far, S, below, p, k) /\ Before(up, k, p)

\* The leaf k becomes a child of p.
Added(near, far, parent, S, p, k, near2, parent2) ==
  /\ p \in S /\ near[p] = Null
  /\ k \in Key \ S /\ near[k] = Null /\ far[k] = Null
  /\ near2 = [near EXCEPT ![p] = k] /\ parent2 = [parent EXCEPT ![k] = p]

\* A new leaf keeps the shape, and the order if it is put in its place.
LEMMA LeafAdded ==
  ASSUME NEW root, NEW near, NEW far, NEW parent, NEW S, NEW below, NEW p, NEW k,
         NEW near2, NEW parent2, NEW up \in BOOLEAN,
         Shape(root, near, far, parent, S, below),
         Added(near, far, parent, S, p, k, near2, parent2)
  PROVE  /\ Shape(root, near2, far, parent2, S \cup {k}, BelowAdded(below, S, p, k))
         /\ InPlace(up, near, far, S, below, p, k)
              => Ordered(up, near2, far, S \cup {k}, BelowAdded(below, S, p, k))
<1> DEFINE S2 == S \cup {k}
           below2 == BelowAdded(below, S, p, k)
<1>0. /\ p \in S /\ near[p] = Null
      /\ k \in Key \ S /\ near[k] = Null /\ far[k] = Null
      /\ near2 = [near EXCEPT ![p] = k] /\ parent2 = [parent EXCEPT ![k] = p]
  BY DEF Added
<1>1. /\ S \subseteq Key /\ Null \notin Key /\ k \in Key /\ k # Null /\ p \in Key /\ p # k
      /\ near \in [Key -> Node] /\ far \in [Key -> Node] /\ parent \in [Key -> Node]
      /\ below \in [S \cup {Null} -> SUBSET S] /\ below[Null] = {} /\ root \in Node
  BY <1>0, KeyFacts DEF Shape
<1>2. /\ near2 \in [Key -> Node] /\ near2[p] = k /\ \A x \in Key : x # p => near2[x] = near[x]
      /\ parent2 \in [Key -> Node] /\ parent2[k] = p /\ \A x \in Key : x # k => parent2[x] = parent[x]
  BY <1>0, <1>1 DEF Node
<1>3. /\ below2 \in [S2 \cup {Null} -> SUBSET S2] /\ below2[Null] = {} /\ below2[k] = {k}
      /\ \A x \in S \cup {Null} : below2[x] = IF p \in below[x] THEN below[x] \cup {k} ELSE below[x]
  <2>1. S2 \cup {Null} = S \cup {k, Null}
    OBVIOUS
  <2>2. below2 = [x \in S2 \cup {Null} |->
                    IF x = k THEN {k} ELSE IF p \in below[x] THEN below[x] \cup {k} ELSE below[x]]
    BY <2>1 DEF BelowAdded
  <2> HIDE DEF below2
  <2> QED  BY <1>0, <1>1, <2>2
<1> HIDE DEF below2
<1>4. /\ \A x \in S : NodeOK(near, far, parent, S, below, x)
      /\ RootOK(root, near, far, parent, S, below)
  BY DEF Shape
<1>5. p \in below[p] /\ below[p] = {p} \cup below[far[p]] /\ p \notin below[far[p]]
  BY <1>0, <1>1, <1>4 DEF NodeOK
<1>6. ASSUME NEW x \in S, x # p PROVE NodeOK(near2, far, parent2, S2, below2, x)
  <2>1. near2[x] = near[x] /\ NodeOK(near, far, parent, S, below, x)
    BY <1>1, <1>2, <1>4, <1>6
  <2>2. k \notin below[x] /\ x # k
    BY <1>0, <1>1
  <2>3. /\ near[x] \in S \cup {Null} /\ far[x] \in S \cup {Null} /\ x \in Key
        /\ below[x] = {x} \cup below[near[x]] \cup below[far[x]]
        /\ x \notin below[near[x]] /\ x \notin below[far[x]] /\ below[near[x]] \cap below[far[x]] = {}
    BY <1>1, <2>1 DEF NodeOK
  <2>4. /\ below2[x] = IF p \in below[x] THEN below[x] \cup {k} ELSE below[x]
        /\ below2[near[x]] = IF p \in below[near[x]] THEN below[near[x]] \cup {k} ELSE below[near[x]]
        /\ below2[far[x]] = IF p \in below[far[x]] THEN below[far[x]] \cup {k} ELSE below[far[x]]
    BY <1>3, <2>3
  <2>5. k \notin below[near[x]] /\ k \notin below[far[x]]
    BY <1>0, <1>1, <2>3
  <2>6. /\ below2[x] = {x} \cup below2[near[x]] \cup below2[far[x]]
        /\ x \notin below2[near[x]] /\ x \notin below2[far[x]]
        /\ below2[near[x]] \cap below2[far[x]] = {}
    BY <1>6, <2>2, <2>3, <2>4, <2>5
  <2>7. /\ near[x] # Null => parent2[near[x]] = x
        /\ far[x] # Null => parent2[far[x]] = x
    BY <1>0, <1>1, <1>2, <2>1, <2>3 DEF NodeOK
  <2> QED  BY <2>1, <2>3, <2>6, <2>7 DEF NodeOK
<1>7. NodeOK(near2, far, parent2, S2, below2, p)
  <2>1. NodeOK(near, far, parent, S, below, p)
    BY <1>0, <1>4
  <2>2. far[p] \in S \cup {Null}
    BY <2>1 DEF NodeOK
  <2>3. below2[p] = below[p] \cup {k} /\ below2[far[p]] = below[far[p]] /\ k \notin below[far[p]]
    BY <1>0, <1>1, <1>3, <1>5, <2>2
  <2>4. far[p] # Null => parent2[far[p]] = p
    BY <1>0, <1>1, <1>2, <2>1, <2>2 DEF NodeOK
  <2> QED  BY <1>0, <1>1, <1>2, <1>3, <1>5, <2>2, <2>3, <2>4 DEF NodeOK
<1>8. NodeOK(near2, far, parent2, S2, below2, k)
  BY <1>0, <1>1, <1>2, <1>3 DEF NodeOK
<1>9. RootOK(root, near2, far, parent2, S2, below2)
  <2>1. root \in S2 \cup {Null} /\ below2[root] = S2 /\ (root # Null => parent2[root] = Null)
    <3>1. root \in S \cup {Null} /\ below[root] = S /\ (root # Null => parent[root] = Null)
      BY <1>4 DEF RootOK
    <3>2. below2[root] = S \cup {k}
      BY <1>0, <1>3, <3>1
    <3> QED  BY <1>0, <1>1, <1>2, <3>1, <3>2
  <2>2. ASSUME NEW x \in S2, x # root
        PROVE  parent2[x] \in S2 /\ x \in {near2[parent2[x]], far[parent2[x]]}
    <3>1. CASE x = k
      BY <1>0, <1>2, <3>1
    <3>2. CASE x # k
      <4>1. parent[x] \in S /\ x \in {near[parent[x]], far[parent[x]]} /\ parent2[x] = parent[x]
        BY <1>0, <1>1, <1>2, <1>4, <2>2, <3>2 DEF RootOK
      <4>2. x # Null
        BY <1>1
      <4> QED  BY <1>0, <1>1, <1>2, <4>1, <4>2
    <3> QED  BY <3>1, <3>2
  <2> QED  BY <2>1, <2>2 DEF RootOK
<1>10. Shape(root, near2, far, parent2, S2, below2)
  BY <1>0, <1>1, <1>2, <1>3, <1>6, <1>7, <1>8, <1>9 DEF Shape
<1>11. ASSUME Ordered(up, near, far, S, below), Placed(up, near, far, S, below, p, k), Before(up, k, p)
       PROVE  Ordered(up, near2, far, S2, below2)
  <2>1. ASSUME NEW x \in S, x # p
        PROVE  /\ \A y \in below2[near2[x]] : Before(up, y, x)
               /\ \A y \in below2[far[x]] : Before(up, x, y)
    <3>1. near2[x] = near[x] /\ near[x] \in S \cup {Null} /\ far[x] \in S \cup {Null}
      BY <1>1, <1>2, <1>4, <2>1 DEF NodeOK
    <3>2. /\ below2[near[x]] \subseteq below[near[x]] \cup {k}
          /\ k \in below2[near[x]] => p \in below[near[x]]
          /\ below2[far[x]] \subseteq below[far[x]] \cup {k}
          /\ k \in below2[far[x]] => p \in below[far[x]]
      BY <1>0, <1>1, <1>3, <3>1
    <3> QED  BY <1>11, <3>1, <3>2 DEF Ordered, Placed
  <2>2. /\ \A y \in below2[near2[p]] : Before(up, y, p)
        /\ \A y \in below2[far[p]] : Before(up, p, y)
    <3>1. far[p] \in S \cup {Null}
      BY <1>0, <1>4 DEF NodeOK
    <3>2. below2[far[p]] = below[far[p]] /\ below2[near2[p]] = {k}
      BY <1>2, <1>3, <1>5, <3>1
    <3> QED  BY <1>0, <1>11, <3>2 DEF Ordered
  <2>3. below2[near2[k]] = {} /\ below2[far[k]] = {}
    BY <1>0, <1>1, <1>2, <1>3
  <2> QED  BY <2>1, <2>2, <2>3 DEF Ordered
<1> QED  BY <1>10, <1>11 DEF below2, InPlace

\* The leaf m is taken from its parent.
Cut(root, near, far, parent, S, m, near2) ==
  /\ m \in S /\ near[m] = Null /\ far[m] = Null
  /\ m # root /\ near[parent[m]] = m /\ near2 = [near EXCEPT ![parent[m]] = Null]

\* A leaf that is cut off leaves a tree in order.
LEMMA LeafRemoved ==
  ASSUME NEW root, NEW near, NEW far, NEW parent, NEW S, NEW below, NEW m, NEW near2,
         NEW up \in BOOLEAN, Shape(root, near, far, parent, S, below),
         Cut(root, near, far, parent, S, m, near2)
  PROVE  /\ Shape(root, near2, far, parent, S \ {m}, BelowRemoved(below, S, m))
         /\ Ordered(up, near, far, S, below)
              => Ordered(up, near2, far, S \ {m}, BelowRemoved(below, S, m))
<1> DEFINE S2 == S \ {m}
           q == parent[m]
           below2 == BelowRemoved(below, S, m)
<1>0. /\ m \in S /\ near[m] = Null /\ far[m] = Null
      /\ m # root /\ near[q] = m /\ near2 = [near EXCEPT ![q] = Null]
  BY DEF Cut
<1>1. /\ S \subseteq Key /\ Null \notin Key /\ m \in Key /\ m # Null
      /\ near \in [Key -> Node] /\ far \in [Key -> Node] /\ parent \in [Key -> Node]
      /\ below \in [S \cup {Null} -> SUBSET S] /\ below[Null] = {} /\ root \in Node
  BY <1>0, KeyFacts DEF Shape
<1>2. /\ \A x \in S : NodeOK(near, far, parent, S, below, x)
      /\ RootOK(root, near, far, parent, S, below)
  BY DEF Shape
<1>3. q \in S /\ q # m /\ q \in Key /\ far[q] # m /\ below[m] = {m}
  <2>1. q \in S /\ q # m
    BY <1>0, <1>1, <1>2 DEF RootOK
  <2>2. near[q] # Null => near[q] # far[q]
    BY <2>1, Children
  <2>3. below[m] = {m}
    BY <1>0, <1>1, <1>2 DEF NodeOK
  <2> QED  BY <1>0, <1>1, <2>1, <2>2, <2>3
<1>4. near2 \in [Key -> Node] /\ near2[q] = Null /\ \A x \in Key : x # q => near2[x] = near[x]
  BY <1>0, <1>1, <1>3 DEF Node
<1>5. /\ below2 \in [S2 \cup {Null} -> SUBSET S2] /\ below2[Null] = {}
      /\ \A x \in S2 \cup {Null} : below2[x] = below[x] \ {m}
  BY <1>0, <1>1 DEF BelowRemoved
<1> HIDE DEF below2, q
<1>6. ASSUME NEW x \in S2
      PROVE  /\ NodeOK(near2, far, parent, S2, below2, x)
             /\ below2[near2[x]] \subseteq below[near[x]] /\ below2[far[x]] \subseteq below[far[x]]
  <2>1. NodeOK(near, far, parent, S, below, x) /\ x \in Key /\ x # m
    BY <1>1, <1>2
  <2>2. CASE x # q
    <3>1. near2[x] = near[x] /\ near[x] # m /\ far[x] # m
      BY <1>1, <1>4, <2>1, <2>2 DEF NodeOK, q
    <3> QED  BY <1>1, <1>5, <2>1, <3>1 DEF NodeOK
  <2>3. CASE x = q
    <3>1. near2[x] = Null /\ near[x] = m
      BY <1>0, <1>4, <2>3
    <3> QED  BY <1>1, <1>3, <1>5, <2>1, <2>3, <3>1 DEF NodeOK
  <2> QED  BY <2>2, <2>3
<1>7. RootOK(root, near2, far, parent, S2, below2)
  <2>1. root \in S2 /\ below2[root] = S2 /\ parent[root] = Null
    BY <1>0, <1>1, <1>2, <1>3, <1>5 DEF RootOK
  <2>2. ASSUME NEW x \in S2, x # root
        PROVE  parent[x] \in S2 /\ x \in {near2[parent[x]], far[parent[x]]}
    <3>1. parent[x] \in S /\ x \in {near[parent[x]], far[parent[x]]} /\ x # Null /\ x # m
      BY <1>0, <1>1, <1>2, <2>2 DEF RootOK
    <3> QED  BY <1>0, <1>1, <1>4, <3>1 DEF q
  <2> QED  BY <2>1, <2>2 DEF RootOK
<1>8. Ordered(up, near, far, S, below) => Ordered(up, near2, far, S2, below2)
  BY <1>6 DEF Ordered
<1> QED  BY <1>1, <1>4, <1>5, <1>6, <1>7, <1>8 DEF Shape, below2

\* m takes the place of k.
Renamed(root, near, far, parent, S, k, m, root2, near2, far2, parent2) ==
  LET new(c) == IF c = k THEN m ELSE c
  IN /\ near2 \in [Key -> Node] /\ far2 \in [Key -> Node] /\ parent2 \in [Key -> Node]
     /\ root2 = new(root)
     /\ near2[m] = near[k] /\ far2[m] = far[k] /\ parent2[m] = parent[k]
     /\ \A x \in S \ {k} : /\ near2[x] = new(near[x]) /\ far2[x] = new(far[x])
                           /\ parent2[x] = new(parent[x])

Swapped(B, k, m) == IF k \in B THEN (B \ {k}) \cup {m} ELSE B

BelowRenamed(below, S, k, m) ==
  [x \in (S \ {k}) \cup {m, Null} |-> Swapped(below[IF x = m THEN k ELSE x], k, m)]

\* m is between what is below the one and below the other child of k.
Between(up, near, far, S, below, k, m) ==
  /\ Ordered(up, near, far, S, below) /\ Placed(up, near, far, S, below, k, m)
  /\ \A y \in below[near[k]] : Before(up, y, m)
  /\ \A y \in below[far[k]] : Before(up, m, y)

\* The shape is kept, and the order if m is between the subtrees of k.
LEMMA RenamedShape ==
  ASSUME NEW root, NEW near, NEW far, NEW parent, NEW S, NEW below,
         Shape(root, near, far, parent, S, below), NEW k \in S, NEW m \in Key \ S,
         NEW root2, NEW near2, NEW far2, NEW parent2,
         Renamed(root, near, far, parent, S, k, m, root2, near2, far2, parent2), NEW up \in BOOLEAN
  PROVE  /\ Shape(root2, near2, far2, parent2, (S \ {k}) \cup {m}, BelowRenamed(below, S, k, m))
         /\ Between(up, near, far, S, below, k, m)
              => Ordered(up, near2, far2, (S \ {k}) \cup {m}, BelowRenamed(below, S, k, m))
<1> DEFINE S2 == (S \ {k}) \cup {m}
           below2 == BelowRenamed(below, S, k, m)
           new(c) == IF c = k THEN m ELSE c
<1>1. /\ S \subseteq Key /\ Null \notin Key /\ k \in Key /\ k # Null /\ m \in Key /\ m # Null
      /\ m \notin S /\ k # m
      /\ near \in [Key -> Node] /\ far \in [Key -> Node] /\ parent \in [Key -> Node]
      /\ below \in [S \cup {Null} -> SUBSET S] /\ below[Null] = {} /\ root \in Node
  BY KeyFacts DEF Shape
<1>2. /\ \A x \in S : NodeOK(near, far, parent, S, below, x)
      /\ RootOK(root, near, far, parent, S, below)
  BY DEF Shape
<1>3. /\ near2 \in [Key -> Node] /\ far2 \in [Key -> Node] /\ parent2 \in [Key -> Node]
      /\ root2 = new(root)
      /\ near2[m] = near[k] /\ far2[m] = far[k] /\ parent2[m] = parent[k]
      /\ \A x \in S \ {k} : /\ near2[x] = new(near[x]) /\ far2[x] = new(far[x])
                            /\ parent2[x] = new(parent[x])
  BY DEF Renamed
<1>4. \A x \in S \cup {Null} : Swapped(below[x], k, m) \in SUBSET S2
  <2>1. \A B \in SUBSET S : Swapped(B, k, m) \in SUBSET S2
    BY DEF Swapped
  <2> QED  BY <1>1, <2>1
<1>5. below2 = [x \in S2 \cup {Null} |-> Swapped(below[IF x = m THEN k ELSE x], k, m)]
  <2>1. S2 \cup {Null} = (S \ {k}) \cup {m, Null}
    OBVIOUS
  <2> QED  BY <2>1 DEF BelowRenamed
<1>6. /\ below2 \in [S2 \cup {Null} -> SUBSET S2] /\ below2[Null] = {}
      /\ below2[m] = Swapped(below[k], k, m)
      /\ \A x \in (S \ {k}) \cup {Null} : below2[x] = Swapped(below[x], k, m)
  <2> HIDE DEF below2
  <2>1. \A x \in S2 \cup {Null} : (IF x = m THEN k ELSE x) \in S \cup {Null}
    OBVIOUS
  <2>2. Swapped({}, k, m) = {}
    BY DEF Swapped
  <2> HIDE DEF S2
  <2>3. below2 \in [S2 \cup {Null} -> SUBSET S2]
    BY <1>4, <1>5, <2>1
  <2>4. m \in S2 /\ \A x \in (S \ {k}) \cup {Null} : x \in S2 \cup {Null} /\ x # m
    BY <1>1 DEF S2
  <2> QED  BY <1>1, <1>5, <2>2, <2>3, <2>4
<1> HIDE DEF below2
<1>7. \A c \in S \cup {Null} : new(c) \in S2 \cup {Null} /\ below2[new(c)] = Swapped(below[c], k, m)
  BY <1>1, <1>6
<1>8. ASSUME NEW x \in S
      PROVE  /\ near2[new(x)] = new(near[x]) /\ far2[new(x)] = new(far[x])
             /\ NodeOK(near2, far2, parent2, S2, below2, new(x))
  <2>1. NodeOK(near, far, parent, S, below, x) /\ x \in Key
    BY <1>1, <1>2
  <2>2. /\ near[x] \in S \cup {Null} /\ far[x] \in S \cup {Null}
        /\ below[x] = {x} \cup below[near[x]] \cup below[far[x]]
        /\ x \notin below[near[x]] /\ x \notin below[far[x]] /\ below[near[x]] \cap below[far[x]] = {}
        /\ near[x] # Null => parent[near[x]] = x /\ near[x] # x
        /\ far[x] # Null => parent[far[x]] = x /\ far[x] # x
    BY <2>1, Children DEF NodeOK
  <2>3. near2[new(x)] = new(near[x]) /\ far2[new(x)] = new(far[x])
    BY <1>1, <1>3, <2>2
  <2>4. /\ new(near[x]) # Null => parent2[new(near[x])] = new(x)
        /\ new(far[x]) # Null => parent2[new(far[x])] = new(x)
    BY <1>1, <1>3, <2>2
  <2>5. /\ below2[new(x)] = Swapped(below[x], k, m)
        /\ below2[new(near[x])] = Swapped(below[near[x]], k, m)
        /\ below2[new(far[x])] = Swapped(below[far[x]], k, m)
        /\ new(near[x]) \in S2 \cup {Null} /\ new(far[x]) \in S2 \cup {Null}
    BY <1>7, <2>2
  <2>6. /\ Swapped(below[x], k, m)
             = {new(x)} \cup Swapped(below[near[x]], k, m) \cup Swapped(below[far[x]], k, m)
        /\ new(x) \notin Swapped(below[near[x]], k, m)
        /\ new(x) \notin Swapped(below[far[x]], k, m)
        /\ Swapped(below[near[x]], k, m) \cap Swapped(below[far[x]], k, m) = {}
    <3>1. below[near[x]] \subseteq S /\ below[far[x]] \subseteq S
      BY <1>1, <2>2
    <3> QED  BY <1>1, <2>2, <3>1 DEF Swapped
  <2> HIDE DEF new
  <2> QED  BY <2>3, <2>4, <2>5, <2>6 DEF NodeOK
<1>9. \A y \in S2 : \E x \in S : y = new(x)
  BY <1>1
<1>10. \A x \in S2 : NodeOK(near2, far2, parent2, S2, below2, x)
  BY <1>8, <1>9
<1>11. RootOK(root2, near2, far2, parent2, S2, below2)
  <2>1. root2 \in S2 \cup {Null} /\ below2[root2] = S2
    <3>1. root \in S \cup {Null} /\ below[root] = S
      BY <1>2 DEF RootOK
    <3>2. Swapped(S, k, m) = S2
      BY DEF Swapped
    <3> QED  BY <1>3, <1>7, <3>1, <3>2
  <2>2. root2 # Null => parent2[root2] = Null
    BY <1>1, <1>2, <1>3 DEF RootOK
  <2>3. ASSUME NEW y \in S2, y # root2
        PROVE  parent2[y] \in S2 /\ y \in {near2[parent2[y]], far2[parent2[y]]}
    <3>1. PICK x \in S : y = new(x)
      BY <1>9
    <3>2. x # root
      BY <1>3, <2>3, <3>1
    <3>3. parent[x] \in S /\ x \in {near[parent[x]], far[parent[x]]}
      BY <1>2, <3>2 DEF RootOK
    <3>4. parent[x] # x
      BY <1>1, <3>3, Children
    <3>5. parent2[y] = new(parent[x])
      BY <1>1, <1>3, <3>1, <3>4
    <3>6. near2[new(parent[x])] = new(near[parent[x]]) /\ far2[new(parent[x])] = new(far[parent[x]])
      BY <1>8, <3>3
    <3> QED  BY <3>1, <3>3, <3>5, <3>6
  <2> QED  BY <2>1, <2>2, <2>3 DEF RootOK
<1>12. Shape(root2, near2, far2, parent2, S2, below2)
  <2>1. S2 \in SUBSET Key /\ root2 \in Node
    BY <1>1, <1>3 DEF Node
  <2> QED  BY <1>3, <1>6, <1>10, <1>11, <2>1 DEF Shape
<1>13. ASSUME Between(up, near, far, S, below, k, m)
       PROVE  Ordered(up, near2, far2, S2, below2)
  <2>1. ASSUME NEW x \in S
        PROVE  /\ \A y \in Swapped(below[near[x]], k, m) : Before(up, y, new(x))
               /\ \A y \in Swapped(below[far[x]], k, m) : Before(up, new(x), y)
    <3>1. CASE x = k
      <4>1. k \notin below[near[x]] /\ k \notin below[far[x]]
        BY <1>2, <3>1 DEF NodeOK
      <4> QED  BY <1>13, <3>1, <4>1 DEF Swapped, Between
    <3>2. CASE x # k
      BY <1>13, <3>2 DEF Swapped, Ordered, Placed, Between
    <3> QED  BY <3>1, <3>2
  <2>2. ASSUME NEW x \in S
        PROVE  /\ below2[near2[new(x)]] = Swapped(below[near[x]], k, m)
               /\ below2[far2[new(x)]] = Swapped(below[far[x]], k, m)
    <3>1. near[x] \in S \cup {Null} /\ far[x] \in S \cup {Null}
      BY <1>2 DEF NodeOK
    <3> QED  BY <1>7, <1>8, <3>1
  <2> SUFFICES ASSUME NEW z \in S2
               PROVE  /\ \A y \in below2[near2[z]] : Before(up, y, z)
                      /\ \A y \in below2[far2[z]] : Before(up, z, y)
    BY DEF Ordered
  <2>3. PICK x \in S : z = new(x)
    BY <1>9
  <2> HIDE DEF new
  <2> QED  BY <2>1, <2>2, <2>3
<1> QED  BY <1>12, <1>13 DEF below2, S2

--------------------------------------------------------------------------------
(* Ways down                                                               *)

\* What the definition of a loop asks for is what recursion gives.
LEMMA LoopDef ==
  ASSUME NEW D, NEW f0 \in D, NEW s \in [D -> D]
  PROVE  \E f : (\A i \in Nat : f[i] \in D) /\ f = [i \in Nat |-> IF i = 0 THEN f0 ELSE s[f[i - 1]]]
<1>1. PICK f : Iterates(f, D, f0, s)
  BY Recursion
<1>2. ASSUME NEW i \in Nat PROVE f[i] = IF i = 0 THEN f0 ELSE s[f[i - 1]]
  <2>1. i # 0 => i - 1 \in Nat /\ (i - 1) + 1 = i
    OBVIOUS
  <2> QED  BY <1>1, <2>1 DEF Iterates
<1>3. f = [i \in Nat |-> f[i]]
  BY <1>1 DEF Iterates
<1>4. f = [i \in Nat |-> IF i = 0 THEN f0 ELSE s[f[i - 1]]]
  BY <1>2, <1>3
<1>5. \A i \in Nat : f[i] \in D
  BY <1>1 DEF Iterates
<1> QED  BY <1>4, <1>5

\* Subtrees are finite, and smaller than the tree they are in.
LEMMA Subtrees ==
  ASSUME NEW root, NEW near, NEW far, NEW parent, NEW S, NEW below,
         Shape(root, near, far, parent, S, below), NEW x \in S
  PROVE  /\ IsFiniteSet(below[x]) /\ Cardinality(below[x]) \in 1 .. MaxKey
         /\ near[x] # Null => Cardinality(below[near[x]]) < Cardinality(below[x])
         /\ far[x] # Null => Cardinality(below[far[x]]) < Cardinality(below[x])
<1>1. below[x] \subseteq Key /\ x \in below[x]
  <2>1. Facts(near, far, parent, S, below)
    BY ShapeFacts
  <2>2. below[x] \in SUBSET S /\ S \subseteq Key
    BY <2>1 DEF Facts
  <2>3. x \in below[x]
    BY <2>1 DEF Facts
  <2> QED  BY <2>2, <2>3
<1>2. IsFiniteSet(below[x]) /\ Cardinality(below[x]) <= MaxKey
  BY <1>1, KeyFacts, FS_Subset
<1>3. Cardinality(below[x]) \in Nat /\ MaxKey \in Nat
  BY <1>2, FS_CardinalityType, AvlAssumption
<1>4. Cardinality(below[x]) # 0
  BY <1>1, <1>2, FS_EmptySet
<1>5. ASSUME NEW c \in {near[x], far[x]}, c # Null PROVE Cardinality(below[c]) < Cardinality(below[x])
  <2>1. below[c] \subseteq below[x] /\ x \notin below[c]
    BY <1>5 DEF Shape, NodeOK
  <2>2. /\ IsFiniteSet(below[c]) /\ Cardinality(below[c]) <= Cardinality(below[x])
        /\ Cardinality(below[c]) # Cardinality(below[x])
    BY <1>1, <1>2, <2>1, FS_Subset
  <2>3. Cardinality(below[c]) \in Nat
    BY <2>2, FS_CardinalityType
  <2> QED  BY <1>3, <2>2, <2>3
<1> QED  BY <1>2, <1>3, <1>4, <1>5

\* What is below y is below whatever y is below, and so is the parent of y.
LEMMA Below ==
  ASSUME NEW root, NEW near, NEW far, NEW parent, NEW S, NEW below,
         Shape(root, near, far, parent, S, below)
  PROVE  \A x, y \in S : y \in below[x] => /\ below[y] \subseteq below[x]
                                           /\ y # x => parent[y] \in below[x]
<1> DEFINE P(x) == \A y \in below[x] : below[y] \subseteq below[x] /\ (y # x => parent[y] \in below[x])
           N == {n \in Nat : \A x \in S : Cardinality(below[x]) <= n => P(x)}
<1>1. 0 \in N
  BY Subtrees
<1>2. ASSUME NEW n \in Nat, n \in N PROVE n + 1 \in N
  <2> SUFFICES ASSUME NEW x \in S, Cardinality(below[x]) <= n + 1, NEW y \in below[x]
               PROVE  below[y] \subseteq below[x] /\ (y # x => parent[y] \in below[x])
    OBVIOUS
  <2>1. below[x] = {x} \cup below[near[x]] \cup below[far[x]] /\ below[Null] = {}
        /\ near[x] \in S \cup {Null} /\ far[x] \in S \cup {Null} /\ x \in below[x]
        /\ (near[x] # Null => parent[near[x]] = x) /\ (far[x] # Null => parent[far[x]] = x)
    BY DEF Shape, NodeOK
  <2>2. ASSUME NEW c \in {near[x], far[x]}, y \in below[c]
        PROVE  below[y] \subseteq below[x] /\ parent[y] \in below[x]
    <3>1. c \in S /\ c # Null /\ parent[c] = x /\ below[c] \subseteq below[x]
      BY <2>1, <2>2
    <3>2. Cardinality(below[c]) < Cardinality(below[x]) /\ Cardinality(below[x]) \in Nat
          /\ Cardinality(below[c]) \in Nat
      BY <2>2, <3>1, Subtrees
    <3>3. P(c)
      <4>1. Cardinality(below[c]) <= n
        BY <3>2
      <4> QED  BY <1>2, <3>1, <4>1
    <3>4. below[y] \subseteq below[c] /\ (y # c => parent[y] \in below[c])
      BY <2>2, <3>3
    <3> QED  BY <2>1, <3>1, <3>4
  <2> QED  BY <2>1, <2>2
<1> HIDE DEF N
<1>3. \A n \in Nat : n \in N
  BY <1>1, <1>2, Induction
<1>4. ASSUME NEW x \in S PROVE P(x)
  <2>1. Cardinality(below[x]) \in Nat
    BY Subtrees
  <2>2. Cardinality(below[x]) \in N
    BY <1>3, <2>1
  <2> QED  BY <2>1, <2>2 DEF N
<1> QED  BY <1>4

\* The place of k is found by going down on its side.
LEMMA PlacedDown ==
  ASSUME NEW root, NEW near, NEW far, NEW parent, NEW S, NEW below,
         Shape(root, near, far, parent, S, below), NEW up, NEW k,
         NEW n \in S, Placed(up, near, far, S, below, n, k), NEW c, c # Null,
         \/ c = near[n] /\ Before(up, k, n)
         \/ c = far[n] /\ Before(up, n, k)
  PROVE  c \in S /\ Placed(up, near, far, S, below, c, k)
<1>0. Facts(near, far, parent, S, below)
  BY ShapeFacts
<1>1. c \in S /\ parent[c] = n /\ near[n] # far[n] /\ below[Null] = {}
  <2>1. c \in S /\ parent[c] = n /\ near[n] # far[n]
    BY Children
  <2> QED  BY <1>0, <2>1 DEF Facts
<1>2. ASSUME NEW x \in S, c \in below[near[x]] PROVE Before(up, k, x)
  <2>1. near[x] \in S
    BY <1>1, <1>2 DEF Shape, NodeOK
  <2>2. CASE c = near[x]
    <3>1. x = n
      BY <1>0, <1>1, <2>1, <2>2 DEF Facts
    <3> QED  BY <1>1, <2>2, <3>1
  <2>3. CASE c # near[x]
    BY <1>1, <1>2, <2>1, <2>3, Below DEF Placed
  <2> QED  BY <2>2, <2>3
<1>3. ASSUME NEW x \in S, c \in below[far[x]] PROVE Before(up, x, k)
  <2>1. far[x] \in S
    BY <1>1, <1>3 DEF Shape, NodeOK
  <2>2. CASE c = far[x]
    <3>1. x = n
      BY <1>0, <1>1, <2>1, <2>2 DEF Facts
    <3> QED  BY <1>1, <2>2, <3>1
  <2>3. CASE c # far[x]
    BY <1>1, <1>3, <2>1, <2>3, Below DEF Placed
  <2> QED  BY <2>2, <2>3
<1> QED  BY <1>1, <1>2, <1>3 DEF Placed

\* Nothing is above the root.
LEMMA RootPlaced ==
  ASSUME NEW root, NEW near, NEW far, NEW parent, NEW S, NEW below,
         Shape(root, near, far, parent, S, below), root # Null, NEW up, NEW k
  PROVE  root \in S /\ Placed(up, near, far, S, below, root, k)
<1>1. root \in S /\ below[root] = S
  BY DEF Shape, RootOK
<1>2. ASSUME NEW x \in S, NEW c \in {near[x], far[x]}, root \in below[c] PROVE FALSE
  <2>1. c \in S /\ x \notin below[c]
    BY <1>2 DEF Shape, NodeOK
  <2>2. below[root] \subseteq below[c]
    BY <1>1, <1>2, <2>1, Below
  <2> QED  BY <1>1, <2>1, <2>2
<1> QED  BY <1>1, <1>2 DEF Placed

\* Insert finds a node without a child on the side of the new key.
LEMMA LeafForLemma ==
  ASSUME NEW T, NEW S, NEW below, Tree(T, S, below), T.root # Null, NEW k \in Key \ S
  PROVE  LET p == LeafFor(T, k)
         IN p \in S /\ Toward(T, p, k) = Null /\ Placed(TRUE, T.left, T.right, S, below, p, k)
<1> DEFINE Down(n) == IF Toward(T, n, k) = Null THEN n ELSE Toward(T, n, k)
           D == {n \in S : Placed(TRUE, T.left, T.right, S, below, n, k)}
           Eq(f) == f = [i \in Nat |-> IF i = 0 THEN T.root ELSE Down(f[i - 1])]
           at == CHOOSE f : Eq(f)
<1>1. Shape(T.root, T.left, T.right, T.parent, S, below) /\ S \subseteq Nat /\ k \in Nat /\ k \notin S
  BY KeyFacts DEF Tree, Shape
<1>2. T.root \in D
  BY <1>1, RootPlaced
<1>3. ASSUME NEW n \in D PROVE Down(n) \in D
  <2> SUFFICES ASSUME Toward(T, n, k) # Null PROVE Toward(T, n, k) \in D
    BY <1>3
  <2>1. n \in Nat /\ n # k
    BY <1>1
  <2>2. \/ Toward(T, n, k) = T.left[n] /\ Before(TRUE, k, n)
        \/ Toward(T, n, k) = T.right[n] /\ Before(TRUE, n, k)
    BY <1>1, <2>1 DEF Toward, Before
  <2> DEFINE c == Toward(T, n, k)
  <2> HIDE DEF c
  <2>3. c \in S /\ Placed(TRUE, T.left, T.right, S, below, c, k)
    BY <1>1, <2>2, PlacedDown DEF c
  <2> QED  BY <2>3 DEF c
<1> DEFINE s == [n \in D |-> Down(n)]
<1>4. Eq(at)
  <2>1. s \in [D -> D]
    BY <1>3
  <2>2. PICK f : (\A i \in Nat : f[i] \in D)
                 /\ f = [i \in Nat |-> IF i = 0 THEN T.root ELSE s[f[i - 1]]]
    <3> HIDE DEF D, s
    <3> QED  BY <1>2, <2>1, LoopDef
  <2>3. \A i \in Nat : i # 0 => s[f[i - 1]] = Down(f[i - 1])
    <3> HIDE DEF D, Down
    <3>1. \A i \in Nat : i # 0 => i - 1 \in Nat
      OBVIOUS
    <3>2. \A i \in Nat : i # 0 => f[i - 1] \in D
      BY <2>2, <3>1
    <3> QED  BY <3>2
  <2>4. Eq(f)
    <3> HIDE DEF s, Down
    <3> QED  BY <2>2, <2>3
  <2> HIDE DEF Eq
  <2> QED  BY <2>4
<1>5. LeafFor(T, k) = at[Rounds]
  BY DEF LeafFor
<1>6. at[0] = T.root /\ \A i \in Nat : at[i + 1] = Down(at[i])
  <2> HIDE DEF at, Down
  <2>1. \A i \in Nat : at[i] = IF i = 0 THEN T.root ELSE Down(at[i - 1])
    BY <1>4
  <2>2. \A i \in Nat : i + 1 \in Nat /\ i + 1 # 0 /\ (i + 1) - 1 = i
    OBVIOUS
  <2> QED  BY <2>1, <2>2
<1> HIDE DEF at, Eq, s
<1> DEFINE N == {i \in Nat : /\ at[i] \in D
                             /\ \/ Toward(T, at[i], k) = Null
                                \/ Cardinality(below[at[i]]) <= MaxKey - i}
<1>7. 0 \in N
  <2>1. at[0] \in D /\ at[0] \in S
    BY <1>2, <1>6
  <2>2. Cardinality(below[at[0]]) \in 1 .. MaxKey
    BY <1>1, <2>1, Subtrees
  <2>3. Cardinality(below[at[0]]) <= MaxKey - 0
    BY <2>2, AvlAssumption
  <2> HIDE DEF D
  <2> QED  BY <2>1, <2>3
<1>8. ASSUME NEW i \in Nat, i \in N PROVE i + 1 \in N
  <2> DEFINE n == at[i]
  <2>1. n \in D /\ n \in S /\ at[i + 1] = Down(n)
    BY <1>6, <1>8
  <2>2. at[i + 1] \in D
    BY <1>3, <2>1
  <2>3. CASE Toward(T, n, k) = Null
    <3>1. at[i + 1] = n
      BY <2>1, <2>3
    <3>2. i + 1 \in Nat
      OBVIOUS
    <3> HIDE DEF D, n, Down
    <3>3. Toward(T, at[i + 1], k) = Null
      BY <2>3, <3>1
    <3> QED  BY <2>2, <3>2, <3>3
  <2>4. CASE Toward(T, n, k) # Null
    <3>1. at[i + 1] = Toward(T, n, k) /\ Toward(T, n, k) \in {T.left[n], T.right[n]}
      BY <2>1, <2>4 DEF Toward
    <3>2. at[i + 1] \in S
      BY <2>2
    <3>3. /\ Cardinality(below[at[i + 1]]) < Cardinality(below[n])
          /\ Cardinality(below[n]) \in Nat /\ Cardinality(below[at[i + 1]]) \in Nat
      BY <1>1, <2>1, <2>4, <3>1, <3>2, Subtrees
    <3>4. Cardinality(below[n]) <= MaxKey - i
      BY <1>8, <2>4
    <3>5. Cardinality(below[at[i + 1]]) <= MaxKey - (i + 1)
      BY <3>3, <3>4, AvlAssumption
    <3>6. i + 1 \in Nat
      OBVIOUS
    <3> HIDE DEF D, n
    <3> QED  BY <2>2, <3>5, <3>6
  <2> QED  BY <2>3, <2>4
<1> HIDE DEF N
<1>9. \A i \in Nat : i \in N
  BY <1>7, <1>8, Induction
<1>10. Rounds \in Nat /\ Rounds > MaxKey /\ MaxKey \in Nat
  BY AvlAssumption DEF Rounds
<1>11. Rounds \in N
  BY <1>9, <1>10
<1> DEFINE p == at[Rounds]
<1>12. p \in D /\ p \in S /\ (Toward(T, p, k) = Null \/ Cardinality(below[p]) <= MaxKey - Rounds)
  BY <1>11 DEF N
<1>13. Cardinality(below[p]) \in 1 .. MaxKey
  BY <1>1, <1>12, Subtrees
<1>14. p \in S /\ Toward(T, p, k) = Null /\ Placed(TRUE, T.left, T.right, S, below, p, k)
  <2>1. Placed(TRUE, T.left, T.right, S, below, p, k)
    BY <1>12
  <2> HIDE DEF p, D
  <2>2. ~(Cardinality(below[p]) <= MaxKey - Rounds)
    BY <1>10, <1>13
  <2> QED  BY <1>12, <2>1, <2>2
<1>15. LeafFor(T, k) = p
  BY <1>5
<1> HIDE DEF p, D
<1> QED  BY <1>14, <1>15

\* A node without a near child has no grandchild on that side either.
Even(near, far, S) == \A n \in S : near[n] = Null /\ far[n] # Null => near[far[n]] = Null

\* z comes first among what is below n.
FirstOf(up, B, z) == \A y \in B : y # z => Before(up, z, y)

\* Either nothing was found, or a leaf below start, which in an even tree is the first node there.
Found(up, near, far, S, below, start, e) ==
  \/ e = -1
  \/ /\ e \in S /\ e \in below[start] /\ near[e] = Null /\ far[e] = Null
     /\ Even(near, far, S) /\ Ordered(up, near, far, S, below) => FirstOf(up, below[start], e)

\* What Successor and Predecessor find is a leaf, and in an even tree the next node.
LEMMA ExtremeLemma ==
  ASSUME NEW root, NEW near, NEW far, NEW parent, NEW S, NEW below,
         Shape(root, near, far, parent, S, below), NEW start \in S, NEW up \in BOOLEAN
  PROVE  Found(up, near, far, S, below, start, Extreme(near, far, start))
<1> DEFINE Go(n) == CASE n = -1 -> -1
                      [] n # -1 /\ near[n] # Null -> near[n]
                      [] n # -1 /\ near[n] = Null /\ far[n] = Null -> n
                      [] OTHER -> IF near[far[n]] = Null THEN -1 ELSE near[far[n]]
           even == Even(near, far, S) /\ Ordered(up, near, far, S, below)
           Least(n) == \A y \in below[start] \ below[n] : \A z \in below[n] : Before(up, z, y)
           D == {-1} \cup {n \in S : n \in below[start] /\ (even => Least(n))}
           Eq(f) == f = [i \in Nat |-> IF i = 0 THEN start ELSE Go(f[i - 1])]
           at == CHOOSE f : Eq(f)
<1>1. S \subseteq Nat /\ -1 \notin S /\ Null \notin S
  <2>1. Facts(near, far, parent, S, below)
    BY ShapeFacts
  <2> QED  BY <2>1 DEF Facts
<1>2. start \in D
  BY Children
<1>3. ASSUME NEW n \in S, n \in D PROVE Go(n) \in D
  <2>1. /\ n \in below[start] /\ (even => Least(n)) /\ n # -1
        /\ below[n] = {n} \cup below[near[n]] \cup below[far[n]]
        /\ near[n] \in S \cup {Null} /\ far[n] \in S \cup {Null}
        /\ below[n] \subseteq below[start]
    <3>1. n \in below[start] /\ (even => Least(n)) /\ n # -1
      <4> HIDE DEF even, Least
      <4> QED  BY <1>1, <1>3
    <3>2. below[n] \subseteq below[start]
      BY <3>1, Below
    <3> HIDE DEF even, Least
    <3>3. Facts(near, far, parent, S, below)
      BY ShapeFacts
    <3> QED  BY <3>1, <3>2, <3>3 DEF Facts
  <2> HIDE DEF Least
  <2>2. CASE near[n] # Null
    <3> DEFINE c == near[n]
    <3>1. Go(n) = c /\ c \in S /\ c \in below[n] /\ c \in below[start]
      BY <2>1, <2>2, Children
    <3>2. ASSUME even PROVE Least(c)
      <4> SUFFICES ASSUME NEW y \in below[start] \ below[c], NEW z \in below[c] PROVE Before(up, z, y)
        BY DEF Least
      <4>1. z \in below[n] /\ z \in Nat /\ n \in Nat
        BY <1>1, <2>1, <3>1 DEF Shape
      <4>2. CASE y \notin below[n]
        BY <2>1, <3>2, <4>1, <4>2 DEF Least
      <4>3. CASE y = n
        BY <3>2, <4>3 DEF Ordered
      <4>4. CASE y \in below[far[n]]
        <5>1. Before(up, z, n) /\ Before(up, n, y)
          BY <3>2, <4>4 DEF Ordered
        <5>2. y \in Nat
          BY <1>1, <2>1, <4>4 DEF Shape
        <5> QED  BY <4>1, <5>1, <5>2 DEF Before
      <4> QED  BY <2>1, <4>2, <4>3, <4>4
    <3> HIDE DEF even, Go
    <3> QED  BY <3>1, <3>2
  <2>3. CASE near[n] = Null /\ far[n] = Null
    <3>1. Go(n) = n
      BY <2>1, <2>3
    <3> QED  BY <1>3, <3>1
  <2>4. CASE near[n] = Null /\ far[n] # Null
    <3>1. CASE near[far[n]] = Null
      <4>1. Go(n) = -1
        BY <2>1, <2>4, <3>1
      <4>2. -1 \in D
        OBVIOUS
      <4> HIDE DEF Go, D
      <4> QED  BY <4>1, <4>2
    <3>2. CASE near[far[n]] # Null
      <4> DEFINE r == far[n]
                 c == near[r]
      <4>1. Go(n) = c
        BY <2>1, <2>4, <3>2
      <4>2. r \in S /\ c \in S /\ c \in below[r] /\ r \in below[n]
        <5>1. r \in S /\ r \in below[n]
          BY <2>1, <2>4, Children
        <5>2. c \in S /\ c \in below[c]
          BY <3>2, <5>1, Children
        <5> QED  BY <5>1, <5>2 DEF Shape, NodeOK
      <4>3. c \in below[start]
        BY <2>1, <4>2, Below
      <4>4. ~even
        BY <2>4, <3>2 DEF Even
      <4> HIDE DEF even, Go
      <4> QED  BY <4>1, <4>2, <4>3, <4>4
    <3> QED  BY <3>1, <3>2
  <2> QED  BY <2>2, <2>3, <2>4
<1> HIDE DEF even, Least
<1>4. Go(-1) = -1 /\ -1 \in D
  <2>1. Go(-1) = -1
    BY <1>1
  <2>2. -1 \in D
    OBVIOUS
  <2> HIDE DEF Go, D
  <2> QED  BY <2>1, <2>2
<1>5. ASSUME NEW n \in D PROVE Go(n) \in D
  <2>1. CASE n = -1
    BY <1>4, <2>1
  <2>2. CASE n # -1
    <3> HIDE DEF Go
    <3> QED  BY <1>3, <2>2
  <2> QED  BY <2>1, <2>2
<1> DEFINE s == [n \in D |-> Go(n)]
<1>6. Eq(at)
  <2> HIDE DEF Go
  <2>1. s \in [D -> D]
    BY <1>5
  <2>2. PICK f : (\A i \in Nat : f[i] \in D)
                 /\ f = [i \in Nat |-> IF i = 0 THEN start ELSE s[f[i - 1]]]
    <3> HIDE DEF D, s
    <3> QED  BY <1>2, <2>1, LoopDef
  <2>3. \A i \in Nat : i # 0 => s[f[i - 1]] = Go(f[i - 1])
    <3> HIDE DEF D
    <3>1. \A i \in Nat : i # 0 => i - 1 \in Nat
      OBVIOUS
    <3>2. \A i \in Nat : i # 0 => f[i - 1] \in D
      BY <2>2, <3>1
    <3> QED  BY <3>2
  <2>4. Eq(f)
    <3> HIDE DEF s
    <3> QED  BY <2>2, <2>3
  <2> HIDE DEF Eq
  <2> QED  BY <2>4
<1>7. Extreme(near, far, start) = at[Rounds]
  BY DEF Extreme
<1>8. at[0] = start /\ \A i \in Nat : at[i + 1] = Go(at[i])
  <2> HIDE DEF at, Go
  <2>1. \A i \in Nat : at[i] = IF i = 0 THEN start ELSE Go(at[i - 1])
    BY <1>6
  <2>2. \A i \in Nat : i + 1 \in Nat /\ i + 1 # 0 /\ (i + 1) - 1 = i
    OBVIOUS
  <2> QED  BY <2>1, <2>2
<1> HIDE DEF at, Eq, s
<1> DEFINE Leaf(n) == near[n] = Null /\ far[n] = Null
           N == {i \in Nat : /\ at[i] \in D
                             /\ \/ at[i] = -1
                                \/ Leaf(at[i])
                                \/ Cardinality(below[at[i]]) <= MaxKey - i}
<1>9. 0 \in N
  <2>1. at[0] \in D /\ at[0] \in S
    BY <1>2, <1>8
  <2>2. Cardinality(below[at[0]]) \in 1 .. MaxKey
    BY <2>1, Subtrees
  <2>3. Cardinality(below[at[0]]) <= MaxKey - 0
    BY <2>2, AvlAssumption
  <2> HIDE DEF D
  <2> QED  BY <2>1, <2>3
<1>10. ASSUME NEW i \in Nat, i \in N PROVE i + 1 \in N
  <2> DEFINE n == at[i]
  <2>1. n \in D /\ at[i + 1] = Go(n)
    BY <1>8, <1>10
  <2>2. at[i + 1] \in D
    <3> HIDE DEF Go, D, n
    <3> QED  BY <1>5, <2>1
  <2>3. CASE n = -1
    <3>1. at[i + 1] = -1
      BY <1>4, <2>1, <2>3
    <3> QED  BY <2>2, <3>1
  <2>4. CASE n # -1 /\ Leaf(n)
    <3>1. at[i + 1] = n
      BY <2>1, <2>4
    <3> QED  BY <2>2, <2>4, <3>1
  <2>5. CASE n # -1 /\ ~Leaf(n)
    <3>1. n \in S /\ Cardinality(below[n]) <= MaxKey - i /\ Cardinality(below[n]) \in Nat
      <4>1. n \in S
        BY <2>1, <2>5
      <4> QED  BY <1>10, <2>5, <4>1, Subtrees
    <3>2. CASE near[n] # Null
      <4>1. at[i + 1] = near[n] /\ near[n] \in S
        BY <2>1, <2>5, <3>1, <3>2, Children
      <4>2. Cardinality(below[near[n]]) < Cardinality(below[n]) /\ Cardinality(below[near[n]]) \in Nat
        BY <3>1, <3>2, <4>1, Subtrees
      <4>3. Cardinality(below[near[n]]) <= MaxKey - (i + 1)
        BY <3>1, <4>2, AvlAssumption
      <4> QED  BY <2>2, <4>1, <4>3
    <3>3. CASE near[n] = Null
      <4> DEFINE r == far[n]
      <4>1. r # Null /\ r \in S
        BY <2>5, <3>1, <3>3, Children
      <4>2. CASE near[r] = Null
        <5>1. at[i + 1] = -1
          BY <2>1, <2>5, <3>3, <4>1, <4>2
        <5> QED  BY <2>2, <5>1
      <4>3. CASE near[r] # Null
        <5>1. at[i + 1] = near[r] /\ near[r] \in S
          BY <2>1, <2>5, <3>3, <4>1, <4>3, Children
        <5>2. /\ Cardinality(below[r]) < Cardinality(below[n]) /\ Cardinality(below[r]) \in Nat
              /\ Cardinality(below[near[r]]) < Cardinality(below[r])
              /\ Cardinality(below[near[r]]) \in Nat
          BY <3>1, <4>1, <4>3, <5>1, Subtrees
        <5>3. Cardinality(below[near[r]]) <= MaxKey - (i + 1)
          BY <3>1, <5>2, AvlAssumption
        <5> QED  BY <2>2, <5>1, <5>3
      <4> QED  BY <4>2, <4>3
    <3> QED  BY <3>2, <3>3
  <2> QED  BY <2>3, <2>4, <2>5
<1> HIDE DEF N
<1>11. \A i \in Nat : i \in N
  BY <1>9, <1>10, Induction
<1>12. Rounds \in Nat /\ Rounds > MaxKey /\ MaxKey \in Nat
  BY AvlAssumption DEF Rounds
<1> DEFINE e == at[Rounds]
<1>13. e \in D /\ (e = -1 \/ Leaf(e) \/ Cardinality(below[e]) <= MaxKey - Rounds)
  BY <1>11, <1>12 DEF N
<1>14. e # -1 => e \in S /\ Cardinality(below[e]) \in 1 .. MaxKey
  BY <1>13, Subtrees
<1>15. e # -1 => Leaf(e)
  BY <1>12, <1>13, <1>14
<1>16. ASSUME e # -1, even PROVE FirstOf(up, below[start], e)
  <2>1. Least(e) /\ e \in S /\ Leaf(e)
    BY <1>13, <1>15, <1>16
  <2>2. below[e] = {e}
    BY <2>1 DEF Shape, NodeOK
  <2> QED  BY <2>1, <2>2 DEF Least, FirstOf
<1>17. e = -1 \/ (e \in S /\ e \in below[start] /\ Leaf(e) /\ (even => FirstOf(up, below[start], e)))
  <2> HIDE DEF e
  <2> QED  BY <1>13, <1>14, <1>15, <1>16
<1> QED  BY <1>7, <1>17 DEF even, e, Found

--------------------------------------------------------------------------------
(* Ways up                                                                 *)

\* The links of nodes lead to nodes.
LEMMA TreeFacts ==
  ASSUME NEW T, NEW S, NEW o, IsTree(T, S, o)
  PROVE  /\ T \in Record /\ S \subseteq Key /\ Null \notin S
         /\ \A n \in S : /\ T.parent[n] \in S \cup {Null}
                         /\ T.left[n] \in S \cup {Null} /\ T.right[n] \in S \cup {Null}
<1>1. PICK below : Tree(T, S, below)
  BY DEF IsTree
<1>2. Shape(T.root, T.left, T.right, T.parent, S, below) /\ T \in Record
  BY <1>1 DEF Tree
<1>3. Facts(T.left, T.right, T.parent, S, below)
  BY <1>2, ShapeFacts
<1>4. \A n \in S : T.parent[n] \in S \cup {Null}
  BY <1>2 DEF Shape, RootOK
<1> QED  BY <1>2, <1>3, <1>4 DEF Facts

\* Heights are natural numbers.
LEMMA HeightsAreNumbers ==
  ASSUME NEW T \in Record, NEW n \in Key
  PROVE  /\ Height(T, T.left[n]) \in Nat /\ Height(T, T.right[n]) \in Nat /\ T.height[n] \in Nat
         /\ T.left[n] \in Node /\ T.right[n] \in Node
  BY DEF Height, Record, Node

\* Updating heights on the way up changes nothing else.
LEMMA UpdateUpKeeps ==
  ASSUME NEW T \in Record, NEW n \in Node
  PROVE  SameLinks(T, UpdateUp(T, n)) /\ UpdateUp(T, n).crashed = T.crashed
<1> DEFINE Up(w) == IF w.at = Null THEN w
                    ELSE [tree |-> UpdateHeight(w.tree, w.at), at |-> w.tree.parent[w.at]]
           start == [tree |-> T, at |-> n]
           Trees == {U \in Record : SameLinks(T, U) /\ U.crashed = T.crashed}
           D == [tree : Trees, at : Node]
           Eq(f) == f = [i \in Nat |-> IF i = 0 THEN start ELSE Up(f[i - 1])]
           walk == CHOOSE f : Eq(f)
<1>1. start \in D
  BY DEF SameLinks
<1>2. ASSUME NEW w \in D PROVE Up(w) \in D
  <2>1. CASE w.at = Null
    BY <2>1
  <2>2. CASE w.at # Null
    <3>1. w.tree \in Record /\ w.at \in Key /\ SameLinks(T, w.tree) /\ w.tree.crashed = T.crashed
      BY <2>2 DEF Node
    <3> DEFINE U == UpdateHeight(w.tree, w.at)
    <3>2. SameLinks(w.tree, U) /\ U.crashed = T.crashed
      BY <3>1, HeightKeeps
    <3> HIDE DEF U
    <3>3. U \in Trees
      BY <3>1, <3>2, LinksCompose DEF SameLinks
    <3>4. w.tree.parent[w.at] \in Node
      BY <3>1 DEF Record
    <3> HIDE DEF Trees
    <3> QED  BY <2>2, <3>3, <3>4 DEF U
  <2> QED  BY <2>1, <2>2
<1> DEFINE s == [w \in D |-> Up(w)]
<1>3. Eq(walk)
  <2> HIDE DEF Up, D, start
  <2>1. s \in [D -> D]
    BY <1>2
  <2>2. PICK f : (\A i \in Nat : f[i] \in D)
                 /\ f = [i \in Nat |-> IF i = 0 THEN start ELSE s[f[i - 1]]]
    <3> HIDE DEF s
    <3> QED  BY <1>1, <2>1, LoopDef
  <2>3. \A i \in Nat : i # 0 => s[f[i - 1]] = Up(f[i - 1])
    <3>1. \A i \in Nat : i # 0 => i - 1 \in Nat
      OBVIOUS
    <3> QED  BY <2>2, <3>1
  <2>4. Eq(f)
    <3> HIDE DEF s
    <3> QED  BY <2>2, <2>3
  <2> HIDE DEF Eq
  <2> QED  BY <2>4
<1>4. UpdateUp(T, n) = walk[Rounds].tree
  BY DEF UpdateUp
<1> HIDE DEF walk, Up, D, start
<1>5. \A i \in Nat : walk[i] = IF i = 0 THEN start ELSE Up(walk[i - 1])
  BY <1>3
<1> HIDE DEF Eq
<1> DEFINE N == {i \in Nat : walk[i] \in D}
<1>6. 0 \in N
  BY <1>1, <1>5
<1>7. ASSUME NEW i \in Nat, i \in N PROVE i + 1 \in N
  <2>1. i + 1 \in Nat /\ i + 1 # 0 /\ (i + 1) - 1 = i
    OBVIOUS
  <2>2. walk[i + 1] = Up(walk[i])
    BY <1>5, <2>1
  <2> QED  BY <1>2, <1>7, <2>1, <2>2
<1> HIDE DEF N
<1>8. \A i \in Nat : i \in N
  BY <1>6, <1>7, Induction
<1>9. Rounds \in Nat
  BY AvlAssumption DEF Rounds
<1>10. walk[Rounds] \in D
  BY <1>8, <1>9 DEF N
<1> QED  BY <1>4, <1>10 DEF D

\* The walk of BalanceNode.
WalkStart(T, k) == [tree |-> T, k |-> k, last |-> k, at |-> T.parent[k], i |-> 2]

Walking(S) == [tree : Record, k : Key, last : S, at : S \cup {Null}, i : Nat]

Walk(T, S, o, k, walk) ==
  /\ BalanceNode(T, k) = walk[Rounds].tree
  /\ walk[0] = WalkStart(T, k)
  /\ \A i \in Nat : /\ walk[i] \in Walking(S) /\ walk[i + 1] = Balance(walk[i])
                    /\ IsTree(walk[i].tree, S, o)

\* It rotates the tree, if anything.
LEMMA BalanceWalk ==
  ASSUME NEW T, NEW S, NEW o, IsTree(T, S, o), NEW k \in S
  PROVE  \E walk : Walk(T, S, o, k, walk)
<1> DEFINE start == WalkStart(T, k)
           Trees == {U \in Record : IsTree(U, S, o)}
           D == [tree : Trees, k : Key, last : S, at : S \cup {Null}, i : Nat]
           Eq(f) == f = [i \in Nat |-> IF i = 0 THEN start ELSE Balance(f[i - 1])]
           walk == CHOOSE f : Eq(f)
<1>1. start \in D
  BY TreeFacts DEF WalkStart
<1>2. ASSUME NEW w \in D PROVE Balance(w) \in D
  <2> DEFINE n == w.at
             A == [w.tree EXCEPT !.height[n] = Larger(@, w.i)]
             onLeft == w.last = A.left[n]
             toRight == Search(A, w.k, A.right[w.last]) # Null
             R == Rotate(A, n, w.last, onLeft, toRight)
  <2>1. CASE n = Null
    <3>1. Balance(w) = w
      BY <2>1 DEF Balance
    <3> QED  BY <3>1
  <2>2. CASE n # Null
    <3>1. /\ n \in S /\ w.tree \in Record /\ IsTree(w.tree, S, o) /\ w.last \in S /\ w.k \in Key
          /\ w.i \in Nat /\ S \subseteq Key
      BY <2>2, TreeFacts
    <3>2. SameLinks(w.tree, A)
      <4>1. Larger(w.tree.height[n], w.i) \in Nat
        BY <3>1 DEF Record, Larger
      <4> QED  BY <3>1, <4>1 DEF Record, SameLinks
    <3> HIDE DEF A
    <3>3. IsTree(A, S, o) /\ A \in Record
      BY <3>1, <3>2, SameTree DEF SameLinks
    <3>4. CASE InBalance(A, n)
      <4>1. Balance(w) = [w EXCEPT !.tree = A, !.last = n, !.at = A.parent[n], !.i = @ + 1]
        BY <2>2, <3>4 DEF Balance, A
      <4>2. A.parent[n] \in S \cup {Null}
        BY <3>1, <3>3, TreeFacts
      <4>3. w.i + 1 \in Nat
        BY <3>1
      <4>4. A \in Trees
        BY <3>3
      <4> HIDE DEF Trees
      <4> QED  BY <3>1, <4>1, <4>2, <4>3, <4>4
    <3>5. CASE ~InBalance(A, n)
      <4>1. Balance(w) = [w EXCEPT !.tree = R, !.at = Null]
        BY <2>2, <3>5 DEF Balance, A
      <4>2. IsTree(R, S, o)
        <5>1. onLeft \in BOOLEAN /\ toRight \in BOOLEAN
          OBVIOUS
        <5> HIDE DEF onLeft, toRight
        <5> QED  BY <3>1, <3>3, <5>1, RotateTree
      <4>3. R \in Trees
        <5> HIDE DEF R
        <5> QED  BY <4>2, TreeFacts
      <4> HIDE DEF Trees, R
      <4> QED  BY <4>1, <4>3
    <3> QED  BY <3>4, <3>5
  <2> QED  BY <2>1, <2>2
<1> DEFINE s == [w \in D |-> Balance(w)]
<1>3. Eq(walk)
  <2> HIDE DEF D, start
  <2>1. s \in [D -> D]
    BY <1>2
  <2>2. PICK f : (\A i \in Nat : f[i] \in D)
                 /\ f = [i \in Nat |-> IF i = 0 THEN start ELSE s[f[i - 1]]]
    <3> HIDE DEF s
    <3> QED  BY <1>1, <2>1, LoopDef
  <2>3. \A i \in Nat : i # 0 => s[f[i - 1]] = Balance(f[i - 1])
    <3>1. \A i \in Nat : i # 0 => i - 1 \in Nat
      OBVIOUS
    <3> QED  BY <2>2, <3>1
  <2>4. Eq(f)
    <3> HIDE DEF s
    <3> QED  BY <2>2, <2>3
  <2> HIDE DEF Eq
  <2> QED  BY <2>4
<1>4. BalanceNode(T, k) = walk[Rounds].tree
  BY DEF BalanceNode, WalkStart
<1> HIDE DEF walk, D, start
<1>5. \A i \in Nat : walk[i] = IF i = 0 THEN start ELSE Balance(walk[i - 1])
  BY <1>3
<1> HIDE DEF Eq
<1> DEFINE N == {i \in Nat : walk[i] \in D}
<1>6. 0 \in N
  BY <1>1, <1>5
<1>7. ASSUME NEW i \in Nat, i \in N PROVE i + 1 \in N
  <2>1. i + 1 \in Nat /\ i + 1 # 0 /\ (i + 1) - 1 = i
    OBVIOUS
  <2>2. walk[i + 1] = Balance(walk[i])
    BY <1>5, <2>1
  <2> QED  BY <1>2, <1>7, <2>1, <2>2
<1> HIDE DEF N
<1>8. \A i \in Nat : i \in N
  BY <1>6, <1>7, Induction
<1>9. \A i \in Nat : walk[i] \in Walking(S) /\ IsTree(walk[i].tree, S, o)
  BY <1>8 DEF N, D, Walking
<1>10. \A i \in Nat : walk[i + 1] = Balance(walk[i])
  <2>1. \A i \in Nat : i + 1 \in Nat /\ i + 1 # 0 /\ (i + 1) - 1 = i
    OBVIOUS
  <2> QED  BY <1>5, <2>1
<1>11. walk[0] = WalkStart(T, k)
  BY <1>5 DEF start
<1> QED  BY <1>4, <1>9, <1>10, <1>11 DEF Walk

LEMMA BalanceNodeTree ==
  ASSUME NEW T, NEW S, NEW o, IsTree(T, S, o), NEW k \in S
  PROVE  IsTree(BalanceNode(T, k), S, o)
<1>1. PICK walk : Walk(T, S, o, k, walk)
  BY BalanceWalk
<1>2. Rounds \in Nat
  BY AvlAssumption DEF Rounds
<1> QED  BY <1>1, <1>2 DEF Walk

\* So does the climb after a removal.
LEMMA RebalanceTree ==
  ASSUME NEW T, NEW S, NEW o, IsTree(T, S, o), NEW p \in S \cup {Null}
  PROVE  IsTree(Rebalance(T, p), S, o)
<1> DEFINE start == [tree |-> T, at |-> p]
           Trees == {U \in Record : IsTree(U, S, o)}
           D == [tree : Trees, at : S \cup {Null}]
           Eq(f) == f = [i \in Nat |-> IF i = 0 THEN start ELSE Climb(f[i - 1])]
           walk == CHOOSE f : Eq(f)
<1>1. start \in D
  BY TreeFacts
<1>2. ASSUME NEW w \in D PROVE Climb(w) \in D
  <2> DEFINE U == w.tree
             n == w.at
             onLeft == Imbalance(U, n) > 0
             y == IF onLeft THEN U.left[n] ELSE U.right[n]
             toRight == Imbalance(U, y) <= 0
             A == IF InBalance(U, n) THEN U ELSE Rotate(U, n, y, onLeft, toRight)
  <2>1. CASE n = Null \/ U.crashed
    <3>1. Climb(w) = w
      BY <2>1 DEF Climb
    <3> QED  BY <3>1
  <2>2. CASE ~(n = Null \/ U.crashed)
    <3>1. Climb(w) = [tree |-> A, at |-> A.parent[n]]
      BY <2>2 DEF Climb
    <3>2. n \in S /\ IsTree(U, S, o) /\ U \in Record
      BY <2>2
    <3>3. IsTree(A, S, o)
      <4>1. CASE InBalance(U, n)
        BY <3>2, <4>1
      <4>2. CASE ~InBalance(U, n)
        <5>1. /\ Height(U, U.left[n]) \in Nat /\ Height(U, U.right[n]) \in Nat
              /\ U.left[n] \in S \cup {Null} /\ U.right[n] \in S \cup {Null}
          BY <3>2, TreeFacts, HeightsAreNumbers
        <5>2. y \in S
          BY <4>2, <5>1 DEF InBalance, Imbalance, Height
        <5>3. onLeft \in BOOLEAN /\ toRight \in BOOLEAN
          OBVIOUS
        <5> HIDE DEF onLeft, toRight, y
        <5>4. IsTree(Rotate(U, n, y, onLeft, toRight), S, o)
          BY <3>2, <5>2, <5>3, RotateTree
        <5> QED  BY <4>2, <5>4
      <4> QED  BY <4>1, <4>2
    <3> HIDE DEF A
    <3>4. A \in Trees /\ A.parent[n] \in S \cup {Null}
      BY <3>2, <3>3, TreeFacts
    <3> HIDE DEF Trees
    <3> QED  BY <3>1, <3>4
  <2> QED  BY <2>1, <2>2
<1> DEFINE s == [w \in D |-> Climb(w)]
<1>3. Eq(walk)
  <2> HIDE DEF D, start
  <2>1. s \in [D -> D]
    BY <1>2
  <2>2. PICK f : (\A i \in Nat : f[i] \in D)
                 /\ f = [i \in Nat |-> IF i = 0 THEN start ELSE s[f[i - 1]]]
    <3> HIDE DEF s
    <3> QED  BY <1>1, <2>1, LoopDef
  <2>3. \A i \in Nat : i # 0 => s[f[i - 1]] = Climb(f[i - 1])
    <3>1. \A i \in Nat : i # 0 => i - 1 \in Nat
      OBVIOUS
    <3> QED  BY <2>2, <3>1
  <2>4. Eq(f)
    <3> HIDE DEF s
    <3> QED  BY <2>2, <2>3
  <2> HIDE DEF Eq
  <2> QED  BY <2>4
<1>4. Rebalance(T, p) = walk[Rounds].tree
  BY DEF Rebalance
<1> HIDE DEF walk, D, start
<1>5. \A i \in Nat : walk[i] = IF i = 0 THEN start ELSE Climb(walk[i - 1])
  BY <1>3
<1> HIDE DEF Eq
<1> DEFINE N == {i \in Nat : walk[i] \in D}
<1>6. 0 \in N
  BY <1>1, <1>5
<1>7. ASSUME NEW i \in Nat, i \in N PROVE i + 1 \in N
  <2>1. i + 1 \in Nat /\ i + 1 # 0 /\ (i + 1) - 1 = i
    OBVIOUS
  <2>2. walk[i + 1] = Climb(walk[i])
    BY <1>5, <2>1
  <2> QED  BY <1>2, <1>7, <2>1, <2>2
<1> HIDE DEF N
<1>8. \A i \in Nat : i \in N
  BY <1>6, <1>7, Induction
<1>9. Rounds \in Nat
  BY AvlAssumption DEF Rounds
<1>10. walk[Rounds] \in D
  BY <1>8, <1>9 DEF N
<1> QED  BY <1>4, <1>10 DEF D

--------------------------------------------------------------------------------
(* What is in the tree                                                     *)

\* Going down from n as often as there are keys reaches all that is below n.
LEMMA NodesBelowLemma ==
  ASSUME NEW T, NEW S, NEW below, Tree(T, S, below), NEW n \in S \cup {Null}
  PROVE  NodesBelow(T, n) = below[n]
<1> DEFINE Sets(X) == {{b, T.left[b], T.right[b]} : b \in X}
           Wider(X) == (UNION Sets(X)) \ {Null}
           start == {n} \ {Null}
           D == SUBSET below[n]
           Eq(f) == f = [i \in Nat |-> IF i = 0 THEN start ELSE Wider(f[i - 1])]
           lev == CHOOSE f : Eq(f)
<1>1. Shape(T.root, T.left, T.right, T.parent, S, below)
  BY DEF Tree
<1>2. Facts(T.left, T.right, T.parent, S, below)
  BY <1>1, ShapeFacts
<1>3. start \in D
  BY <1>2 DEF Facts
<1>4. ASSUME NEW X \in D PROVE Wider(X) \in D
  <2> SUFFICES ASSUME NEW c \in Wider(X) PROVE c \in below[n]
    BY DEF Wider
  <2>0. PICK b \in X : c \in {b, T.left[b], T.right[b]} /\ c # Null
    <3>1. (\E Y \in Sets(X) : c \in Y) /\ c # Null
      <4> HIDE DEF Sets
      <4> QED  OBVIOUS
    <3>2. PICK Y \in Sets(X) : c \in Y
      BY <3>1
    <3> HIDE DEF Wider
    <3> QED  BY <3>1, <3>2
  <2>1. b \in below[n] /\ b \in S /\ n \in S
    BY <1>2, <2>0 DEF Facts
  <2>2. below[b] \subseteq below[n]
    BY <1>1, <2>1, Below
  <2>3. c \in S
    BY <1>2, <2>0, <2>1 DEF Facts
  <2>4. c \in below[b]
    BY <1>2, <2>0, <2>1, <2>3 DEF Facts
  <2> QED  BY <2>2, <2>4
<1> DEFINE s == [X \in D |-> Wider(X)]
<1>5. Eq(lev)
  <2> HIDE DEF D, start, Wider
  <2>1. s \in [D -> D]
    BY <1>4
  <2>2. PICK f : (\A i \in Nat : f[i] \in D)
                 /\ f = [i \in Nat |-> IF i = 0 THEN start ELSE s[f[i - 1]]]
    <3> HIDE DEF s
    <3> QED  BY <1>3, <2>1, LoopDef
  <2>3. \A i \in Nat : i # 0 => s[f[i - 1]] = Wider(f[i - 1])
    <3>1. \A i \in Nat : i # 0 => i - 1 \in Nat
      OBVIOUS
    <3> QED  BY <2>2, <3>1
  <2>4. Eq(f)
    <3> HIDE DEF s
    <3> QED  BY <2>2, <2>3
  <2> HIDE DEF Eq
  <2> QED  BY <2>4
<1>6. NodesBelow(T, n) = lev[MaxKey]
  BY DEF NodesBelow
<1> HIDE DEF lev, s
<1>7. lev[0] = start /\ \A i \in Nat : lev[i + 1] = Wider(lev[i])
  <2> HIDE DEF Wider, start
  <2>1. \A i \in Nat : lev[i] = IF i = 0 THEN start ELSE Wider(lev[i - 1])
    BY <1>5
  <2>2. \A i \in Nat : i + 1 \in Nat /\ i + 1 # 0 /\ (i + 1) - 1 = i
    OBVIOUS
  <2> QED  BY <2>1, <2>2
<1> HIDE DEF Eq
<1>8. MaxKey \in Nat
  BY AvlAssumption
<1>9. lev[MaxKey] \subseteq below[n]
  <2> DEFINE N == {i \in Nat : lev[i] \in D}
  <2>1. 0 \in N
    BY <1>3, <1>7
  <2>2. ASSUME NEW i \in Nat, i \in N PROVE i + 1 \in N
    <3> HIDE DEF D, Wider
    <3> QED  BY <1>4, <1>7, <2>2
  <2> HIDE DEF N, D
  <2>3. \A i \in Nat : i \in N
    BY <2>1, <2>2, Induction
  <2> QED  BY <1>8, <2>3 DEF N, D
<1>10. ASSUME NEW i \in Nat, NEW x \in lev[i], x \in S
       PROVE  /\ x \in lev[i + 1]
              /\ T.left[x] # Null => T.left[x] \in lev[i + 1]
              /\ T.right[x] # Null => T.right[x] \in lev[i + 1]
  <2>1. lev[i + 1] = Wider(lev[i]) /\ x # Null
    BY <1>2, <1>7, <1>10 DEF Facts
  <2>2. ASSUME NEW X, x \in X, NEW c \in {x, T.left[x], T.right[x]}, c # Null
        PROVE  c \in Wider(X)
    <3>1. \E Y \in Sets(X) : c \in Y
      BY <2>2
    <3> HIDE DEF Sets
    <3> QED  BY <2>2, <3>1
  <2> HIDE DEF Wider
  <2> QED  BY <2>1, <2>2
<1> HIDE DEF Wider, D
<1> DEFINE Q(x, i, j) == x \in lev[i] => /\ x \in lev[i + j]
                                         /\ Cardinality(below[x]) <= j => below[x] \subseteq lev[i + j]
           N == {j \in Nat : \A x \in S : \A i \in Nat : Q(x, i, j)}
<1>11. 0 \in N
  <2> SUFFICES ASSUME NEW x \in S, NEW i \in Nat, x \in lev[i]
               PROVE  x \in lev[i + 0] /\ ~(Cardinality(below[x]) <= 0)
    OBVIOUS
  <2>1. Cardinality(below[x]) \in 1 .. MaxKey
    BY <1>1, Subtrees
  <2> QED  BY <1>8, <2>1
<1>12. ASSUME NEW j \in Nat, j \in N PROVE j + 1 \in N
  <2> SUFFICES ASSUME NEW x \in S, NEW i \in Nat PROVE Q(x, i, j + 1)
    OBVIOUS
  <2> SUFFICES ASSUME x \in lev[i]
               PROVE  /\ x \in lev[i + (j + 1)]
                      /\ Cardinality(below[x]) <= j + 1 => below[x] \subseteq lev[i + (j + 1)]
    OBVIOUS
  <2>1. i + 1 \in Nat /\ (i + 1) + j = i + (j + 1)
    OBVIOUS
  <2>2. x \in lev[i + (j + 1)]
    <3>1. x \in lev[i + 1]
      BY <1>10
    <3>2. Q(x, i + 1, j)
      BY <1>12, <2>1
    <3> QED  BY <2>1, <3>1, <3>2
  <2>3. ASSUME Cardinality(below[x]) <= j + 1, NEW c \in {T.left[x], T.right[x]}, c # Null
        PROVE  below[c] \subseteq lev[i + (j + 1)]
    <3>1. c \in S /\ c \in lev[i + 1]
      BY <1>2, <1>10, <2>3 DEF Facts
    <3>2. /\ Cardinality(below[c]) < Cardinality(below[x])
          /\ Cardinality(below[c]) \in 1 .. MaxKey /\ Cardinality(below[x]) \in 1 .. MaxKey
      BY <1>1, <2>3, <3>1, Subtrees
    <3>3. Cardinality(below[c]) <= j
      BY <1>8, <2>3, <3>2
    <3>4. Q(c, i + 1, j)
      BY <1>12, <2>1, <3>1
    <3> QED  BY <2>1, <3>1, <3>3, <3>4
  <2>4. below[x] = {x} \cup below[T.left[x]] \cup below[T.right[x]] /\ below[Null] = {}
    BY <1>2 DEF Facts
  <2> QED  BY <2>2, <2>3, <2>4
<1> HIDE DEF N
<1>13. \A j \in Nat : j \in N
  BY <1>11, <1>12, Induction
<1>14. below[n] \subseteq lev[MaxKey]
  <2>1. CASE n = Null
    BY <1>2, <2>1 DEF Facts
  <2>2. CASE n # Null
    <3>1. n \in S /\ n \in lev[0]
      BY <1>7, <2>2
    <3>2. Cardinality(below[n]) \in 1 .. MaxKey
      BY <1>1, <3>1, Subtrees
    <3>3. Q(n, 0, MaxKey)
      BY <1>8, <1>13, <3>1 DEF N
    <3>4. below[n] \subseteq lev[0 + MaxKey]
      BY <1>8, <3>1, <3>2, <3>3
    <3> QED  BY <1>8, <3>4
  <2> QED  BY <2>1, <2>2
<1> QED  BY <1>6, <1>9, <1>14

--------------------------------------------------------------------------------
(* Insert                                                                  *)

\* The tree with the new leaf k, before it is balanced.
Hung(T, k) ==
  LET A == [T EXCEPT !.height[k] = 1]
      p == LeafFor(T, k)
      B == IF k > p THEN [A EXCEPT !.right[p] = k, !.parent[k] = p]
                    ELSE [A EXCEPT !.left[p] = k, !.parent[k] = p]
  IN UpdateHeight(B, p)

\* Its nodes, links and heights.
HungUnder(T, S, below, k, p, C) ==
  /\ p \in S /\ Toward(T, p, k) = Null
  /\ Tree(C, S \cup {k}, BelowAdded(below, S, p, k))
  /\ Ordered(TRUE, T.left, T.right, S, below)
       => Ordered(TRUE, C.left, C.right, S \cup {k}, BelowAdded(below, S, p, k))
  /\ C.left = IF k > p THEN T.left ELSE [T.left EXCEPT ![p] = k]
  /\ C.right = IF k > p THEN [T.right EXCEPT ![p] = k] ELSE T.right
  /\ C.parent = [T.parent EXCEPT ![k] = p] /\ C.crashed = T.crashed
  /\ LET h == [T.height EXCEPT ![k] = 1]
         high(c) == IF c = Null THEN 0 ELSE h[c]
     IN C.height = [h EXCEPT ![p] = Larger(high(C.left[p]), high(C.right[p])) + 1]

LEMMA HungTree ==
  ASSUME NEW T, NEW S, NEW below, Tree(T, S, below), T.root # Null, NEW k \in Key \ S
  PROVE  /\ InsertKey(T, k) = BalanceNode(Hung(T, k), k)
         /\ HungUnder(T, S, below, k, LeafFor(T, k), Hung(T, k))
<1> DEFINE A == [T EXCEPT !.height[k] = 1]
           S2 == S \cup {k}
<1>02. /\ T \in Record /\ Unlinked(T, S) /\ Shape(T.root, T.left, T.right, T.parent, S, below)
      /\ k \in Key /\ k # Null
  BY KeyFacts DEF Tree
<1>03. /\ A \in Record /\ A.root = T.root /\ A.left = T.left /\ A.right = T.right
      /\ A.parent = T.parent /\ A.crashed = T.crashed /\ A.height = [T.height EXCEPT ![k] = 1]
  BY <1>02 DEF Record
<1> HIDE DEF A
<1>04. T.left[k] = Null /\ T.right[k] = Null /\ T.parent[k] = Null
  BY <1>02 DEF Unlinked
<1> DEFINE p == LeafFor(T, k)
           B == IF k > p THEN [A EXCEPT !.right[p] = k, !.parent[k] = p]
                         ELSE [A EXCEPT !.left[p] = k, !.parent[k] = p]
           C == UpdateHeight(B, p)
           o == Ordered(TRUE, T.left, T.right, S, below)
           below2 == BelowAdded(below, S, p, k)
<1>1. InsertKey(T, k) = BalanceNode(C, k)
  BY DEF InsertKey, A
<1>2. p \in S /\ Toward(T, p, k) = Null /\ Placed(TRUE, T.left, T.right, S, below, p, k)
  BY LeafForLemma
<1> HIDE DEF p
<1>3. p \in Key /\ p \in Nat /\ k \in Nat /\ p # k
  BY <1>02, <1>2, KeyFacts DEF Shape
<1>4. /\ B \in Record /\ B.root = T.root /\ B.parent = [T.parent EXCEPT ![k] = p]
      /\ B.crashed = T.crashed /\ B.height = [T.height EXCEPT ![k] = 1]
      /\ B.left = IF k > p THEN T.left ELSE [T.left EXCEPT ![p] = k]
      /\ B.right = IF k > p THEN [T.right EXCEPT ![p] = k] ELSE T.right
  <2>1. CASE k > p
    BY <1>02, <1>03, <1>3, <2>1 DEF Record, Node
  <2>2. CASE ~(k > p)
    BY <1>02, <1>03, <1>3, <2>2 DEF Record, Node
  <2> QED  BY <2>1, <2>2
<1> HIDE DEF B, C, below2, o
<1>5. /\ Shape(B.root, B.left, B.right, B.parent, S2, below2)
      /\ o => Ordered(TRUE, B.left, B.right, S2, below2)
  <2>1. CASE k > p
    <3>1. Shape(T.root, T.right, T.left, T.parent, S, below)
      BY <1>02, Mirrored
    <3>2. T.right[p] = Null
      BY <1>2, <2>1 DEF Toward
    <3>3. /\ Shape(T.root, B.right, T.left, B.parent, S2, below2)
          /\ InPlace(FALSE, T.right, T.left, S, below, p, k)
               => Ordered(FALSE, B.right, T.left, S2, below2)
      <4>1. B.right = [T.right EXCEPT ![p] = k] /\ B.parent = [T.parent EXCEPT ![k] = p]
        BY <1>4, <2>1
      <4>2. Added(T.right, T.left, T.parent, S, p, k, B.right, B.parent)
        BY <1>04, <1>2, <3>2, <4>1 DEF Added
      <4> QED  BY <3>1, <4>2, LeafAdded DEF below2
    <3>4. Shape(B.root, B.left, B.right, B.parent, S2, below2)
      BY <1>4, <2>1, <3>3, Mirrored
    <3>5. ASSUME o PROVE Ordered(TRUE, B.left, B.right, S2, below2)
      <4>1. Ordered(~TRUE, T.right, T.left, S, below)
        BY <3>5, MirroredOrder DEF o
      <4>2. Placed(FALSE, T.right, T.left, S, below, p, k)
        BY <1>2 DEF Placed, Before
      <4>3. Before(FALSE, k, p)
        BY <1>3, <2>1 DEF Before
      <4>4. Ordered(FALSE, B.right, T.left, S2, below2)
        BY <3>3, <4>1, <4>2, <4>3 DEF InPlace
      <4>5. Ordered(~FALSE, T.left, B.right, S2, below2)
        BY <4>4, MirroredOrder
      <4> QED  BY <1>4, <2>1, <4>5
    <3> QED  BY <3>4, <3>5
  <2>2. CASE ~(k > p)
    <3>2. T.left[p] = Null
      BY <1>2, <2>2 DEF Toward
    <3>3. /\ Shape(T.root, B.left, T.right, B.parent, S2, below2)
          /\ InPlace(TRUE, T.left, T.right, S, below, p, k)
               => Ordered(TRUE, B.left, T.right, S2, below2)
      <4>1. B.left = [T.left EXCEPT ![p] = k] /\ B.parent = [T.parent EXCEPT ![k] = p]
        BY <1>4, <2>2
      <4>2. Added(T.left, T.right, T.parent, S, p, k, B.left, B.parent)
        BY <1>04, <1>2, <3>2, <4>1 DEF Added
      <4> QED  BY <1>02, <4>2, LeafAdded DEF below2
    <3>4. Before(TRUE, k, p)
      BY <1>3, <2>2 DEF Before
    <3> QED  BY <1>2, <1>4, <2>2, <3>3, <3>4 DEF InPlace, o
  <2> QED  BY <2>1, <2>2
<1>6. Unlinked(B, S2)
  BY <1>02, <1>2, <1>4 DEF Unlinked, Record
<1>7. /\ SameLinks(B, C) /\ C.crashed = B.crashed
      /\ C.height = [B.height EXCEPT ![p] = Larger(Height(B, B.left[p]), Height(B, B.right[p])) + 1]
  BY <1>3, <1>4, HeightKeeps DEF C
<1>8. Tree(C, S2, below2)
  BY <1>4, <1>5, <1>6, <1>7 DEF Tree, SameLinks, Unlinked
<1>9. o => Ordered(TRUE, C.left, C.right, S2, below2)
  BY <1>5, <1>7 DEF SameLinks
<1>10. Hung(T, k) = C
  BY DEF Hung, C, B, A, p
<1> DEFINE h == [T.height EXCEPT ![k] = 1]
           high(c) == IF c = Null THEN 0 ELSE h[c]
<1>11. C.height = [h EXCEPT ![p] = Larger(high(C.left[p]), high(C.right[p])) + 1]
  BY <1>4, <1>7 DEF Height, SameLinks
<1>12. HungUnder(T, S, below, k, p, C)
  <2> HIDE DEF h
  <2> QED  BY <1>2, <1>4, <1>7, <1>8, <1>9, <1>11 DEF HungUnder, SameLinks, S2, below2, o, h
<1> QED  BY <1>1, <1>10, <1>12 DEF p

\* Insert adds k to the nodes of the tree, and keeps the order.
LEMMA InsertTree ==
  ASSUME NEW T, NEW S, NEW o, IsTree(T, S, o), NEW k \in Key \ S
  PROVE  IsTree(InsertKey(T, k), S \cup {k}, o)
<1> DEFINE A == [T EXCEPT !.height[k] = 1]
           S2 == S \cup {k}
<1>1. PICK below : Tree(T, S, below) /\ (o => Ordered(TRUE, T.left, T.right, S, below))
  BY DEF IsTree
<1>2. /\ T \in Record /\ Unlinked(T, S) /\ Shape(T.root, T.left, T.right, T.parent, S, below)
      /\ k \in Key /\ k # Null
  BY <1>1, KeyFacts DEF Tree
<1>3. /\ A \in Record /\ A.root = T.root /\ A.left = T.left /\ A.right = T.right
      /\ A.parent = T.parent /\ A.crashed = T.crashed
  BY <1>2 DEF Record
<1> HIDE DEF A
<1>4. T.left[k] = Null /\ T.right[k] = Null /\ T.parent[k] = Null
  BY <1>2 DEF Unlinked
<1>5. CASE T.root = Null
  <2> DEFINE U == [A EXCEPT !.root = k]
             below2 == [x \in S2 \cup {Null} |-> IF x = k THEN {k} ELSE {}]
  <2>1. S = {}
    BY <1>2, <1>5 DEF Shape, RootOK
  <2>2. InsertKey(T, k) = U
    BY <1>5 DEF InsertKey, A
  <2>3. /\ U \in Record /\ U.root = k /\ U.left = T.left /\ U.right = T.right /\ U.parent = T.parent
    BY <1>2, <1>3 DEF Record, Node
  <2> HIDE DEF U
  <2>4. /\ below2 \in [S2 \cup {Null} -> SUBSET S2] /\ below2[k] = {k} /\ below2[Null] = {}
        /\ S2 = {k}
    BY <1>2, <2>1
  <2> HIDE DEF below2, S2
  <2>5. NodeOK(U.left, U.right, U.parent, S2, below2, k)
    BY <1>4, <2>3, <2>4 DEF NodeOK
  <2>6. RootOK(U.root, U.left, U.right, U.parent, S2, below2)
    BY <1>4, <2>3, <2>4 DEF RootOK
  <2>7. Shape(U.root, U.left, U.right, U.parent, S2, below2)
    BY <1>2, <2>3, <2>4, <2>5, <2>6 DEF Shape, Record
  <2>8. Unlinked(U, S2)
    BY <1>2, <2>1, <2>3 DEF Unlinked
  <2>9. Ordered(TRUE, U.left, U.right, S2, below2)
    BY <1>4, <2>3, <2>4 DEF Ordered
  <2>10. IsTree(U, S2, o)
    BY <2>3, <2>7, <2>8, <2>9 DEF IsTree, Tree
  <2> QED  BY <2>2, <2>10 DEF S2
<1>6. CASE T.root # Null
  <2> DEFINE C == Hung(T, k)
             p == LeafFor(T, k)
             below2 == BelowAdded(below, S, p, k)
  <2>1. InsertKey(T, k) = BalanceNode(C, k) /\ HungUnder(T, S, below, k, p, C)
    BY <1>1, <1>6, HungTree
  <2> HIDE DEF C, p
  <2>2. Tree(C, S2, below2) /\ (o => Ordered(TRUE, C.left, C.right, S2, below2))
    BY <1>1, <2>1 DEF HungUnder
  <2>3. IsTree(C, S2, o) /\ k \in S2
    BY <2>2 DEF IsTree
  <2> HIDE DEF S2
  <2>4. IsTree(BalanceNode(C, k), S2, o)
    BY <2>3, BalanceNodeTree
  <2> QED  BY <2>1, <2>4 DEF S2
<1> QED  BY <1>5, <1>6

--------------------------------------------------------------------------------
(* Remove                                                                  *)

\* Only the links of the nodes of S matter.
LEMMA SameInside ==
  ASSUME NEW root, NEW near, NEW far, NEW parent, NEW S, NEW below,
         Shape(root, near, far, parent, S, below), NEW parent2 \in [Key -> Node],
         \A x \in S : parent2[x] = parent[x]
  PROVE  Shape(root, near, far, parent2, S, below)
<1>1. ASSUME NEW x \in S PROVE NodeOK(near, far, parent2, S, below, x)
  BY DEF Shape, NodeOK
<1>2. RootOK(root, near, far, parent2, S, below)
  BY DEF Shape, RootOK
<1> QED  BY <1>1, <1>2 DEF Shape

\* The parent of m forgets it.
Off(T, m) ==
  LET q == T.parent[m]
  IN IF m = T.right[q] THEN [T EXCEPT !.right[q] = Null] ELSE [T EXCEPT !.left[q] = Null]

Leaf(T, S, m) == m \in S /\ m # T.root /\ T.left[m] = Null /\ T.right[m] = Null

Without(f, q, m) == [x \in Key |-> IF x = q /\ m = f[q] THEN Null ELSE f[x]]

\* What is left is a tree without m.
LEMMA LeafOff ==
  ASSUME NEW T, NEW S, NEW below, Tree(T, S, below), NEW m, Leaf(T, S, m)
  PROVE  LET A == Off(T, m)
         IN /\ A \in Record /\ A.root = T.root /\ A.parent = T.parent /\ A.crashed = T.crashed
            /\ T.parent[m] \in S
            /\ A.left = Without(T.left, T.parent[m], m) /\ A.right = Without(T.right, T.parent[m], m)
            /\ Shape(A.root, A.left, A.right, A.parent, S \ {m}, BelowRemoved(below, S, m))
            /\ Ordered(TRUE, T.left, T.right, S, below)
                 => Ordered(TRUE, A.left, A.right, S \ {m}, BelowRemoved(below, S, m))
<1> DEFINE q == T.parent[m]
           A == Off(T, m)
           S2 == S \ {m}
           below2 == BelowRemoved(below, S, m)
<1>1. /\ T \in Record /\ Shape(T.root, T.left, T.right, T.parent, S, below)
      /\ m \in S /\ m # T.root /\ T.left[m] = Null /\ T.right[m] = Null
  BY DEF Tree, Leaf
<1>2. q \in S /\ m \in {T.left[q], T.right[q]}
  BY <1>1 DEF Shape, RootOK
<1>3. q \in Key /\ m # Null
  BY <1>1, <1>2, KeyFacts DEF Shape
<1>4. T.left[q] # Null => T.left[q] # T.right[q]
  BY <1>1, <1>2, Children
<1> HIDE DEF q, below2
<1>7. T.left[q] = m \/ T.right[q] = m
  BY <1>2
<1>5. CASE m = T.right[q]
  <2>1. /\ A \in Record /\ A.root = T.root /\ A.parent = T.parent /\ A.crashed = T.crashed
        /\ A.left = T.left /\ A.right = [T.right EXCEPT ![q] = Null]
    BY <1>1, <1>3, <1>5 DEF Off, Record, Node, q
  <2> HIDE DEF A, S2
  <2>2. Cut(T.root, T.right, T.left, T.parent, S, m, A.right)
    BY <1>1, <1>5, <2>1 DEF Cut, q
  <2>3. Shape(T.root, T.right, T.left, T.parent, S, below)
    BY <1>1, Mirrored
  <2>4. /\ Shape(T.root, A.right, T.left, T.parent, S2, below2)
        /\ Ordered(FALSE, T.right, T.left, S, below) => Ordered(FALSE, A.right, T.left, S2, below2)
    BY <2>2, <2>3, LeafRemoved DEF below2, S2
  <2>5. Shape(T.root, T.left, A.right, T.parent, S2, below2)
    BY <2>4, Mirrored
  <2>6. ASSUME Ordered(TRUE, T.left, T.right, S, below)
        PROVE  Ordered(TRUE, T.left, A.right, S2, below2)
    <3>1. Ordered(~TRUE, T.right, T.left, S, below)
      BY <2>6, MirroredOrder
    <3>2. Ordered(FALSE, A.right, T.left, S2, below2)
      BY <2>4, <3>1
    <3>3. Ordered(~FALSE, T.left, A.right, S2, below2)
      BY <3>2, MirroredOrder
    <3> QED  BY <3>3
  <2>7. A.left = Without(T.left, q, m) /\ A.right = Without(T.right, q, m)
    BY <1>1, <1>3, <1>4, <1>5, <2>1 DEF Record, Without
  <2> QED  BY <1>2, <2>1, <2>5, <2>6, <2>7 DEF A, q, below2, S2
<1>6. CASE m # T.right[q]
  <2>1. /\ A \in Record /\ A.root = T.root /\ A.parent = T.parent /\ A.crashed = T.crashed
        /\ A.right = T.right /\ A.left = [T.left EXCEPT ![q] = Null]
    BY <1>1, <1>3, <1>6 DEF Off, Record, Node, q
  <2> HIDE DEF A, S2
  <2>2. Cut(T.root, T.left, T.right, T.parent, S, m, A.left)
    BY <1>1, <1>2, <1>6, <2>1 DEF Cut, q
  <2>3. /\ Shape(T.root, A.left, T.right, T.parent, S2, below2)
        /\ Ordered(TRUE, T.left, T.right, S, below) => Ordered(TRUE, A.left, T.right, S2, below2)
    BY <1>1, <2>2, LeafRemoved DEF below2, S2
  <2>4. A.left = Without(T.left, q, m) /\ A.right = Without(T.right, q, m)
    BY <1>1, <1>3, <1>6, <1>7, <2>1 DEF Record, Without
  <2> QED  BY <1>2, <2>1, <2>3, <2>4 DEF A, q, below2, S2
<1> QED  BY <1>5, <1>6

\* What TakeOver does to the links.
LEMMA TakenOver ==
  ASSUME NEW T, NEW S, NEW below, Tree(T, S, below), NEW m, Leaf(T, S, m), NEW k \in S, k # m
  PROVE  LET U == TakeOver(T, k, m)
             A == Off(T, m)
         IN /\ U \in Record /\ U.root = T.root
            /\ U.left = [A.left EXCEPT ![m] = A.left[k]]
            /\ U.right = [A.right EXCEPT ![m] = A.right[k]]
            /\ U.parent = [T.parent EXCEPT ![m] = T.parent[k]]
<1> DEFINE A == Off(T, m)
           B == UpdateUp(A, T.parent[m])
           C == [B EXCEPT !.parent[m] = B.parent[k], !.left[m] = B.left[k], !.right[m] = B.right[k]]
<1>1. /\ A \in Record /\ A.root = T.root /\ A.parent = T.parent /\ T.parent[m] \in Node
      /\ m \in Key /\ k \in Key
  <2>1. A \in Record /\ A.root = T.root /\ A.parent = T.parent /\ T.parent[m] \in S
    BY LeafOff
  <2>2. S \subseteq Key /\ m \in S
    BY DEF Tree, Shape, Leaf
  <2> QED  BY <2>1, <2>2 DEF Node
<1>2. TakeOver(T, k, m) = UpdateHeight(C, m)
  BY DEF TakeOver, Off
<1> HIDE DEF A
<1>3. SameLinks(A, B)
  BY <1>1, UpdateUpKeeps
<1> HIDE DEF B
<1>4. /\ C \in Record /\ C.root = A.root /\ C.left = [A.left EXCEPT ![m] = A.left[k]]
      /\ C.right = [A.right EXCEPT ![m] = A.right[k]]
      /\ C.parent = [A.parent EXCEPT ![m] = A.parent[k]]
  <2>1. B \in Record /\ B.parent[k] \in Node /\ B.left[k] \in Node /\ B.right[k] \in Node
    BY <1>1, <1>3 DEF SameLinks, Record
  <2>2. /\ C.root = B.root /\ C.left = [B.left EXCEPT ![m] = B.left[k]]
        /\ C.right = [B.right EXCEPT ![m] = B.right[k]]
        /\ C.parent = [B.parent EXCEPT ![m] = B.parent[k]]
    BY <2>1 DEF Record
  <2>3. C \in Record
    BY <1>1, <2>1 DEF Record
  <2> QED  BY <1>3, <2>2, <2>3 DEF SameLinks
<1> HIDE DEF C
<1>5. SameLinks(C, UpdateHeight(C, m))
  BY <1>1, <1>4, HeightKeeps
<1> QED  BY <1>1, <1>2, <1>4, <1>5 DEF SameLinks, A

\* The steps of Remove that put m (or nothing) where k is.
Unhook(A, p, k, m) ==
  LET B == ReplaceChild(A, p, k, m)
      C == IF p = Null THEN B ELSE UpdateHeight(B, p)
      D == [C EXCEPT !.parent = Link(Link(@, C.left[k], m), C.right[k], m)]
  IN [D EXCEPT !.left[k] = Null, !.right[k] = Null, !.parent[k] = Null, !.height[k] = 0]

Unhooked(A, p, k, m, E) ==
  /\ E \in Record
  /\ E.root = IF k = A.root THEN m ELSE A.root
  /\ E.left = [x \in Key |-> IF x = k THEN Null
                             ELSE IF x = p /\ k = A.left[p] THEN m ELSE A.left[x]]
  /\ E.right = [x \in Key |-> IF x = k THEN Null
                              ELSE IF x = p /\ k # A.left[p] THEN m ELSE A.right[x]]
  /\ E.parent = [x \in Key |-> IF x = k THEN Null
                               ELSE IF x \in {A.left[k], A.right[k]} THEN m ELSE A.parent[x]]

\* What these steps do to the links.
LEMMA UnhookLinks ==
  ASSUME NEW A \in Record, NEW k \in Key, NEW p \in Node, NEW m \in Node, p # k
  PROVE  Unhooked(A, p, k, m, Unhook(A, p, k, m))
<1> DEFINE B == ReplaceChild(A, p, k, m)
           C == IF p = Null THEN B ELSE UpdateHeight(B, p)
           D == [C EXCEPT !.parent = Link(Link(@, C.left[k], m), C.right[k], m)]
           E == [D EXCEPT !.left[k] = Null, !.right[k] = Null, !.parent[k] = Null, !.height[k] = 0]
<1>1. Unhook(A, p, k, m) = E
  BY DEF Unhook
<1>2. p # Null => p \in Key
  BY DEF Node
<1>3. /\ A.left \in [Key -> Node] /\ A.right \in [Key -> Node] /\ A.parent \in [Key -> Node]
      /\ A.root \in Node /\ Null \in Node /\ Null \notin Key
  BY KeyFacts DEF Record, Node
<1>4. /\ B \in Record /\ B.parent = A.parent /\ B.root = IF k = A.root THEN m ELSE A.root
      /\ B.left = IF p # Null /\ k = A.left[p] THEN [A.left EXCEPT ![p] = m] ELSE A.left
      /\ B.right = IF p # Null /\ k # A.left[p] THEN [A.right EXCEPT ![p] = m] ELSE A.right
  <2> DEFINE r == IF k = A.root THEN m ELSE A.root
             l1 == IF p # Null /\ k = A.left[p] THEN [A.left EXCEPT ![p] = m] ELSE A.left
             r1 == IF p # Null /\ k # A.left[p] THEN [A.right EXCEPT ![p] = m] ELSE A.right
  <2>1. B = [A EXCEPT !.root = r, !.left = l1, !.right = r1]
    BY DEF ReplaceChild
  <2>2. r \in Node /\ l1 \in [Key -> Node] /\ r1 \in [Key -> Node]
    BY <1>2, <1>3
  <2> HIDE DEF B, r, l1, r1
  <2>3. B \in Record /\ B.parent = A.parent /\ B.root = r /\ B.left = l1 /\ B.right = r1
    BY <2>1, <2>2 DEF Record
  <2> QED  BY <2>3 DEF r, l1, r1
<1> HIDE DEF B
<1>5. C \in Record /\ C.root = B.root /\ C.left = B.left /\ C.right = B.right /\ C.parent = B.parent
  <2>1. CASE p = Null
    BY <1>4, <2>1
  <2>2. CASE p # Null
    <3>1. SameLinks(B, UpdateHeight(B, p))
      BY <1>2, <1>4, <2>2, HeightKeeps
    <3> QED  BY <2>2, <3>1 DEF SameLinks
  <2> QED  BY <2>1, <2>2
<1> HIDE DEF C
<1>6. C.left[k] = A.left[k] /\ C.right[k] = A.right[k] /\ A.left[k] \in Node /\ A.right[k] \in Node
  BY <1>3, <1>4, <1>5
<1> DEFINE f == Link(Link(A.parent, A.left[k], m), A.right[k], m)
<1>7. /\ f \in [Key -> Node]
      /\ \A x \in Key : f[x] = IF x \in {A.left[k], A.right[k]} THEN m ELSE A.parent[x]
  BY <1>3, <1>6 DEF Link, Node
<1>8. D = [C EXCEPT !.parent = f]
  BY <1>4, <1>5, <1>6
<1> HIDE DEF D, f
<1>9. /\ D \in Record /\ D.root = C.root /\ D.left = C.left /\ D.right = C.right /\ D.parent = f
  BY <1>5, <1>7, <1>8 DEF Record
<1>10. /\ E \in Record /\ E.root = D.root /\ E.left = [D.left EXCEPT ![k] = Null]
       /\ E.right = [D.right EXCEPT ![k] = Null] /\ E.parent = [D.parent EXCEPT ![k] = Null]
  <2>1. Null \in Node /\ 0 \in Nat
    BY <1>3
  <2> QED  BY <1>9, <2>1 DEF Record
<1> HIDE DEF E
<1>11. /\ E.left = [x \in Key |-> IF x = k THEN Null
                                  ELSE IF x = p /\ k = A.left[p] THEN m ELSE A.left[x]]
       /\ E.right = [x \in Key |-> IF x = k THEN Null
                                   ELSE IF x = p /\ k # A.left[p] THEN m ELSE A.right[x]]
  <2>1. E.left = [B.left EXCEPT ![k] = Null] /\ E.right = [B.right EXCEPT ![k] = Null]
    BY <1>5, <1>9, <1>10
  <2> QED  BY <1>2, <1>3, <1>4, <2>1
<1>12. E.parent = [x \in Key |-> IF x = k THEN Null
                                 ELSE IF x \in {A.left[k], A.right[k]} THEN m ELSE A.parent[x]]
  BY <1>7, <1>9, <1>10
<1> QED  BY <1>1, <1>4, <1>5, <1>9, <1>10, <1>11, <1>12 DEF Unhooked

\* A leaf is removed without a replacement.
LEMMA LeafUnhooked ==
  ASSUME NEW T, NEW S, NEW below, Tree(T, S, below), NEW k \in S, T.left[k] = Null, T.right[k] = Null,
         NEW o, o => Ordered(TRUE, T.left, T.right, S, below)
  PROVE  IsTree(Unhook(T, T.parent[k], k, Null), S \ {k}, o)
<1> DEFINE p == T.parent[k]
           E == Unhook(T, p, k, Null)
           S2 == S \ {k}
<1>1. /\ T \in Record /\ Unlinked(T, S) /\ Shape(T.root, T.left, T.right, T.parent, S, below)
      /\ S \subseteq Key /\ k \in Key /\ k # Null /\ p \in Node /\ Null \in Node
      /\ T.left \in [Key -> Node] /\ T.right \in [Key -> Node] /\ T.parent \in [Key -> Node]
      /\ Null \notin Key
  BY KeyFacts DEF Tree, Shape, Node
<1>2. /\ p # k
      /\ k = T.root => p = Null
      /\ k # T.root => p \in S /\ k \in {T.left[p], T.right[p]}
  <2>1. k = T.root => p = Null
    BY <1>1 DEF Shape, RootOK
  <2>2. k # T.root => p \in S /\ k \in {T.left[p], T.right[p]}
    BY <1>1 DEF Shape, RootOK
  <2>3. CASE k = T.root
    BY <1>1, <2>1, <2>3
  <2>4. CASE k # T.root
    BY <1>1, <2>2, <2>4
  <2> QED  BY <2>3, <2>4, <2>1, <2>2
<1> HIDE DEF p
<1>3. /\ E \in Record
      /\ E.root = IF k = T.root THEN Null ELSE T.root
      /\ E.left = [x \in Key |-> IF x = k THEN Null
                                 ELSE IF x = p /\ k = T.left[p] THEN Null ELSE T.left[x]]
      /\ E.right = [x \in Key |-> IF x = k THEN Null
                                  ELSE IF x = p /\ k # T.left[p] THEN Null ELSE T.right[x]]
      /\ E.parent = [x \in Key |-> IF x = k THEN Null ELSE T.parent[x]]
  <2>1. Unhooked(T, p, k, Null, E)
    BY <1>1, <1>2, UnhookLinks
  <2>2. \A x \in Key : x \notin {T.left[k], T.right[k]}
    BY <1>1
  <2> HIDE DEF E
  <2> QED  BY <2>1, <2>2 DEF Unhooked
<1> HIDE DEF E
<1>4. Unlinked(E, S2)
  BY <1>1, <1>3 DEF Unlinked
<1>5. CASE k = T.root
  <2> DEFINE below2 == [x \in {Null} |-> {}]
  <2>1. S = {k}
    BY <1>1, <1>5 DEF Shape, RootOK, NodeOK
  <2>2. S2 = {} /\ E.root = Null
    BY <1>3, <1>5, <2>1
  <2>3. below2 \in [S2 \cup {Null} -> SUBSET S2] /\ below2[Null] = {}
    BY <2>2
  <2> HIDE DEF below2, S2
  <2>4. RootOK(E.root, E.left, E.right, E.parent, S2, below2)
    BY <2>2, <2>3 DEF RootOK
  <2>5. Shape(E.root, E.left, E.right, E.parent, S2, below2)
    BY <1>1, <1>3, <2>2, <2>3, <2>4 DEF Shape, Record
  <2>6. Ordered(TRUE, E.left, E.right, S2, below2)
    BY <2>2 DEF Ordered
  <2>7. IsTree(E, S2, o)
    BY <1>3, <1>4, <2>5, <2>6 DEF IsTree, Tree
  <2> QED  BY <2>7 DEF E, p, S2
<1>6. CASE k # T.root
  <2> DEFINE A == Off(T, k)
             below2 == BelowRemoved(below, S, k)
  <2>1. Leaf(T, S, k)
    BY <1>6 DEF Leaf
  <2>2. /\ A \in Record /\ A.root = T.root /\ A.parent = T.parent
        /\ A.left = Without(T.left, p, k) /\ A.right = Without(T.right, p, k)
        /\ Shape(A.root, A.left, A.right, A.parent, S2, below2)
        /\ Ordered(TRUE, T.left, T.right, S, below) => Ordered(TRUE, A.left, A.right, S2, below2)
    BY <2>1, LeafOff DEF p
  <2> HIDE DEF A, below2
  <2>3. T.left[p] # Null => T.left[p] # T.right[p]
    BY <1>1, <1>2, <1>6, Children
  <2>4. E.root = T.root /\ E.left = A.left /\ E.right = A.right
    BY <1>1, <1>2, <1>3, <1>6, <2>2, <2>3 DEF Without
  <2>5. E.parent \in [Key -> Node] /\ \A x \in S2 : E.parent[x] = A.parent[x]
    BY <1>1, <1>3, <2>2
  <2>6. Shape(E.root, E.left, E.right, E.parent, S2, below2)
    <3> HIDE DEF S2
    <3> QED  BY <2>2, <2>4, <2>5, SameInside
  <2>7. IsTree(E, S2, o)
    BY <1>3, <1>4, <2>2, <2>4, <2>6 DEF IsTree, Tree
  <2> QED  BY <2>7 DEF E, p, S2
<1> QED  BY <1>5, <1>6

\* m, a leaf below k, is in the order next to k.
Adjacent(up, near, far, S, below, k, m) ==
  \/ m \in below[far[k]] /\ FirstOf(up, below[far[k]], m)
  \/ m \in below[near[k]] /\ FirstOf(~up, below[near[k]], m)

\* Such an m fits where k is.
LEMMA NextIsBetween ==
  ASSUME NEW root, NEW near, NEW far, NEW parent, NEW S, NEW below,
         Shape(root, near, far, parent, S, below), NEW k \in S, NEW m \in S, m # k,
         m \in below[k], Adjacent(TRUE, near, far, S, below, k, m), NEW near2, NEW far2,
         near2 = Without(near, parent[m], m), far2 = Without(far, parent[m], m),
         Ordered(TRUE, near, far, S, below),
         Ordered(TRUE, near2, far2, S \ {m}, BelowRemoved(below, S, m))
  PROVE  Between(TRUE, near2, far2, S \ {m}, BelowRemoved(below, S, m), k, m)
<1> DEFINE S2 == S \ {m}
           below2 == BelowRemoved(below, S, m)
<1>1. Facts(near, far, parent, S, below)
  BY ShapeFacts
<1>2. /\ below2[Null] = {}
      /\ \A x \in S2 : below2[x] = below[x] \ {m}
  BY <1>1 DEF BelowRemoved, Facts
<1> HIDE DEF below2
<1>3. \A x \in S2 : /\ near2[x] \in {near[x], Null} /\ near2[x] # m
                    /\ far2[x] \in {far[x], Null} /\ far2[x] # m
  <2> SUFFICES ASSUME NEW x \in S2
               PROVE  /\ near2[x] \in {near[x], Null} /\ near2[x] # m
                      /\ far2[x] \in {far[x], Null} /\ far2[x] # m
    OBVIOUS
  <2>1. x \in Key /\ m # Null /\ (near[x] = m => x = parent[m]) /\ (far[x] = m => x = parent[m])
    BY <1>1 DEF Facts
  <2> QED  BY <2>1 DEF Without
<1>4. \A x \in S2 : /\ below2[near2[x]] \subseteq below[near[x]] \ {m}
                    /\ below2[far2[x]] \subseteq below[far[x]] \ {m}
  <2> SUFFICES ASSUME NEW x \in S2
               PROVE  /\ below2[near2[x]] \subseteq below[near[x]] \ {m}
                      /\ below2[far2[x]] \subseteq below[far[x]] \ {m}
    OBVIOUS
  <2>1. near[x] \in S \cup {Null} /\ far[x] \in S \cup {Null}
    BY <1>1 DEF Facts
  <2> QED  BY <1>2, <1>3, <2>1
<1>5. Placed(TRUE, near2, far2, S2, below2, k, m)
  <2> SUFFICES ASSUME NEW x \in S2
               PROVE  /\ k \in below2[near2[x]] => Before(TRUE, m, x)
                      /\ k \in below2[far2[x]] => Before(TRUE, x, m)
    BY DEF Placed
  <2>1. /\ near[x] # Null => near[x] \in S
        /\ far[x] # Null => far[x] \in S
        /\ below[Null] = {}
    BY <1>1 DEF Facts
  <2>2. k \in below[near[x]] => m \in below[near[x]]
    BY <2>1, Below
  <2>3. k \in below[far[x]] => m \in below[far[x]]
    BY <2>1, Below
  <2> QED  BY <1>4, <2>2, <2>3 DEF Ordered
<1>6. /\ \A y \in below[near[k]] \ {m} : Before(TRUE, y, m)
      /\ \A y \in below[far[k]] \ {m} : Before(TRUE, m, y)
  <2>1. /\ \A y \in below[near[k]] : y < k
        /\ \A y \in below[far[k]] : k < y
        /\ below[near[k]] \subseteq Nat /\ below[far[k]] \subseteq Nat /\ k \in Nat /\ m \in Nat
    <3>1. /\ \A y \in below[near[k]] : y < k
          /\ \A y \in below[far[k]] : k < y
      BY DEF Ordered, Before
    <3>2. below[near[k]] \subseteq S /\ below[far[k]] \subseteq S /\ S \subseteq Nat
      BY <1>1 DEF Facts
    <3> QED  BY <3>1, <3>2
  <2>2. CASE m \in below[far[k]] /\ FirstOf(TRUE, below[far[k]], m)
    BY <2>1, <2>2 DEF FirstOf, Before
  <2>3. CASE m \in below[near[k]] /\ FirstOf(~TRUE, below[near[k]], m)
    BY <2>1, <2>3 DEF FirstOf, Before
  <2> QED  BY <2>2, <2>3 DEF Adjacent
<1>7. k \in S2
  OBVIOUS
<1> QED  BY <1>4, <1>5, <1>6, <1>7 DEF Between, below2

\* The replacement m takes the place of k.
LEMMA ReplacementUnhooked ==
  ASSUME NEW T, NEW S, NEW below, Tree(T, S, below), NEW k \in S, NEW m, Leaf(T, S, m), m # k,
         m \in below[k], NEW o,
         o => /\ Ordered(TRUE, T.left, T.right, S, below)
              /\ Adjacent(TRUE, T.left, T.right, S, below, k, m)
  PROVE  IsTree(Unhook(TakeOver(T, k, m), T.parent[k], k, m), S \ {k}, o)
<1> DEFINE p == T.parent[k]
           q == T.parent[m]
           A == Off(T, m)
           U == TakeOver(T, k, m)
           E == Unhook(U, p, k, m)
           S1 == S \ {m}
           below1 == BelowRemoved(below, S, m)
           S2 == (S1 \ {k}) \cup {m}
           below2 == BelowRenamed(below1, S1, k, m)
<1>1. /\ T \in Record /\ Unlinked(T, S) /\ Shape(T.root, T.left, T.right, T.parent, S, below)
      /\ S \subseteq Key /\ k \in Key /\ k # Null /\ m \in S /\ m \in Key /\ m # Null
      /\ p \in Node /\ m \in Node
      /\ T.left \in [Key -> Node] /\ T.right \in [Key -> Node] /\ T.parent \in [Key -> Node]
      /\ Null \notin Key
  BY KeyFacts DEF Tree, Shape, Node, Leaf
<1>2. /\ p # k
      /\ k = T.root => p = Null
      /\ k # T.root => p \in S /\ p # Null /\ k \in {T.left[p], T.right[p]}
  <2>1. k = T.root => p = Null
    BY <1>1 DEF Shape, RootOK
  <2>2. k # T.root => p \in S /\ k \in {T.left[p], T.right[p]}
    BY <1>1 DEF Shape, RootOK
  <2>3. CASE k = T.root
    BY <1>1, <2>1, <2>3
  <2>4. CASE k # T.root
    <3>1. p # k
      BY <1>1, <2>2, <2>4, Children
    <3> QED  BY <1>1, <2>2, <2>4, <3>1
  <2> QED  BY <2>3, <2>4
<1>3. /\ A \in Record /\ A.root = T.root /\ A.parent = T.parent /\ q \in S
      /\ A.left = Without(T.left, q, m) /\ A.right = Without(T.right, q, m)
      /\ Shape(A.root, A.left, A.right, A.parent, S1, below1)
      /\ Ordered(TRUE, T.left, T.right, S, below) => Ordered(TRUE, A.left, A.right, S1, below1)
  BY LeafOff
<1>4. p # m /\ q # p
  <2>1. CASE k = T.root
    BY <1>1, <1>2, <1>3, <2>1
  <2>2. CASE k # T.root
    <3>1. k \notin below[m]
      <4>1. below[m] = {m}
        BY <1>1 DEF Leaf, Shape, NodeOK
      <4> QED  BY <4>1
    <3>2. p \notin below[k]
      <4>1. ASSUME p \in below[k] PROVE FALSE
        <5>1. below[p] \subseteq below[k]
          BY <1>1, <1>2, <2>2, <4>1, Below
        <5>2. p \notin below[T.left[p]] /\ p \notin below[T.right[p]] /\ p \in below[p]
          BY <1>1, <1>2, <2>2 DEF Shape, NodeOK
        <5> QED  BY <1>2, <2>2, <4>1, <5>2
      <4> QED  BY <4>1
    <3>3. q \in below[k]
      BY <1>1, Below
    <3> QED  BY <3>2, <3>3
  <2> QED  BY <2>1, <2>2
<1>5. /\ U \in Record /\ U.root = T.root
      /\ U.left = [A.left EXCEPT ![m] = A.left[k]]
      /\ U.right = [A.right EXCEPT ![m] = A.right[k]]
      /\ U.parent = [T.parent EXCEPT ![m] = p]
  BY TakenOver
<1> HIDE DEF A, U, p, q, below1, below2
<1>6. Unhooked(U, p, k, m, E)
  BY <1>1, <1>2, <1>5, UnhookLinks
<1> HIDE DEF E
<1>7. /\ A.left \in [Key -> Node] /\ A.right \in [Key -> Node] /\ A.parent \in [Key -> Node]
      /\ k \in S1 /\ m \notin S1
  BY <1>3 DEF Record
<1>8. /\ A.left[k] \in S1 \cup {Null} /\ A.right[k] \in S1 \cup {Null}
      /\ A.left[k] # k /\ A.right[k] # k
  BY <1>1, <1>3, <1>7, Children DEF Shape, NodeOK
<1>9. /\ U.left[k] = A.left[k] /\ U.right[k] = A.right[k] /\ U.left[p] = A.left[p]
      /\ U.right[p] = A.right[p] /\ U.left[m] = A.left[k] /\ U.right[m] = A.right[k]
  BY <1>1, <1>4, <1>5, <1>7
<1>10. /\ E.left \in [Key -> Node] /\ E.right \in [Key -> Node] /\ E.parent \in [Key -> Node]
       /\ E \in Record /\ E.root \in Node
  BY <1>6 DEF Unhooked, Record
<1>11. \A x \in S1 \ {k} : /\ E.left[x] = IF A.left[x] = k THEN m ELSE A.left[x]
                           /\ E.right[x] = IF A.right[x] = k THEN m ELSE A.right[x]
                           /\ E.parent[x] = IF A.parent[x] = k THEN m ELSE A.parent[x]
  <2> SUFFICES ASSUME NEW x \in S1 \ {k}
               PROVE  /\ E.left[x] = IF A.left[x] = k THEN m ELSE A.left[x]
                      /\ E.right[x] = IF A.right[x] = k THEN m ELSE A.right[x]
                      /\ E.parent[x] = IF A.parent[x] = k THEN m ELSE A.parent[x]
    OBVIOUS
  <2>1. x \in Key /\ x # k /\ x # m /\ x # Null
    BY <1>1
  <2>2. /\ E.left[x] = IF x = p /\ k = A.left[p] THEN m ELSE A.left[x]
        /\ E.right[x] = IF x = p /\ k # A.left[p] THEN m ELSE A.right[x]
        /\ E.parent[x] = IF x \in {A.left[k], A.right[k]} THEN m ELSE A.parent[x]
    BY <1>3, <1>5, <1>6, <1>7, <1>9, <2>1 DEF Unhooked
  <2>3. /\ A.left[x] = k => x = p
        /\ A.right[x] = k => x = p
        /\ A.left[x] # Null => A.left[x] # A.right[x]
    BY <1>1, <1>3, Children DEF p
  <2>4. x = p => k \in {A.left[p], A.right[p]}
    BY <1>2, <1>3, <1>4, <2>1 DEF Without
  <2>5. A.parent[x] = k <=> x \in {A.left[k], A.right[k]}
    <3>1. x \in {A.left[k], A.right[k]} => A.parent[x] = k
      BY <1>3, <1>7, <2>1, Children
    <3>2. x # A.root => x \in {A.left[A.parent[x]], A.right[A.parent[x]]}
      BY <1>3 DEF Shape, RootOK
    <3>3. x = A.root => A.parent[x] = Null
      BY <1>3, <2>1 DEF Shape, RootOK
    <3> QED  BY <1>1, <3>1, <3>2, <3>3
  <2> QED  BY <1>1, <2>2, <2>3, <2>4, <2>5
<1>12. /\ E.left[m] = A.left[k] /\ E.right[m] = A.right[k] /\ E.parent[m] = A.parent[k]
       /\ E.root = IF A.root = k THEN m ELSE A.root
  <2>1. m \notin {A.left[k], A.right[k]}
    BY <1>1, <1>7, <1>8
  <2>2. E.left[m] = U.left[m] /\ E.right[m] = U.right[m]
    BY <1>1, <1>4, <1>6 DEF Unhooked
  <2>3. E.parent[m] = U.parent[m]
    BY <1>1, <1>6, <1>9, <2>1 DEF Unhooked
  <2>4. U.parent[m] = A.parent[k]
    BY <1>1, <1>3, <1>5 DEF p
  <2> QED  BY <1>3, <1>5, <1>6, <1>9, <2>2, <2>3, <2>4 DEF Unhooked
<1>13. Renamed(A.root, A.left, A.right, A.parent, S1, k, m, E.root, E.left, E.right, E.parent)
  BY <1>10, <1>11, <1>12 DEF Renamed
<1>14. /\ Shape(E.root, E.left, E.right, E.parent, S2, below2)
       /\ Between(TRUE, A.left, A.right, S1, below1, k, m) => Ordered(TRUE, E.left, E.right, S2, below2)
  <2>1. m \in Key \ S1
    BY <1>1
  <2> HIDE DEF S1
  <2> QED  BY <1>3, <1>7, <1>13, <2>1, RenamedShape DEF below2
<1>15. ASSUME o PROVE Ordered(TRUE, E.left, E.right, S2, below2)
  <2>1. Between(TRUE, A.left, A.right, S1, below1, k, m)
    BY <1>1, <1>3, <1>15, NextIsBetween DEF below1, q
  <2> QED  BY <1>14, <2>1
<1>16. S2 = S \ {k}
  BY <1>1
<1>17. Unlinked(E, S2)
  <2> SUFFICES ASSUME NEW x \in Key \ S2
               PROVE  E.left[x] = Null /\ E.right[x] = Null /\ E.parent[x] = Null
    BY DEF Unlinked
  <2>1. CASE x = k
    BY <1>6, <2>1 DEF Unhooked
  <2>2. CASE x # k
    <3>1. x \in Key \ S /\ x # m /\ x # Null
      BY <1>1, <2>2
    <3>2. T.left[x] = Null /\ T.right[x] = Null /\ T.parent[x] = Null
      BY <1>1, <3>1 DEF Unlinked
    <3>3. A.left[x] = Null /\ A.right[x] = Null
      BY <1>3, <3>1, <3>2 DEF Without
    <3>4. U.left[x] = Null /\ U.right[x] = Null /\ U.parent[x] = Null
      BY <1>1, <1>5, <1>7, <3>1, <3>2, <3>3
    <3>5. x # p /\ x \notin {A.left[k], A.right[k]}
      BY <1>1, <1>2, <1>8, <3>1
    <3> QED  BY <1>6, <1>9, <2>2, <3>1, <3>4, <3>5 DEF Unhooked
  <2> QED  BY <2>1, <2>2
<1> HIDE DEF S2
<1>18. IsTree(E, S2, o)
  BY <1>10, <1>14, <1>15, <1>17 DEF IsTree, Tree
<1> QED  BY <1>16, <1>18 DEF E, U, p

\* What is below a child of k is below k, but neither k nor the root.
LEMMA BelowChild ==
  ASSUME NEW root, NEW near, NEW far, NEW parent, NEW S, NEW below,
         Shape(root, near, far, parent, S, below), NEW k \in S, NEW c \in {near[k], far[k]},
         NEW m \in below[c]
  PROVE  c # Null /\ m \in S /\ m # k /\ m # root /\ m \in below[k]
<1>1. Facts(near, far, parent, S, below)
  BY ShapeFacts
<1>2. c \in S /\ c # Null /\ m \in S /\ m \in below[k] /\ k \notin below[c]
  <2>1. c # Null
    BY <1>1 DEF Facts
  <2>2. c \in S
    BY <1>1, <2>1 DEF Facts
  <2>3. below[c] \in SUBSET S
    BY <1>1, <2>2 DEF Facts
  <2>4. below[c] \subseteq below[k] /\ k \notin below[c]
    BY <1>1 DEF Facts
  <2> QED  BY <2>1, <2>2, <2>3, <2>4
<1>3. m # root
  <2>1. below[root] = S
    BY DEF Shape, RootOK
  <2>2. below[m] \subseteq below[c]
    BY <1>2, Below
  <2> QED  BY <1>2, <2>1, <2>2
<1> QED  BY <1>2, <1>3

\* Where the tree is even, the steps for a missing link are never taken.
EvenTree(T, S) == Even(T.left, T.right, S) /\ Even(T.right, T.left, S)

\* Remove takes k from the nodes, and keeps the order of an even tree.
LEMMA RemoveTree ==
  ASSUME NEW T, NEW S, NEW o, IsTree(T, S, o), NEW k \in S
  PROVE  \/ RemoveKey(T, k) = Crash(T)
         \/ IsTree(RemoveKey(T, k), S \ {k}, o /\ EvenTree(T, S))
<1> DEFINE s == Successor(T, k)
           d == Predecessor(T, k)
           m == IF s # Null THEN s ELSE d
           p == T.parent[k]
           A == IF m = Null THEN T ELSE TakeOver(T, k, m)
           E == Unhook(A, p, k, m)
           S2 == S \ {k}
           o2 == o /\ EvenTree(T, S)
<1>1. RemoveKey(T, k) = IF s = -1 \/ d = -1 THEN Crash(T) ELSE Rebalance(E, p)
  BY DEF RemoveKey, Unhook
<1> SUFFICES ASSUME s # -1, d # -1
             PROVE  IsTree(Rebalance(E, p), S2, o2)
  <2> HIDE DEF s, d, E, p, S2
  <2> QED  BY <1>1 DEF S2
<1>2. PICK below : Tree(T, S, below) /\ (o => Ordered(TRUE, T.left, T.right, S, below))
  BY DEF IsTree
<1>3. /\ Shape(T.root, T.left, T.right, T.parent, S, below)
      /\ Shape(T.root, T.right, T.left, T.parent, S, below)
      /\ Null \notin S
  <2>1. Shape(T.root, T.left, T.right, T.parent, S, below)
    BY <1>2 DEF Tree
  <2>2. Null \notin S
    BY TreeFacts
  <2> QED  BY <2>1, <2>2, Mirrored
<1>4. T.right[k] = Null => s = Null
  BY DEF Successor
<1>5. T.right[k] # Null => /\ s \in below[T.right[k]] /\ T.left[s] = Null /\ T.right[s] = Null
                           /\ o2 => FirstOf(TRUE, below[T.right[k]], s)
  <2> SUFFICES ASSUME T.right[k] # Null
               PROVE  /\ s \in below[T.right[k]] /\ T.left[s] = Null /\ T.right[s] = Null
                      /\ o2 => FirstOf(TRUE, below[T.right[k]], s)
    OBVIOUS
  <2>1. s = Extreme(T.left, T.right, T.right[k])
    BY DEF Successor
  <2>2. T.right[k] \in S
    BY <1>3, Children
  <2> HIDE DEF s
  <2>3. /\ s \in below[T.right[k]] /\ T.left[s] = Null /\ T.right[s] = Null
        /\ Even(T.left, T.right, S) /\ Ordered(TRUE, T.left, T.right, S, below)
             => FirstOf(TRUE, below[T.right[k]], s)
    <3>1. Found(TRUE, T.left, T.right, S, below, T.right[k], s)
      BY <1>3, <2>1, <2>2, ExtremeLemma
    <3> QED  BY <3>1 DEF Found
  <2> QED  BY <1>2, <2>3 DEF EvenTree
<1>6. T.left[k] = Null => d = Null
  BY DEF Predecessor
<1>7. T.left[k] # Null => /\ d \in below[T.left[k]] /\ T.left[d] = Null /\ T.right[d] = Null
                          /\ o2 => FirstOf(FALSE, below[T.left[k]], d)
  <2> SUFFICES ASSUME T.left[k] # Null
               PROVE  /\ d \in below[T.left[k]] /\ T.left[d] = Null /\ T.right[d] = Null
                      /\ o2 => FirstOf(FALSE, below[T.left[k]], d)
    OBVIOUS
  <2>1. d = Extreme(T.right, T.left, T.left[k])
    BY DEF Predecessor
  <2>2. T.left[k] \in S
    BY <1>3, Children
  <2> HIDE DEF d
  <2>3. /\ d \in below[T.left[k]] /\ T.left[d] = Null /\ T.right[d] = Null
        /\ Even(T.right, T.left, S) /\ Ordered(FALSE, T.right, T.left, S, below)
             => FirstOf(FALSE, below[T.left[k]], d)
    <3>1. Found(FALSE, T.right, T.left, S, below, T.left[k], d)
      BY <1>3, <2>1, <2>2, ExtremeLemma
    <3> QED  BY <3>1 DEF Found
  <2>4. Ordered(TRUE, T.left, T.right, S, below) => Ordered(~TRUE, T.right, T.left, S, below)
    BY MirroredOrder
  <2>5. Ordered(TRUE, T.left, T.right, S, below) => Ordered(FALSE, T.right, T.left, S, below)
    BY <2>4
  <2> QED  BY <1>2, <2>3, <2>5 DEF EvenTree
<1> HIDE DEF s, d, p
<1>8. p \in S2 \cup {Null}
  <2>1. p \in S \cup {Null}
    BY TreeFacts DEF p
  <2>2. p # k
    <3>1. k = T.root => p = Null
      BY <1>3 DEF Shape, RootOK, p
    <3>2. k # T.root => p \in S /\ k \in {T.left[p], T.right[p]}
      BY <1>3 DEF Shape, RootOK, p
    <3> QED  BY <1>3, <3>1, <3>2, Children
  <2> QED  BY <2>1, <2>2
<1>9. IsTree(E, S2, o2)
  <2>1. CASE T.left[k] = Null /\ T.right[k] = Null
    <3>1. m = Null /\ A = T
      BY <1>4, <1>6, <2>1
    <3>2. o2 => Ordered(TRUE, T.left, T.right, S, below)
      BY <1>2
    <3> HIDE DEF o2, S2, m, A
    <3>3. IsTree(Unhook(T, T.parent[k], k, Null), S2, o2)
      BY <1>2, <2>1, <3>2, LeafUnhooked DEF S2
    <3> QED  BY <3>1, <3>3 DEF p
  <2>2. ASSUME NEW c \in {T.left[k], T.right[k]}, m \in below[c], T.left[m] = Null, T.right[m] = Null,
               o2 => /\ Ordered(TRUE, T.left, T.right, S, below)
                     /\ Adjacent(TRUE, T.left, T.right, S, below, k, m)
        PROVE  IsTree(E, S2, o2)
    <3> HIDE DEF o2, S2, m
    <3>1. m \in S /\ m # k /\ m # T.root /\ m \in below[k]
      BY <1>3, <2>2, BelowChild
    <3>2. A = TakeOver(T, k, m)
      BY <1>3, <3>1
    <3>3. Leaf(T, S, m)
      BY <2>2, <3>1 DEF Leaf
    <3>4. IsTree(Unhook(TakeOver(T, k, m), T.parent[k], k, m), S2, o2)
      BY <1>2, <2>2, <3>1, <3>3, ReplacementUnhooked DEF S2
    <3> HIDE DEF A
    <3> QED  BY <3>2, <3>4 DEF p
  <2>3. CASE T.right[k] # Null
    <3>1. s \in below[T.right[k]] /\ s # Null
      <4>1. s \in S
        <5>1. s \in below[T.right[k]]
          BY <1>5, <2>3
        <5> QED  BY <1>3, <5>1, BelowChild
      <4> QED  BY <1>3, <1>5, <2>3, <4>1
    <3>2. m = s
      BY <3>1
    <3> HIDE DEF m, E, o2
    <3>3. o2 => Adjacent(TRUE, T.left, T.right, S, below, k, m)
      BY <1>5, <2>3, <3>2 DEF Adjacent
    <3>4. o2 => Ordered(TRUE, T.left, T.right, S, below)
      BY <1>2 DEF o2
    <3> QED  BY <1>5, <2>2, <2>3, <3>1, <3>2, <3>3, <3>4
  <2>4. CASE T.right[k] = Null /\ T.left[k] # Null
    <3>1. m = d
      BY <1>4, <2>4
    <3> HIDE DEF m, E, o2
    <3>2. o2 => Adjacent(TRUE, T.left, T.right, S, below, k, m)
      BY <1>7, <2>4, <3>1 DEF Adjacent
    <3>3. o2 => Ordered(TRUE, T.left, T.right, S, below)
      BY <1>2 DEF o2
    <3> QED  BY <1>7, <2>2, <2>4, <3>1, <3>2, <3>3
  <2> HIDE DEF E, o2, S2
  <2> QED  BY <2>1, <2>3, <2>4
<1> HIDE DEF E, S2, o2
<1> QED  BY <1>8, <1>9, RebalanceTree

--------------------------------------------------------------------------------
(* The invariant                                                           *)

\* The nodes that the tree has are linked as a tree; they are the tasks that should be in it
\* unless a null pointer was followed.
AvlInv ==
  /\ removed \subseteq inserted /\ inserted \subseteq Key
  /\ \E S : IsTree(tree, S, FALSE) /\ (~tree.crashed => S = inserted \ removed)

\* The tree is empty at first.
LEMMA EmptyIsTree == IsTree(EmptyTree, {}, TRUE)
<1> DEFINE below == [x \in {Null} |-> {}]
<1>1. /\ EmptyTree \in Record /\ EmptyTree.root = Null
      /\ \A x \in Key : /\ EmptyTree.left[x] = Null /\ EmptyTree.right[x] = Null
                        /\ EmptyTree.parent[x] = Null
  BY DEF EmptyTree, Record, NoLinks, Node, Null
<1>2. Unlinked(EmptyTree, {})
  BY <1>1 DEF Unlinked
<1>3. below \in [{} \cup {Null} -> SUBSET {}] /\ below[Null] = {}
  OBVIOUS
<1> HIDE DEF below
<1>4. Shape(EmptyTree.root, EmptyTree.left, EmptyTree.right, EmptyTree.parent, {}, below)
  BY <1>1, <1>3 DEF Shape, RootOK, Record
<1>5. Ordered(TRUE, EmptyTree.left, EmptyTree.right, {}, below)
  BY DEF Ordered
<1> QED  BY <1>1, <1>2, <1>4, <1>5 DEF IsTree, Tree

\* Every insertion and every removal keeps the invariant.
LEMMA AvlInvStep == AvlInv /\ [AvlNext]_vars => AvlInv'
<1> SUFFICES ASSUME AvlInv, [AvlNext]_vars PROVE AvlInv'
  OBVIOUS
<1>1. PICK S : IsTree(tree, S, FALSE) /\ (~tree.crashed => S = inserted \ removed)
  BY DEF AvlInv
<1>2. removed \subseteq inserted /\ inserted \subseteq Key
  BY DEF AvlInv
<1>3. ASSUME NEW k \in Key, Insert(k) PROVE AvlInv'
  <2>1. /\ S = inserted \ removed /\ k \in Key \ S
        /\ tree' = InsertKey(tree, k) /\ inserted' = inserted \cup {k} /\ removed' = removed
        /\ k \notin inserted
    BY <1>1, <1>3 DEF Insert
  <2>2. IsTree(tree', S \cup {k}, FALSE)
    BY <1>1, <2>1, InsertTree
  <2>3. S \cup {k} = inserted' \ removed'
    BY <1>2, <2>1
  <2>4. removed' \subseteq inserted' /\ inserted' \subseteq Key
    BY <1>2, <2>1
  <2> QED  BY <2>2, <2>3, <2>4 DEF AvlInv
<1>4. ASSUME NEW k \in Key, Remove(k) PROVE AvlInv'
  <2>1. /\ S = inserted \ removed /\ k \in S
        /\ tree' \in {RemoveKey(tree, k), Crash(tree)}
        /\ removed' = removed \cup {k} /\ inserted' = inserted
    BY <1>1, <1>4 DEF Remove
  <2>2. removed' \subseteq inserted' /\ inserted' \subseteq Key
    BY <1>2, <2>1
  <2>3. CASE tree' = Crash(tree)
    <3>1. IsTree(tree', S, FALSE) /\ tree'.crashed
      BY <1>1, <2>3, TreeFacts, CrashKeeps, SameTree
    <3> QED  BY <2>2, <3>1 DEF AvlInv
  <2>4. CASE tree' = RemoveKey(tree, k) /\ tree' # Crash(tree)
    <3>1. IsTree(tree', S \ {k}, FALSE /\ EvenTree(tree, S))
      BY <1>1, <2>1, <2>4, RemoveTree
    <3>2. IsTree(tree', S \ {k}, FALSE)
      BY <3>1 DEF IsTree
    <3>3. S \ {k} = inserted' \ removed'
      BY <2>1
    <3> QED  BY <2>2, <3>2, <3>3 DEF AvlInv
  <2> QED  BY <2>1, <2>3, <2>4
<1>5. CASE UNCHANGED vars
  BY <1>5 DEF AvlInv, vars
<1> QED  BY <1>3, <1>4, <1>5 DEF AvlNext

\* Insertions and removals in any order keep the nodes of the tree linked as a tree.
THEOREM AvlInductive == AvlSpec => []AvlInv
<1>1. AvlInit => AvlInv
  <2> SUFFICES ASSUME AvlInit PROVE AvlInv
    OBVIOUS
  <2>1. IsTree(EmptyTree, {}, FALSE)
    BY EmptyIsTree DEF IsTree
  <2>2. tree = EmptyTree /\ inserted = {} /\ removed = {}
    BY DEF AvlInit
  <2>3. {} = inserted \ removed
    BY <2>2
  <2> QED  BY <2>1, <2>2, <2>3 DEF AvlInv
<1> QED  BY <1>1, AvlInvStep, PTL DEF AvlSpec

\* The nodes of the tree are what can be reached from the root.
LEMMA MembersLemma ==
  ASSUME NEW S, NEW below, Tree(tree, S, below)
  PROVE  Members = S
<1>1. tree.root \in S \cup {Null} /\ below[tree.root] = S
  BY DEF Tree, Shape, RootOK
<1> QED  BY <1>1, NodesBelowLemma DEF Members

\* As long as no null pointer was followed, the tree holds the tasks that were inserted and
\* not removed, whatever the order in which they come and go.
THEOREM TreeKeepsTasks == AvlSpec => []TasksKept
<1>1. ASSUME AvlInv PROVE TasksKept
  <2>1. PICK S : IsTree(tree, S, FALSE) /\ (~tree.crashed => S = inserted \ removed)
    BY <1>1 DEF AvlInv
  <2>2. PICK below : Tree(tree, S, below)
    BY <2>1 DEF IsTree
  <2>3. Members = S
    BY <2>2, MembersLemma
  <2> QED  BY <2>1, <2>3 DEF TasksKept
<1> QED  BY <1>1, AvlInductive, PTL

\* The parent links are the inverse of the child links, and the root has no parent.
THEOREM TreeParents == AvlSpec => []ParentsConsistent
<1>1. ASSUME AvlInv PROVE ParentsConsistent
  <2>1. PICK S : IsTree(tree, S, FALSE)
    BY <1>1 DEF AvlInv
  <2>2. PICK below : Tree(tree, S, below)
    BY <2>1 DEF IsTree
  <2>3. Members = S
    BY <2>2, MembersLemma
  <2>4. Facts(tree.left, tree.right, tree.parent, S, below)
    BY <2>2, ShapeFacts DEF Tree
  <2>5. tree.root # Null => tree.parent[tree.root] = Null
    BY <2>2 DEF Tree, Shape, RootOK
  <2>6. \A n \in Members : \A c \in {tree.left[n], tree.right[n]} \ {Null} : tree.parent[c] = n
    BY <2>3, <2>4 DEF Facts
  <2> QED  BY <2>5, <2>6 DEF ParentsConsistent
<1> QED  BY <1>1, AvlInductive, PTL

--------------------------------------------------------------------------------
(* Search order                                                            *)

\* The search order, in terms of what is below each node, follows from the property and implies
\* it; and the subtrees of an AVL tree are even.
SearchOrdered == \E S : IsTree(tree, S, TRUE)

\* Both follow from what NodesBelow computes and from the heights.
LEMMA SearchTreeLemma ==
  ASSUME AvlInv
  PROVE  /\ SearchTree <=> SearchOrdered
         /\ Balanced => \A S : IsTree(tree, S, FALSE) => EvenTree(tree, S)
<1>1. ASSUME NEW S, NEW below, Tree(tree, S, below)
      PROVE  SearchTree <=> Ordered(TRUE, tree.left, tree.right, S, below)
  <2>1. Members = S /\ S \subseteq Nat
    <3>1. S \subseteq Key
      BY <1>1 DEF Tree, Shape
    <3> QED  BY <1>1, <3>1, MembersLemma, KeyFacts
  <2>2. ASSUME NEW n \in S
        PROVE  /\ NodesBelow(tree, tree.left[n]) = below[tree.left[n]]
               /\ NodesBelow(tree, tree.right[n]) = below[tree.right[n]]
    <3>1. tree.left[n] \in S \cup {Null} /\ tree.right[n] \in S \cup {Null}
      BY <1>1 DEF Tree, Shape, NodeOK
    <3> QED  BY <1>1, <3>1, NodesBelowLemma
  <2>3. ASSUME NEW n \in S
        PROVE  /\ \A k \in below[tree.right[n]] : k > n <=> Before(TRUE, n, k)
               /\ \A k \in below[tree.left[n]] : k < n <=> Before(TRUE, k, n)
    <3>1. Shape(tree.root, tree.left, tree.right, tree.parent, S, below)
      BY <1>1 DEF Tree
    <3>2. below[tree.right[n]] \subseteq S
      <4>1. Facts(tree.left, tree.right, tree.parent, S, below)
        BY <3>1, ShapeFacts
      <4> QED  BY <4>1 DEF Facts
    <3> QED  BY <2>1, <3>2 DEF Before
  <2> QED  BY <2>1, <2>2, <2>3 DEF SearchTree, Ordered
<1>2. PICK S0, below0 : Tree(tree, S0, below0)
  BY DEF AvlInv, IsTree
<1>3. SearchTree => SearchOrdered
  BY <1>1, <1>2 DEF SearchOrdered, IsTree
<1>4. SearchOrdered => SearchTree
  BY <1>1 DEF SearchOrdered, IsTree
<1>5. ASSUME Balanced, NEW S, IsTree(tree, S, FALSE) PROVE EvenTree(tree, S)
  <2>1. PICK below : Tree(tree, S, below)
    BY <1>5 DEF IsTree
  <2>2. Members = S
    BY <2>1, MembersLemma
  <2>3. ASSUME NEW n \in S
        PROVE  /\ n \in Key /\ n # Null /\ tree.height[n] \in Nat
               /\ tree.left[n] \in S \cup {Null} /\ tree.right[n] \in S \cup {Null}
               /\ Height(tree, tree.left[n]) \in Nat /\ Height(tree, tree.right[n]) \in Nat
               /\ Height(tree, tree.left[n]) - Height(tree, tree.right[n]) \in {-1, 0, 1}
               /\ tree.height[n] = 1 + Larger(Height(tree, tree.left[n]), Height(tree, tree.right[n]))
    <3>1. n \in Key /\ n # Null /\ tree \in Record
      BY <1>5, TreeFacts
    <3>2. tree.left[n] \in S \cup {Null} /\ tree.right[n] \in S \cup {Null}
      BY <1>5, TreeFacts
    <3>3. /\ Height(tree, tree.left[n]) \in Nat /\ Height(tree, tree.right[n]) \in Nat
          /\ tree.height[n] \in Nat
      BY <3>1, HeightsAreNumbers
    <3> QED  BY <1>5, <2>2, <3>1, <3>2, <3>3 DEF Balanced, InBalance, Imbalance
  <2>4. ASSUME NEW n \in S
        PROVE  /\ tree.height[n] >= 1
               /\ tree.left[n] # Null => tree.height[n] >= 1 + Height(tree, tree.left[n])
               /\ tree.right[n] # Null => tree.height[n] >= 1 + Height(tree, tree.right[n])
    BY <2>3 DEF Larger
  <2>5. \A c \in S : Height(tree, c) = tree.height[c]
    BY <2>3 DEF Height
  <2>6. ASSUME NEW n \in S, tree.left[n] = Null, tree.right[n] # Null, tree.left[tree.right[n]] # Null
        PROVE  FALSE
    <3> DEFINE r == tree.right[n]
               c == tree.left[r]
    <3>1. r \in S /\ c \in S
      BY <2>3, <2>6
    <3>2. Height(tree, c) >= 1 /\ Height(tree, r) >= 1 + Height(tree, c)
      BY <2>3, <2>4, <2>5, <2>6, <3>1
    <3>3. Height(tree, tree.left[n]) = 0
      BY <2>6 DEF Height
    <3>4. Height(tree, r) \in Nat /\ Height(tree, c) \in Nat /\ 0 - Height(tree, r) \in {-1, 0, 1}
      BY <2>3, <3>1, <3>3
    <3> HIDE DEF r, c
    <3> QED  BY <3>2, <3>4
  <2>7. ASSUME NEW n \in S, tree.right[n] = Null, tree.left[n] # Null, tree.right[tree.left[n]] # Null
        PROVE  FALSE
    <3> DEFINE l == tree.left[n]
               c == tree.right[l]
    <3>1. l \in S /\ c \in S
      BY <2>3, <2>7
    <3>2. Height(tree, c) >= 1 /\ Height(tree, l) >= 1 + Height(tree, c)
      BY <2>3, <2>4, <2>5, <2>7, <3>1
    <3>3. Height(tree, tree.right[n]) = 0
      BY <2>7 DEF Height
    <3>4. Height(tree, l) \in Nat /\ Height(tree, c) \in Nat /\ Height(tree, l) - 0 \in {-1, 0, 1}
      BY <2>3, <3>1, <3>3
    <3> HIDE DEF l, c
    <3> QED  BY <3>2, <3>4
  <2> QED  BY <2>6, <2>7 DEF EvenTree, Even
<1> QED  BY <1>3, <1>4, <1>5

\* An insertion keeps the search order, and so does a removal from an AVL tree.
THEOREM TreeOrder == AvlSpec => OrderKept
<1>1. ASSUME AvlInv, SearchTree' <=> SearchOrdered', [AvlNext]_vars, SearchTree,
             removed' = removed \/ Balanced
      PROVE  SearchTree'
  <2>1. PICK S : IsTree(tree, S, TRUE)
    BY <1>1, SearchTreeLemma DEF SearchOrdered
  <2>2. ~tree.crashed => S = inserted \ removed
    <3>1. PICK S2 : IsTree(tree, S2, FALSE) /\ (~tree.crashed => S2 = inserted \ removed)
      BY <1>1 DEF AvlInv
    <3>2. Members = S /\ Members = S2
      BY <2>1, <3>1, MembersLemma DEF IsTree
    <3> QED  BY <3>1, <3>2
  <2> SUFFICES \E S2 : IsTree(tree', S2, TRUE)
    BY <1>1 DEF SearchOrdered
  <2>4. ASSUME NEW k \in Key, Insert(k) PROVE \E S2 : IsTree(tree', S2, TRUE)
    <3>1. k \in Key \ S /\ tree' = InsertKey(tree, k)
      BY <2>2, <2>4 DEF Insert
    <3> QED  BY <2>1, <3>1, InsertTree
  <2>5. ASSUME NEW k \in Key, Remove(k) PROVE \E S2 : IsTree(tree', S2, TRUE)
    <3>1. k \in S /\ tree' \in {RemoveKey(tree, k), Crash(tree)} /\ k \notin removed /\ k \in removed'
      BY <2>2, <2>5 DEF Remove
    <3>2. CASE tree' = Crash(tree)
      BY <2>1, <3>2, TreeFacts, CrashKeeps, SameTree
    <3>3. CASE tree' = RemoveKey(tree, k) /\ tree' # Crash(tree)
      <4>1. IsTree(tree', S \ {k}, TRUE /\ EvenTree(tree, S))
        BY <2>1, <3>1, <3>3, RemoveTree
      <4>2. EvenTree(tree, S)
        <5>1. Balanced
          BY <1>1, <3>1
        <5>2. IsTree(tree, S, FALSE)
          BY <2>1 DEF IsTree
        <5> QED  BY <1>1, <5>1, <5>2, SearchTreeLemma
      <4>3. IsTree(tree', S \ {k}, TRUE)
        BY <4>1, <4>2 DEF IsTree
      <4> QED  BY <4>3
    <3> QED  BY <3>1, <3>2, <3>3
  <2>6. CASE UNCHANGED vars
    BY <2>1, <2>6 DEF vars
  <2> QED  BY <1>1, <2>4, <2>5, <2>6 DEF AvlNext
<1>2. AvlInv => (SearchTree <=> SearchOrdered)
  BY SearchTreeLemma
<1>3. AvlInv /\ (SearchTree <=> SearchOrdered)' /\ [AvlNext]_vars
        => [SearchTree /\ (removed' = removed \/ Balanced) => SearchTree']_vars
  BY <1>1
<1> QED  BY <1>2, <1>3, AvlInductive, PTL DEF AvlSpec, OrderKept

--------------------------------------------------------------------------------
(* Balance while the tree grows                                            *)

\* Search finds what is below the node where it starts.
LEMMA SearchFinds ==
  ASSUME NEW T, NEW S, NEW below, Tree(T, S, below), Ordered(TRUE, T.left, T.right, S, below),
         NEW start \in S, NEW k \in below[start]
  PROVE  Search(T, k, start) = k
<1> DEFINE Down(n) == IF n \in {Null, k} THEN n ELSE Toward(T, n, k)
           D == {n \in S : k \in below[n]}
           Eq(f) == f = [i \in Nat |-> IF i = 0 THEN start ELSE Down(f[i - 1])]
           at == CHOOSE f : Eq(f)
<1>1. Shape(T.root, T.left, T.right, T.parent, S, below)
  BY DEF Tree
<1>2. Facts(T.left, T.right, T.parent, S, below)
  BY <1>1, ShapeFacts
<1>3. start \in D /\ start # Null
  BY <1>2 DEF Facts
<1>4. ASSUME NEW n \in D, n # k
      PROVE  /\ Down(n) = Toward(T, n, k) /\ Toward(T, n, k) \in D
             /\ Toward(T, n, k) \in {T.left[n], T.right[n]} /\ Toward(T, n, k) # Null
  <2>1. /\ n \in S /\ n \in Nat /\ k \in Nat /\ n # Null
        /\ k \in below[T.left[n]] \/ k \in below[T.right[n]]
        /\ T.left[n] \in S \cup {Null} /\ T.right[n] \in S \cup {Null} /\ below[Null] = {}
    BY <1>2, <1>4 DEF Facts
  <2>2. /\ k \in below[T.left[n]] => k < n
        /\ k \in below[T.right[n]] => n < k
    BY <2>1 DEF Ordered, Before
  <2> QED  BY <1>4, <2>1, <2>2 DEF Toward
<1>5. ASSUME NEW n \in D PROVE Down(n) \in D
  <2>1. CASE n = k
    BY <2>1
  <2>2. CASE n # k
    BY <1>4, <2>2
  <2> QED  BY <2>1, <2>2
<1> DEFINE s == [n \in D |-> Down(n)]
<1>6. Eq(at)
  <2> HIDE DEF D, Down
  <2>1. s \in [D -> D]
    BY <1>5
  <2>2. PICK f : (\A i \in Nat : f[i] \in D)
                 /\ f = [i \in Nat |-> IF i = 0 THEN start ELSE s[f[i - 1]]]
    <3> HIDE DEF s
    <3> QED  BY <1>3, <2>1, LoopDef
  <2>3. \A i \in Nat : i # 0 => s[f[i - 1]] = Down(f[i - 1])
    <3>1. \A i \in Nat : i # 0 => i - 1 \in Nat
      OBVIOUS
    <3> QED  BY <2>2, <3>1
  <2>4. Eq(f)
    <3> HIDE DEF s
    <3> QED  BY <2>2, <2>3
  <2> HIDE DEF Eq
  <2> QED  BY <2>4
<1>7. Search(T, k, start) = at[Rounds]
  BY <1>3 DEF Search
<1> HIDE DEF at
<1>8. at[0] = start /\ \A i \in Nat : at[i + 1] = Down(at[i])
  <2> HIDE DEF Down
  <2>1. \A i \in Nat : at[i] = IF i = 0 THEN start ELSE Down(at[i - 1])
    BY <1>6
  <2>2. \A i \in Nat : i + 1 \in Nat /\ i + 1 # 0 /\ (i + 1) - 1 = i
    OBVIOUS
  <2> QED  BY <2>1, <2>2
<1> HIDE DEF Eq, s
<1> DEFINE N == {i \in Nat : /\ at[i] \in D
                             /\ at[i] = k \/ Cardinality(below[at[i]]) <= MaxKey - i}
<1>9. MaxKey \in Nat
  BY AvlAssumption
<1>10. 0 \in N
  <2>1. at[0] \in D /\ at[0] \in S
    BY <1>3, <1>8
  <2>2. Cardinality(below[at[0]]) \in 1 .. MaxKey
    BY <1>1, <2>1, Subtrees
  <2> HIDE DEF D
  <2> QED  BY <1>9, <2>1, <2>2
<1>11. ASSUME NEW i \in Nat, i \in N PROVE i + 1 \in N
  <2> DEFINE n == at[i]
  <2>1. n \in D /\ n \in S /\ at[i + 1] = Down(n)
    BY <1>8, <1>11
  <2>2. at[i + 1] \in D
    <3> HIDE DEF Down, D, n
    <3> QED  BY <1>5, <2>1
  <2>3. CASE n = k
    <3>1. at[i + 1] = k
      BY <2>1, <2>3
    <3> QED  BY <2>2, <3>1
  <2>4. CASE n # k
    <3> DEFINE c == at[i + 1]
    <3>1. c \in {T.left[n], T.right[n]} /\ c # Null /\ c \in S
      <4> HIDE DEF Down
      <4> QED  BY <1>4, <2>1, <2>4
    <3>2. /\ Cardinality(below[n]) \in 1 .. MaxKey /\ Cardinality(below[c]) \in 1 .. MaxKey
          /\ Cardinality(below[c]) < Cardinality(below[n])
      BY <1>1, <2>1, <3>1, Subtrees
    <3>3. Cardinality(below[n]) <= MaxKey - i
      BY <1>11, <2>4
    <3>4. Cardinality(below[c]) <= MaxKey - (i + 1)
      BY <1>9, <3>2, <3>3
    <3> HIDE DEF D
    <3> QED  BY <2>2, <3>4
  <2> QED  BY <2>3, <2>4
<1> HIDE DEF N
<1>12. \A i \in Nat : i \in N
  BY <1>10, <1>11, Induction
<1>13. Rounds \in Nat /\ Rounds >= MaxKey
  BY <1>9 DEF Rounds
<1>14. at[Rounds] \in D /\ (at[Rounds] = k \/ Cardinality(below[at[Rounds]]) <= MaxKey - Rounds)
  BY <1>12, <1>13 DEF N
<1>15. Cardinality(below[at[Rounds]]) \in 1 .. MaxKey
  BY <1>1, <1>14, Subtrees
<1> QED  BY <1>7, <1>9, <1>13, <1>14, <1>15

\* What Balanced says of a node.
Fine(T, n) ==
  /\ InBalance(T, n)
  /\ T.height[n] = 1 + Larger(Height(T, T.left[n]), Height(T, T.right[n]))

Grown(T, S) ==
  /\ ~T.crashed
  /\ \E below : /\ Tree(T, S, below) /\ Ordered(TRUE, T.left, T.right, S, below)
                /\ \A x \in S : Fine(T, x)

\* Links and heights after a rotation to the left.
TurnedLeft(T, S, n, V) ==
  LET r == T.right[n]
      hn == Larger(Height(T, T.left[n]), Height(T, T.left[r])) + 1
      new(c) == IF c = n THEN r ELSE c
  IN /\ V.left[n] = T.left[n] /\ V.right[n] = T.left[r]
     /\ V.left[r] = n /\ V.right[r] = T.right[r]
     /\ \A x \in S \ {n, r} : V.left[x] = new(T.left[x]) /\ V.right[x] = new(T.right[x])
     /\ V.height = [T.height EXCEPT ![n] = hn, ![r] = Larger(hn, Height(T, T.right[r])) + 1]
     /\ ~V.crashed

LEMMA TurnedLeftHeights ==
  ASSUME NEW T, NEW S, NEW below, Tree(T, S, below), NEW n \in S, T.right[n] # Null, ~T.crashed
  PROVE  TurnedLeft(T, S, n, RotateLeft(T, n))
<1> DEFINE U == LeftTurned(T, n)
           V == RotateLeft(T, n)
           W == UpdateHeight(U, n)
           p == T.parent[n]
           r == T.right[n]
           a == T.left[r]
           b == T.right[r]
           hn == Larger(Height(T, T.left[n]), Height(T, a)) + 1
<1>1. /\ Shape(T.root, T.left, T.right, T.parent, S, below) /\ T \in Record
      /\ Facts(T.left, T.right, T.parent, S, below)
  BY ShapeFacts DEF Tree
<1>2. /\ n \in Key /\ r \in Key /\ r \in S /\ r # n /\ r # T.left[n] /\ T.parent[r] = n /\ n # Null
      /\ r # Null
      /\ T.left[n] # n /\ T.left[n] \in S \cup {Null}
      /\ a \in S \cup {Null} /\ b \in S \cup {Null}
      /\ a # n /\ b # n /\ a # r /\ b # r
  <2>1. /\ n \in Key /\ r \in S /\ r # n /\ r # T.left[n] /\ T.parent[r] = n /\ n # Null /\ r # Null
        /\ T.left[n] # Null => T.left[n] # n
    BY <1>1, Children
  <2>2. S \subseteq Key /\ T.left[n] \in S \cup {Null} /\ a \in S \cup {Null} /\ b \in S \cup {Null}
    BY <1>1, <2>1 DEF Facts
  <2>3. /\ a # Null => a # r /\ a \in below[a]
        /\ b # Null => b # r /\ b \in below[b]
    BY <1>1, <2>1, Children
  <2>4. n \notin below[r]
    BY <1>1, <2>1 DEF Facts
  <2>5. below[r] = {r} \cup below[a] \cup below[b]
    BY <1>1, <2>1 DEF Facts
  <2> HIDE DEF a, b, r
  <2> QED  BY <2>1, <2>2, <2>3, <2>4, <2>5
<1>3. p # n /\ p # r
  <2>1. n # T.root => n \in {T.left[p], T.right[p]}
    BY <1>1 DEF Shape, RootOK
  <2>2. n = T.root => p = Null
    BY <1>1, <1>2 DEF Shape, RootOK
  <2> QED  BY <1>2, <2>1, <2>2
<1>4. /\ U \in Record /\ U.crashed = T.crashed /\ U.height = T.height
      /\ Turned(T.root, T.left, T.right, T.parent, n, U.root, U.left, U.right, U.parent)
  BY LeftTurnedLinks
<1>5. V = UpdateHeight(W, r) /\ SameLinks(U, V)
  BY RotatedLeft
<1> HIDE DEF U, V
<1>6. /\ U.left = [x \in Key |-> IF x = r THEN n ELSE IF x = p /\ T.left[p] = n THEN r ELSE T.left[x]]
      /\ U.right = [x \in Key |-> IF x = n THEN a ELSE IF x = p /\ T.right[p] = n THEN r ELSE T.right[x]]
  BY <1>4 DEF Turned
<1>7. U.left[n] = T.left[n] /\ U.right[n] = a /\ U.left[r] = n /\ U.right[r] = b
  BY <1>2, <1>3, <1>6
<1>8. \A x \in S \ {n, r} : /\ U.left[x] = IF T.left[x] = n THEN r ELSE T.left[x]
                            /\ U.right[x] = IF T.right[x] = n THEN r ELSE T.right[x]
  <2> SUFFICES ASSUME NEW x \in S \ {n, r}
               PROVE  /\ U.left[x] = IF T.left[x] = n THEN r ELSE T.left[x]
                      /\ U.right[x] = IF T.right[x] = n THEN r ELSE T.right[x]
    OBVIOUS
  <2>1. x \in Key /\ (T.left[x] = n => x = p) /\ (T.right[x] = n => x = p)
    BY <1>1, <1>2 DEF Facts
  <2> QED  BY <1>6, <2>1
<1>9. /\ SameLinks(U, W) /\ W.crashed = U.crashed
      /\ W.height = [U.height EXCEPT ![n] = Larger(Height(U, U.left[n]), Height(U, U.right[n])) + 1]
  BY <1>2, <1>4, HeightKeeps
<1> HIDE DEF W
<1>10. W.height = [T.height EXCEPT ![n] = hn]
  BY <1>4, <1>7, <1>9 DEF Height
<1> HIDE DEF hn
<1>11. /\ V.crashed = W.crashed
       /\ V.height = [W.height EXCEPT ![r] = Larger(Height(W, W.left[r]), Height(W, W.right[r])) + 1]
  BY <1>2, <1>5, <1>9, HeightKeeps DEF SameLinks
<1>12. W.left[r] = n /\ W.right[r] = b /\ Height(W, n) = hn /\ Height(W, b) = Height(T, b)
  <2>1. T.height \in [Key -> Nat]
    BY <1>1 DEF Record
  <2>2. b \in Key \cup {Null}
    BY <1>1, <1>2 DEF Facts
  <2>3. W.left[r] = n /\ W.right[r] = b
    BY <1>7, <1>9 DEF SameLinks
  <2> HIDE DEF a, b, r
  <2> QED  BY <1>2, <1>10, <2>1, <2>2, <2>3 DEF Height
<1>13. V.height = [T.height EXCEPT ![n] = hn, ![r] = Larger(hn, Height(T, b)) + 1]
  BY <1>10, <1>11, <1>12
<1>14. V.left = U.left /\ V.right = U.right /\ ~V.crashed
  BY <1>4, <1>5, <1>9, <1>11 DEF SameLinks
<1> QED  BY <1>7, <1>8, <1>13, <1>14 DEF TurnedLeft, hn, V

\* y is the right child of z, and k is below it.
OnRight(T, S, below, k, z, y) ==
  z \in S /\ T.right[z] = y /\ k \in below[z] /\ z # k /\ z # y /\ T.left[z] # y

\* The largest key is on the right of every other node that it is below.
LEMMA LargestIsRight ==
  ASSUME NEW T, NEW S, NEW below, Tree(T, S, below), Ordered(TRUE, T.left, T.right, S, below),
         NEW k \in S, \A x \in S : x <= k
  PROVE  /\ \A x \in S : x # k /\ k \in below[x]
                           => /\ T.right[x] \in S /\ T.right[x] # Null /\ k \in below[T.right[x]]
                              /\ x # T.right[x] /\ T.left[x] # T.right[x]
         /\ \A y \in S : k \in below[y] /\ T.parent[y] # Null
                           => OnRight(T, S, below, k, T.parent[y], y)
<1>1. /\ Shape(T.root, T.left, T.right, T.parent, S, below)
      /\ Facts(T.left, T.right, T.parent, S, below)
  BY ShapeFacts DEF Tree
<1>2. ASSUME NEW x \in S, x # k, k \in below[x]
      PROVE  /\ T.right[x] \in S /\ T.right[x] # Null /\ k \in below[T.right[x]]
             /\ x # T.right[x] /\ T.left[x] # T.right[x]
  <2>1. /\ x \in Nat /\ k \in Nat /\ x <= k
        /\ k \in below[T.left[x]] \/ k \in below[T.right[x]]
        /\ T.right[x] \in S \cup {Null} /\ below[Null] = {}
    BY <1>1, <1>2 DEF Facts
  <2>2. k \in below[T.left[x]] => k < x
    BY DEF Ordered, Before
  <2>3. k \in below[T.right[x]] /\ T.right[x] # Null
    BY <2>1, <2>2
  <2>4. x # T.right[x] /\ T.left[x] # T.right[x]
    BY <1>1, <2>3, Children
  <2> QED  BY <2>1, <2>3, <2>4
<1>3. ASSUME NEW y \in S, k \in below[y], T.parent[y] # Null
      PROVE  OnRight(T, S, below, k, T.parent[y], y)
  <2> DEFINE z == T.parent[y]
  <2>1. y # T.root /\ z \in S /\ y \in {T.left[z], T.right[z]} /\ y # Null
    BY <1>1, <1>3 DEF Shape, RootOK, Facts
  <2> HIDE DEF z
  <2>2. below[y] \subseteq below[z] /\ z \notin below[y] /\ z \in Nat /\ k \in Nat /\ z <= k
    BY <1>1, <2>1 DEF Facts
  <2>3. z # k /\ k \in below[z]
    BY <1>3, <2>2
  <2>4. T.left[z] # y
    <3>1. k \in below[T.left[z]] => k < z
      BY <2>1 DEF Ordered, Before
    <3> QED  BY <1>3, <2>2, <3>1
  <2>5. z # y
    BY <1>1, <2>1, Children
  <2> QED  BY <2>1, <2>3, <2>4, <2>5 DEF z, OnRight
<1> QED  BY <1>2, <1>3

\* Below n, on the right, the height was H and is that of y now, which i - 1 nodes lead to; the
\* height of n is the one that it had before.
Pending(T, n, y, i, H) ==
  LET hl == Height(T, T.left[n])
  IN /\ T.height[y] = Larger(H, i - 1) /\ i - 1 <= H + 1
     /\ T.height[n] = 1 + Larger(hl, H) /\ hl - H \in {-1, 0, 1}
     /\ T.height[y] = H + 1 => Height(T, T.right[y]) = Height(T, T.left[y]) + 1

\* The walk of BalanceNode up from the new node k: all is well but for the node w.at.
Climbing(w, S, below, k) ==
  /\ w.k = k /\ w.i \in Nat /\ ~w.tree.crashed
  /\ Tree(w.tree, S, below) /\ Ordered(TRUE, w.tree.left, w.tree.right, S, below)
  /\ \A x \in S \ {w.at} : Fine(w.tree, x)
  /\ w.at # Null =>
       /\ w.at \in S /\ w.last \in S /\ w.last = w.tree.right[w.at]
       /\ k \in below[w.last] /\ w.last # k
       /\ w.i <= Cardinality(below[w.last]) + 1
       /\ \E H \in Nat : Pending(w.tree, w.at, w.last, w.i, H)

\* Arithmetic of heights.
LEMMA HigherBy ==
  ASSUME NEW hl \in Nat, NEW H \in Nat, NEW i \in Nat, NEW hy, hy = Larger(H, i - 1), i - 1 <= H + 1,
         hl - H \in {-1, 0, 1}, NEW hn, hn = 1 + Larger(hl, H)
  PROVE  /\ hy \in Nat /\ hn \in Nat
         /\ Larger(hn, i) = 1 + Larger(hl, hy) /\ i <= hn + 1
         /\ hl - hy \in {-1, 0, 1} /\ Larger(hn, i) = hn + 1 => hy = hl + 1
         /\ hl - hy \notin {-1, 0, 1} => hy = H + 1 /\ H = hl + 1
  BY DEF Larger

\* The tree A of a round at w.at: heights of the node and of its children, before and now.
Round(w, S, below, k, A, H) ==
  LET T == w.tree
      n == w.at
      y == w.last
      hl == Height(T, T.left[n])
  IN /\ n \in Key /\ n # k /\ k \in below[n] /\ y # n /\ T.left[n] # n
     /\ A \in Record /\ Tree(A, S, below) /\ Ordered(TRUE, A.left, A.right, S, below) /\ ~A.crashed
     /\ A.left = T.left /\ A.right = T.right /\ A.parent = T.parent
     /\ \A c \in S \cup {Null} : c # n => Height(A, c) = Height(T, c)
     /\ \A x \in S : x # n => A.height[x] = T.height[x]
     /\ A.height[n] = Larger(T.height[n], w.i)
     /\ Height(A, A.left[n]) = hl /\ Height(A, A.right[n]) = T.height[y]
     /\ H \in Nat /\ hl \in Nat /\ T.height[y] = Larger(H, w.i - 1) /\ w.i - 1 <= H + 1
     /\ hl - H \in {-1, 0, 1} /\ T.height[n] = 1 + Larger(hl, H)
     /\ T.height[y] = H + 1 => Height(T, T.right[y]) = Height(T, T.left[y]) + 1

LEMMA RoundTree ==
  ASSUME NEW w, NEW S, NEW below, NEW k \in S, Climbing(w, S, below, k),
         w.at # Null, NEW A, A = [w.tree EXCEPT !.height[w.at] = Larger(@, w.i)]
  PROVE  \E H : Round(w, S, below, k, A, H)
<1> DEFINE T == w.tree
           n == w.at
           y == w.last
           i == w.i
           hl == Height(T, T.left[n])
           hy == T.height[y]
           hn == T.height[n]
<1>1. /\ Tree(T, S, below) /\ Ordered(TRUE, T.left, T.right, S, below) /\ ~T.crashed
      /\ n \in S /\ y \in S /\ y = T.right[n] /\ k \in below[y] /\ y # k
      /\ i \in Nat
  BY DEF Climbing
<1>2. PICK H \in Nat : Pending(T, n, y, i, H)
  BY DEF Climbing
<1>3. /\ T \in Record /\ Shape(T.root, T.left, T.right, T.parent, S, below)
      /\ Facts(T.left, T.right, T.parent, S, below)
  BY <1>1, ShapeFacts DEF Tree
<1>4. /\ n \in Key /\ y \in Key /\ n # Null /\ y # Null /\ y # n /\ T.left[n] # n
      /\ T.left[n] \in S \cup {Null} /\ k \in below[n] /\ n # k
  <2>1. n \in Key /\ y \in Key /\ n # Null /\ y # Null /\ k \in below[n] /\ n \notin below[y]
    BY <1>1, <1>3 DEF Facts
  <2>2. y # n /\ (T.left[n] # Null => T.left[n] # n)
    BY <1>1, <1>3, <2>1, Children
  <2>3. T.left[n] \in S \cup {Null}
    BY <1>1, <1>3 DEF Facts
  <2> QED  BY <1>1, <2>1, <2>2, <2>3
<1>5. /\ hl \in Nat /\ hy = Larger(H, i - 1) /\ i - 1 <= H + 1 /\ hl - H \in {-1, 0, 1}
      /\ hn = 1 + Larger(hl, H)
      /\ hy = H + 1 => Height(T, T.right[y]) = Height(T, T.left[y]) + 1
  BY <1>2, <1>3, <1>4, HeightsAreNumbers DEF Pending
<1>6. hn \in Nat
  BY <1>3, <1>4 DEF Record
<1>7. /\ A \in Record /\ SameLinks(T, A) /\ A.crashed = T.crashed
      /\ A.height = [T.height EXCEPT ![n] = Larger(hn, i)]
  <2>1. Larger(hn, i) \in Nat
    BY <1>1, <1>6 DEF Larger
  <2>2. A = [T EXCEPT !.height = [T.height EXCEPT ![n] = Larger(hn, i)]]
    BY <1>3 DEF Record
  <2>3. [T.height EXCEPT ![n] = Larger(hn, i)] \in [Key -> Nat]
    BY <1>3, <1>4, <2>1 DEF Record
  <2> DEFINE g == [T.height EXCEPT ![n] = Larger(hn, i)]
  <2> HIDE DEF g, T
  <2> QED  BY <1>3, <2>2, <2>3 DEF Record, SameLinks, g
<1> HIDE DEF T, n, y, i
<1>8. A.left = T.left /\ A.right = T.right /\ A.parent = T.parent /\ T.height \in [Key -> Nat]
  BY <1>3, <1>7 DEF SameLinks, Record
<1>9. \A c \in S \cup {Null} : c # n => Height(A, c) = Height(T, c)
  BY <1>3, <1>7, <1>8 DEF Height, Facts
<1>10. A.height[n] = Larger(hn, i) /\ \A x \in S : x # n => A.height[x] = T.height[x]
  BY <1>3, <1>4, <1>7, <1>8 DEF Facts
<1>11. Height(A, A.left[n]) = hl /\ Height(A, A.right[n]) = hy
  BY <1>1, <1>4, <1>8, <1>9 DEF Height
<1>12. Tree(A, S, below) /\ Ordered(TRUE, A.left, A.right, S, below)
  BY <1>1, <1>7 DEF Tree, SameLinks, Unlinked
<1>13. Round(w, S, below, k, A, H)
  BY <1>1, <1>4, <1>5, <1>7, <1>8, <1>9, <1>10, <1>11, <1>12 DEF Round, T, n, y, i
<1> QED  BY <1>13

\* In balance: the walk goes on with the parent.
LEMMA ClimbOn ==
  ASSUME NEW w, NEW S, NEW below, NEW k \in S, \A x \in S : x <= k, Climbing(w, S, below, k),
         w.at # Null, NEW A, A = [w.tree EXCEPT !.height[w.at] = Larger(@, w.i)], InBalance(A, w.at),
         NEW v, v.tree = A, v.k = w.k, v.last = w.at, v.at = A.parent[w.at], v.i = w.i + 1
  PROVE  Climbing(v, S, below, k)
<1> DEFINE T == w.tree
           n == w.at
           y == w.last
           i == w.i
           hl == Height(T, T.left[n])
           hy == T.height[y]
           hn == T.height[n]
           z == T.parent[n]
<1>1. /\ Tree(T, S, below) /\ Ordered(TRUE, T.left, T.right, S, below) /\ ~T.crashed
      /\ n \in S /\ y \in S /\ y = T.right[n] /\ k \in below[y] /\ y # k
      /\ i <= Cardinality(below[y]) + 1 /\ i \in Nat /\ w.k = k
  BY DEF Climbing
<1>2. PICK H : Round(w, S, below, k, A, H)
  BY RoundTree
<1>3. /\ T \in Record /\ Shape(T.root, T.left, T.right, T.parent, S, below)
      /\ Facts(T.left, T.right, T.parent, S, below)
  BY <1>1, ShapeFacts DEF Tree
<1>4. n \in Key /\ y # n /\ k \in below[n] /\ n # k /\ y # Null /\ n # Null
  BY <1>1, <1>2, <1>3 DEF Round, Facts
<1>5. /\ H \in Nat /\ hl \in Nat /\ hy = Larger(H, i - 1) /\ i - 1 <= H + 1 /\ hl - H \in {-1, 0, 1}
      /\ hn = 1 + Larger(hl, H)
  BY <1>2 DEF Round
<1>6. /\ hy \in Nat /\ hn \in Nat
      /\ Larger(hn, i) = 1 + Larger(hl, hy) /\ i <= hn + 1
      /\ hl - hy \in {-1, 0, 1} /\ Larger(hn, i) = hn + 1 => hy = hl + 1
  <2> HIDE DEF hl, hy, hn, i
  <2> QED  BY <1>1, <1>5, HigherBy
<1>7. /\ A \in Record /\ Tree(A, S, below) /\ Ordered(TRUE, A.left, A.right, S, below) /\ ~A.crashed
      /\ A.left = T.left /\ A.right = T.right /\ A.parent = T.parent
  BY <1>2 DEF Round
<1>9. \A c \in S \cup {Null} : c # n => Height(A, c) = Height(T, c)
  BY <1>2 DEF Round
<1>10. A.height[n] = Larger(hn, i) /\ \A x \in S : x # n => A.height[x] = T.height[x]
  BY <1>2 DEF Round
<1>11. Height(A, A.left[n]) = hl /\ Height(A, A.right[n]) = hy
  BY <1>2 DEF Round
<1> HIDE DEF T, n, y, i
<1>12. hl - hy \in {-1, 0, 1}
  BY <1>11 DEF InBalance, Imbalance, n
<1>13. Fine(A, n)
  BY <1>6, <1>10, <1>11 DEF Fine, n
<1>14. ASSUME NEW x \in S, x # n, x # z PROVE Fine(A, x)
  <2>1. Fine(T, x)
    BY <1>14 DEF Climbing, T, n
  <2>2. T.left[x] \in S \cup {Null} /\ T.right[x] \in S \cup {Null} /\ T.left[x] # n /\ T.right[x] # n
    BY <1>3, <1>4, <1>14 DEF Facts
  <2>3. Height(A, A.left[x]) = Height(T, T.left[x]) /\ Height(A, A.right[x]) = Height(T, T.right[x])
    BY <1>7, <1>9, <2>2
  <2> QED  BY <1>10, <1>14, <2>1, <2>3 DEF Fine, InBalance, Imbalance
<1>16. v.at = z /\ v.last = n /\ v.i = i + 1 /\ v.tree = A /\ v.k = k
  BY <1>1, <1>7 DEF n, i
<1>17. ASSUME z # Null
       PROVE  /\ z \in S /\ n = A.right[z]
              /\ i + 1 <= Cardinality(below[n]) + 1
              /\ Pending(A, z, n, i + 1, hn)
  <2>1. z \in S /\ T.right[z] = n /\ z # n /\ T.left[z] # n /\ T.left[z] \in S \cup {Null}
    <3>1. z \in S /\ T.right[z] = n /\ z # n /\ T.left[z] # n
      <4>1. OnRight(T, S, below, k, T.parent[n], n)
        <5>1. T.parent[n] # Null
          BY <1>17
        <5> QED  BY <1>1, <1>4, <5>1, LargestIsRight
      <4> QED  BY <4>1 DEF OnRight
    <3> QED  BY <1>3, <3>1 DEF Facts
  <2>2. i + 1 <= Cardinality(below[n]) + 1
    <3>1. /\ Cardinality(below[y]) < Cardinality(below[n])
          /\ Cardinality(below[y]) \in 1 .. MaxKey /\ Cardinality(below[n]) \in 1 .. MaxKey
      BY <1>1, <1>3, <1>4, Subtrees
    <3> QED  BY <1>1, <3>1, AvlAssumption
  <2>3. Fine(T, z)
    BY <2>1 DEF Climbing, T, n
  <2>4. Height(A, A.left[z]) = Height(T, T.left[z]) /\ Height(T, T.right[z]) = hn /\ n # Null
    BY <1>3, <1>4, <1>7, <1>9, <2>1 DEF Height, Facts
  <2>5. /\ A.height[z] = 1 + Larger(Height(A, A.left[z]), hn)
        /\ Height(A, A.left[z]) - hn \in {-1, 0, 1}
    BY <1>10, <2>1, <2>3, <2>4 DEF Fine, InBalance, Imbalance
  <2>6. A.height[n] = Larger(hn, (i + 1) - 1) /\ (i + 1) - 1 <= hn + 1
    <3>1. (i + 1) - 1 = i
      BY <1>1
    <3> QED  BY <1>6, <1>10, <3>1
  <2>7. A.height[n] = hn + 1 => Height(A, A.right[n]) = Height(A, A.left[n]) + 1
    BY <1>6, <1>10, <1>11, <1>12
  <2>8. Pending(A, z, n, i + 1, hn)
    BY <2>5, <2>6, <2>7 DEF Pending
  <2> QED  BY <1>7, <2>1, <2>2, <2>8
<1>18. i + 1 \in Nat
  BY <1>1
<1> HIDE DEF z, hn
<1>19. \A x \in S \ {z} : Fine(A, x)
  BY <1>13, <1>14
<1> QED  BY <1>1, <1>4, <1>6, <1>7, <1>16, <1>17, <1>18, <1>19 DEF Climbing

\* Out of balance: a rotation to the left, after which all is well.
LEMMA TurnAndStop ==
  ASSUME NEW w, NEW S, NEW below, NEW k \in S, \A x \in S : x <= k, Climbing(w, S, below, k),
         w.at # Null, NEW A, A = [w.tree EXCEPT !.height[w.at] = Larger(@, w.i)], ~InBalance(A, w.at)
  PROVE  Grown(Rotate(A, w.at, w.last, w.last = A.left[w.at],
                      Search(A, w.k, A.right[w.last]) # Null), S)
<1> DEFINE T == w.tree
           n == w.at
           y == w.last
           i == w.i
           l == T.left[n]
           a == T.left[y]
           b == T.right[y]
           hl == Height(T, l)
           ha == Height(T, a)
           hb == Height(T, b)
           hy == T.height[y]
           hn == T.height[n]
           V == RotateLeft(A, n)
           below2 == BelowTurned(A.left, A.right, below, n)
<1>1. /\ Tree(T, S, below) /\ Ordered(TRUE, T.left, T.right, S, below)
      /\ n \in S /\ y \in S /\ y = T.right[n] /\ k \in below[y] /\ y # k /\ i \in Nat /\ w.k = k
      /\ \A x \in S \ {n} : Fine(T, x)
  BY DEF Climbing
<1>2. PICK H : Round(w, S, below, k, A, H)
  BY RoundTree
<1>3. /\ T \in Record /\ Shape(T.root, T.left, T.right, T.parent, S, below)
      /\ Facts(T.left, T.right, T.parent, S, below)
  BY <1>1, ShapeFacts DEF Tree
<1>4. n \in Key /\ y # n /\ k \in below[n] /\ n # k /\ y # Null /\ n # Null /\ l # n
  BY <1>1, <1>2, <1>3 DEF Round, Facts
<1>5. /\ H \in Nat /\ hl \in Nat /\ hy = Larger(H, i - 1) /\ i - 1 <= H + 1 /\ hl - H \in {-1, 0, 1}
      /\ hn = 1 + Larger(hl, H)
      /\ hy = H + 1 => hb = ha + 1
  BY <1>2 DEF Round
<1>6. /\ Tree(A, S, below) /\ Ordered(TRUE, A.left, A.right, S, below) /\ ~A.crashed
      /\ A.left = T.left /\ A.right = T.right /\ A.parent = T.parent
  BY <1>2 DEF Round
<1>7. /\ \A c \in S \cup {Null} : c # n => Height(A, c) = Height(T, c)
      /\ \A x \in S : x # n => A.height[x] = T.height[x]
  BY <1>2 DEF Round
<1>8. Height(A, A.left[n]) = hl /\ Height(A, A.right[n]) = hy
  BY <1>2 DEF Round
<1> HIDE DEF T, n, y, i
<1>9. /\ b \in S /\ b # Null /\ k \in below[b] /\ b # y
      /\ l # y /\ l \in S \cup {Null} /\ a \in S \cup {Null}
  <2>1. T.right[n] # T.left[n]
    BY <1>1, <1>4, LargestIsRight
  <2>2. b \in S /\ b # Null /\ k \in below[b] /\ b # y
    <3>1. \A x \in S : x # k /\ k \in below[x]
                        => /\ T.right[x] \in S /\ T.right[x] # Null /\ k \in below[T.right[x]]
                           /\ x # T.right[x]
      <4>1. Tree(T, S, below) /\ Ordered(TRUE, T.left, T.right, S, below)
        BY <1>1
      <4> HIDE DEF a, b, l
      <4> QED  BY <4>1, LargestIsRight
    <3> QED  BY <1>1, <3>1
  <2>3. l \in S \cup {Null} /\ a \in S \cup {Null}
    BY <1>1, <1>3 DEF Facts
  <2> QED  BY <1>1, <2>1, <2>2, <2>3
<1>10. a # n /\ a # y /\ b # n
  <2>1. n \notin below[y] /\ below[y] = {y} \cup below[a] \cup below[b]
    BY <1>1, <1>3 DEF Facts
  <2>2. a # Null => a \in below[a] /\ a # y
    BY <1>1, <1>3, Children
  <2>3. b \in below[b]
    BY <1>3, <1>9 DEF Facts
  <2> HIDE DEF a, b
  <2> QED  BY <1>4, <2>1, <2>2, <2>3
<1>11. hl - hy \notin {-1, 0, 1}
  BY <1>8 DEF InBalance, Imbalance, n
<1>12. /\ ha \in Nat /\ hb \in Nat /\ hy = 1 + Larger(ha, hb)
  <2>1. Fine(T, y)
    BY <1>1, <1>4
  <2>2. y \in Key
    BY <1>1, <1>3 DEF Facts
  <2>3. ha \in Nat /\ hb \in Nat
    BY <1>3, <2>2, HeightsAreNumbers
  <2> QED  BY <2>1, <2>3 DEF Fine
<1>13. hl \in Nat /\ hy = hl + 2 /\ hn = hl + 2 /\ hb = hl + 1 /\ ha = hl
  <2> HIDE DEF hl, hy, ha, hb, hn
  <2>1. hy = H + 1 /\ H = hl + 1
    BY <1>1, <1>5, <1>11, HigherBy
  <2>2. hb = ha + 1
    BY <1>5, <2>1
  <2>3. Larger(ha, hb) = hb
    BY <1>12, <2>2 DEF Larger
  <2>4. Larger(hl, H) = H
    BY <1>5, <2>1 DEF Larger
  <2> QED  BY <1>5, <1>12, <2>1, <2>2, <2>3, <2>4
<1> HIDE DEF V, below2
<1>14. Rotate(A, w.at, w.last, w.last = A.left[w.at], Search(A, w.k, A.right[w.last]) # Null) = V
  <2>1. w.last # A.left[w.at]
    BY <1>6, <1>9 DEF n, y
  <2>2. Search(A, k, b) = k
    BY <1>6, <1>9, SearchFinds
  <2>3. Search(A, w.k, A.right[w.last]) # Null
    <3>1. k # Null
      BY <1>3 DEF Facts
    <3> QED  BY <1>1, <1>6, <2>2, <3>1 DEF y
  <2> QED  BY <2>1, <2>3 DEF Rotate, V, n
<1>15. TurnedLeft(A, S, n, V)
  <2>1. A.right[n] # Null
    BY <1>1, <1>4, <1>6
  <2> QED  BY <1>1, <1>6, <2>1, TurnedLeftHeights DEF V
<1>16. /\ Tree(V, S, below2) /\ Ordered(TRUE, V.left, V.right, S, below2)
  <2>1. A.right[n] # Null
    BY <1>1, <1>4, <1>6
  <2> QED  BY <1>1, <1>6, <2>1, RotatedLeft DEF V, below2
<1>17. /\ ~V.crashed
       /\ V.left[n] = l /\ V.right[n] = a /\ V.left[y] = n /\ V.right[y] = b
       /\ \A x \in S \ {n, y} : /\ V.left[x] = IF T.left[x] = n THEN y ELSE T.left[x]
                                /\ V.right[x] = IF T.right[x] = n THEN y ELSE T.right[x]
  BY <1>1, <1>6, <1>15 DEF TurnedLeft
<1>18. V.height = [A.height EXCEPT ![n] = hl + 1, ![y] = hl + 2]
  <2>1. /\ Height(A, A.left[n]) = hl /\ Height(A, A.left[A.right[n]]) = hl
        /\ Height(A, A.right[A.right[n]]) = hl + 1
    <3>1. Height(A, a) = ha /\ Height(A, b) = hb
      BY <1>7, <1>9, <1>10
    <3> QED  BY <1>1, <1>6, <1>8, <1>13, <3>1
  <2>2. Larger(hl, hl) = hl /\ Larger(hl + 1, hl + 1) = hl + 1 /\ (hl + 1) + 1 = hl + 2
    <3> HIDE DEF hl
    <3> QED  BY <1>13 DEF Larger
  <2> HIDE DEF hl
  <2> QED  BY <1>1, <1>6, <1>15, <2>1, <2>2 DEF TurnedLeft
<1>19. V.height[n] = hl + 1 /\ V.height[y] = hl + 2 /\ \A x \in S \ {n, y} : V.height[x] = T.height[x]
  <2>1. A.height \in [Key -> Nat] /\ y \in Key /\ S \subseteq Key
    BY <1>1, <1>3, <1>6 DEF Tree, Record, Facts
  <2> HIDE DEF hl
  <2> QED  BY <1>4, <1>7, <1>18, <2>1
<1>20. \A c \in S \cup {Null} : c # n /\ c # y => Height(V, c) = Height(T, c)
  BY <1>19 DEF Height
<1>21. Height(V, n) = hl + 1 /\ Height(V, y) = hl + 2
  BY <1>4, <1>19 DEF Height
<1>22. Fine(V, n)
  <2>1. Height(V, V.left[n]) = hl /\ Height(V, V.right[n]) = hl
    BY <1>4, <1>9, <1>10, <1>13, <1>17, <1>20
  <2> HIDE DEF hl
  <2> QED  BY <1>13, <1>19, <2>1 DEF Fine, InBalance, Imbalance, Larger
<1>23. Fine(V, y)
  <2>1. Height(V, V.left[y]) = hl + 1 /\ Height(V, V.right[y]) = hl + 1
    BY <1>9, <1>10, <1>13, <1>17, <1>20, <1>21
  <2> HIDE DEF hl
  <2> QED  BY <1>13, <1>19, <2>1 DEF Fine, InBalance, Imbalance, Larger
<1>24. ASSUME NEW x \in S \ {n, y} PROVE Fine(V, x)
  <2>1. Fine(T, x)
    BY <1>1
  <2>2. /\ T.left[x] \in S \cup {Null} /\ T.right[x] \in S \cup {Null}
        /\ T.left[x] # y /\ T.right[x] # y
    <3>1. T.parent[y] = n
      BY <1>1, <1>3, <1>4 DEF Facts
    <3> QED  BY <1>3, <1>4, <3>1 DEF Facts
  <2>3. Height(T, n) = Height(V, y)
    BY <1>4, <1>13, <1>21 DEF Height
  <2>4. Height(V, V.left[x]) = Height(T, T.left[x]) /\ Height(V, V.right[x]) = Height(T, T.right[x])
    BY <1>17, <1>20, <2>2, <2>3
  <2> QED  BY <1>19, <2>1, <2>4 DEF Fine, InBalance, Imbalance
<1>25. Grown(V, S)
  BY <1>16, <1>17, <1>22, <1>23, <1>24 DEF Grown
<1> QED  BY <1>14, <1>25

\* The first round: nothing is wrong at the parent of the new node k, the largest key.
LEMMA FirstRound ==
  ASSUME NEW T, NEW S, NEW below, Tree(T, S, below), Ordered(TRUE, T.left, T.right, S, below),
         ~T.crashed, \A x \in S : Fine(T, x), T.root # Null, NEW k \in Key \ S, \A x \in S : x < k
  PROVE  /\ Balance(WalkStart(Hung(T, k), k)).i = 3
         /\ \E below2 : Climbing(Balance(WalkStart(Hung(T, k), k)), S \cup {k}, below2, k)
<1> DEFINE C == Hung(T, k)
           p == LeafFor(T, k)
           S2 == S \cup {k}
           below2 == BelowAdded(below, S, p, k)
           hl == Height(T, T.left[p])
           z == T.parent[p]
           start == WalkStart(C, k)
           w == Balance(start)
<1>1. HungUnder(T, S, below, k, p, C)
  BY HungTree
<1> HIDE DEF C, p, below2
<1>2. /\ T \in Record /\ Shape(T.root, T.left, T.right, T.parent, S, below)
      /\ Facts(T.left, T.right, T.parent, S, below) /\ Unlinked(T, S)
  BY ShapeFacts DEF Tree
<1>3. /\ p \in S /\ p \in Key /\ k \in Key /\ p < k /\ k > p /\ p # k /\ p # Null /\ k # Null
      /\ k \notin S /\ T.right[p] = Null
  <2>1. p \in S /\ Toward(T, p, k) = Null
    BY <1>1 DEF HungUnder
  <2>2. /\ p \in Key /\ p # Null /\ k # Null /\ p \in Nat /\ k \in Nat
    BY <1>2, <2>1, KeyFacts DEF Facts
  <2>3. k > p
    BY <2>1, <2>2
  <2> QED  BY <2>1, <2>2, <2>3 DEF Toward
<1>4. /\ Tree(C, S2, below2) /\ Ordered(TRUE, C.left, C.right, S2, below2) /\ ~C.crashed
      /\ C.left = T.left /\ C.right = [T.right EXCEPT ![p] = k]
      /\ C.parent = [T.parent EXCEPT ![k] = p]
  BY <1>1, <1>3 DEF HungUnder, below2
<1>5. C.right[p] = k /\ \A x \in Key : x # p => C.right[x] = T.right[x]
  BY <1>2, <1>3, <1>4 DEF Record
<1>6. C.parent[k] = p /\ C.parent[p] = z
  BY <1>2, <1>3, <1>4 DEF Record
<1>7. T.left[k] = Null /\ T.right[k] = Null
  BY <1>2, <1>3 DEF Unlinked
<1>8. hl \in {0, 1} /\ T.height[p] = 1 + hl /\ T.left[p] \in S \cup {Null} /\ T.left[p] # p
  <2>1. Fine(T, p) /\ Height(T, T.right[p]) = 0
    BY <1>3 DEF Height
  <2>2. hl \in Nat
    BY <1>2, <1>3, HeightsAreNumbers
  <2>3. hl - 0 \in {-1, 0, 1} /\ T.height[p] = 1 + Larger(hl, 0)
    BY <2>1 DEF Fine, InBalance, Imbalance
  <2>4. T.left[p] # Null => T.left[p] # p
    BY <1>2, <1>3, Children
  <2>5. T.left[p] \in S \cup {Null}
    BY <1>2, <1>3 DEF Facts
  <2>6. hl \in {0, 1} /\ T.height[p] = 1 + hl
    <3> HIDE DEF hl
    <3> QED  BY <2>2, <2>3 DEF Larger
  <2> QED  BY <1>3, <2>4, <2>5, <2>6
<1>9. C.height[k] = 1 /\ C.height[p] = 2 /\ \A x \in S : x # p => C.height[x] = T.height[x]
  <2> DEFINE h == [T.height EXCEPT ![k] = 1]
             high(c) == IF c = Null THEN 0 ELSE h[c]
  <2>1. T.height \in [Key -> Nat] /\ S \subseteq Key
    BY <1>2 DEF Record, Facts
  <2>2. C.height = [h EXCEPT ![p] = Larger(high(T.left[p]), high(k)) + 1]
    BY <1>1, <1>4, <1>5 DEF HungUnder
  <2>3. high(k) = 1
    BY <1>3, <2>1
  <2>4. high(T.left[p]) = hl
    BY <1>3, <1>8, <2>1 DEF Height
  <2>5. Larger(hl, 1) + 1 = 2
    <3> HIDE DEF hl
    <3> QED  BY <1>8 DEF Larger
  <2> HIDE DEF high, hl
  <2>6. C.height = [h EXCEPT ![p] = 2]
    BY <2>2, <2>3, <2>4, <2>5
  <2> QED  BY <1>3, <2>1, <2>6
<1>10. \A c \in S \cup {Null} : c # p => Height(C, c) = Height(T, c)
  BY <1>3, <1>9 DEF Height
<1>11. Height(C, k) = 1 /\ Height(C, p) = 2 /\ Height(C, C.left[p]) = hl
  BY <1>3, <1>4, <1>8, <1>9, <1>10 DEF Height
<1>12. Fine(C, k)
  BY <1>3, <1>4, <1>5, <1>7, <1>9 DEF Fine, InBalance, Imbalance, Height, Larger
<1>13. InBalance(C, p) /\ Fine(C, p)
  <2>1. hl - 1 \in {-1, 0, 1} /\ 2 = 1 + Larger(hl, 1)
    <3> HIDE DEF hl
    <3> QED  BY <1>8 DEF Larger
  <2> HIDE DEF hl
  <2> QED  BY <1>5, <1>9, <1>11, <2>1 DEF Fine, InBalance, Imbalance
<1>14. w = [start EXCEPT !.tree = C, !.last = p, !.at = z, !.i = @ + 1]
  <2>1. C \in Record
    BY <1>4 DEF Tree
  <2>2. [C EXCEPT !.height[p] = Larger(@, 2)] = C
    <3>1. Larger(C.height[p], 2) = C.height[p]
      BY <1>9 DEF Larger
    <3> QED  BY <1>3, <2>1, <3>1 DEF Record
  <2>3. start.at = p /\ start.tree = C /\ start.i = 2
    BY <1>6 DEF WalkStart
  <2> HIDE DEF start, z
  <2>4. [start.tree EXCEPT !.height[start.at] = Larger(@, start.i)] = C
    BY <2>2, <2>3
  <2> QED  BY <1>3, <1>6, <1>13, <2>3, <2>4 DEF Balance
<1>15. w.tree = C /\ w.k = k /\ w.last = p /\ w.at = z /\ w.i = 3
  <2> HIDE DEF C, z, w
  <2> QED  BY <1>14 DEF WalkStart
<1> HIDE DEF w, start
<1>16. ASSUME NEW x \in S, x # p, x # z PROVE Fine(C, x)
  <2>1. Fine(T, x) /\ x \in Key
    BY <1>2 DEF Facts
  <2>2. T.left[x] \in S \cup {Null} /\ T.right[x] \in S \cup {Null} /\ T.left[x] # p /\ T.right[x] # p
    BY <1>2, <1>3, <1>16 DEF Facts
  <2>3. Height(C, C.left[x]) = Height(T, T.left[x]) /\ Height(C, C.right[x]) = Height(T, T.right[x])
    BY <1>4, <1>5, <1>10, <1>16, <2>1, <2>2
  <2> QED  BY <1>9, <1>16, <2>1, <2>3 DEF Fine, InBalance, Imbalance
<1>17. \A x \in S2 \ {z} : Fine(C, x)
  BY <1>12, <1>13, <1>16
<1>18. /\ Shape(C.root, C.left, C.right, C.parent, S2, below2)
       /\ Facts(C.left, C.right, C.parent, S2, below2)
  BY <1>4, ShapeFacts DEF Tree
<1>19. k \in below2[p] /\ 3 <= Cardinality(below2[p]) + 1
  <2>1. p \in S2 /\ k \in S2
    BY <1>3
  <2>2. k \in below2[p]
    BY <1>5, <1>18, <2>1 DEF Facts
  <2>3. /\ Cardinality(below2[k]) < Cardinality(below2[p])
        /\ Cardinality(below2[k]) \in 1 .. MaxKey /\ Cardinality(below2[p]) \in 1 .. MaxKey
    BY <1>3, <1>5, <1>18, <2>1, Subtrees
  <2> QED  BY <2>2, <2>3, AvlAssumption
<1>20. ASSUME z # Null
       PROVE  z \in S2 /\ p = C.right[z] /\ Pending(C, z, p, 3, 1 + hl)
  <2>1. OnRight(C, S2, below2, k, z, p)
    <3>1. \A x \in S2 : x <= k
      <4>1. S \subseteq Nat /\ k \in Nat
        BY <1>2, <1>3, KeyFacts DEF Facts
      <4> QED  BY <4>1
    <3>2. C.parent[p] # Null /\ p \in S2 /\ k \in S2
      BY <1>3, <1>6, <1>20
    <3> HIDE DEF S2
    <3> QED  BY <1>4, <1>6, <1>19, <3>1, <3>2, LargestIsRight
  <2>2. z \in S2 /\ C.right[z] = p /\ z # k /\ z # p /\ T.left[z] # p
    BY <1>4, <2>1 DEF OnRight
  <2>3. z \in S /\ z \in Key
    BY <1>2, <2>2 DEF Facts
  <2>4. T.right[z] = p /\ T.left[z] \in S \cup {Null}
    BY <1>2, <1>5, <2>2, <2>3 DEF Facts
  <2>5. /\ C.height[z] = T.height[z] /\ Height(C, C.left[z]) = Height(T, T.left[z])
        /\ Height(T, T.right[z]) = 1 + hl
    BY <1>3, <1>4, <1>8, <1>9, <1>10, <2>2, <2>3, <2>4 DEF Height
  <2>6. Fine(T, z)
    BY <2>3
  <2>7. /\ C.height[z] = 1 + Larger(Height(C, C.left[z]), 1 + hl)
        /\ Height(C, C.left[z]) - (1 + hl) \in {-1, 0, 1}
    BY <2>5, <2>6 DEF Fine, InBalance, Imbalance
  <2>8. /\ C.height[p] = Larger(1 + hl, 3 - 1) /\ 3 - 1 <= (1 + hl) + 1
        /\ C.height[p] = (1 + hl) + 1 => Height(C, C.right[p]) = Height(C, C.left[p]) + 1
    <3> HIDE DEF hl
    <3> QED  BY <1>5, <1>8, <1>9, <1>11 DEF Larger
  <2> HIDE DEF hl
  <2>9. Pending(C, z, p, 3, 1 + hl)
    BY <2>7, <2>8 DEF Pending
  <2> QED  BY <2>2, <2>9
<1>21. 1 + hl \in Nat
  <2> HIDE DEF hl
  <2> QED  BY <1>8
<1>22. Climbing(w, S2, below2, k)
  <2> HIDE DEF z
  <2>1. z # Null => \E H \in Nat : Pending(C, z, p, 3, H)
    BY <1>20, <1>21
  <2>2. z # Null => z \in S2 /\ p = C.right[z]
    BY <1>20
  <2> HIDE DEF hl
  <2>3. /\ w.k = k /\ w.i \in Nat /\ ~w.tree.crashed /\ Tree(w.tree, S2, below2)
        /\ Ordered(TRUE, w.tree.left, w.tree.right, S2, below2)
        /\ \A x \in S2 \ {w.at} : Fine(w.tree, x)
    <3>1. w.k = k /\ w.i \in Nat
      BY <1>15
    <3> HIDE DEF S2
    <3> QED  BY <1>4, <1>15, <1>17, <3>1
  <2>4. /\ w.last \in S2 /\ k \in below2[w.last] /\ w.last # k
        /\ w.i <= Cardinality(below2[w.last]) + 1
    BY <1>3, <1>15, <1>19
  <2>5. w.at # Null => /\ w.at \in S2 /\ w.last = w.tree.right[w.at]
                       /\ \E H \in Nat : Pending(w.tree, w.at, w.last, w.i, H)
    BY <1>15, <2>1, <2>2
  <2> HIDE DEF S2
  <2> QED  BY <2>3, <2>4, <2>5 DEF Climbing
<1> QED  BY <1>15, <1>22 DEF S2, w, start, C

\* At the end of the walk all is well.
LEMMA GrownAtEnd ==
  ASSUME NEW w, NEW S, NEW below, NEW k, Climbing(w, S, below, k), w.at = Null
  PROVE  Grown(w.tree, S)
<1>1. IsTree(w.tree, S, FALSE)
  BY DEF Climbing, IsTree
<1>2. Null \notin S
  BY <1>1, TreeFacts
<1>3. S \ {w.at} = S
  BY <1>2
<1> QED  BY <1>3 DEF Climbing, Grown

\* A round that begins well goes on or ends well.
LEMMA NextRound ==
  ASSUME NEW S, NEW w \in Walking(S), NEW below, NEW k \in S, \A x \in S : x <= k,
         Climbing(w, S, below, k), w.at # Null
  PROVE  \/ Climbing(Balance(w), S, below, k) /\ Balance(w).i = w.i + 1
         \/ Balance(w).at = Null /\ Grown(Balance(w).tree, S)
<1> DEFINE n == w.at
           A == [w.tree EXCEPT !.height[n] = Larger(@, w.i)]
           R == Rotate(A, n, w.last, w.last = A.left[n], Search(A, w.k, A.right[w.last]) # Null)
           v == Balance(w)
<1>1. CASE InBalance(A, n)
  <2>1. v = [w EXCEPT !.tree = A, !.last = n, !.at = A.parent[n], !.i = @ + 1]
    BY <1>1 DEF Balance
  <2> HIDE DEF v
  <2>2. v.tree = A /\ v.k = w.k /\ v.last = n /\ v.at = A.parent[n] /\ v.i = w.i + 1
    <3> HIDE DEF A
    <3> QED  BY <2>1 DEF Walking
  <2>3. Climbing(v, S, below, k)
    BY <1>1, <2>2, ClimbOn
  <2> QED  BY <2>2, <2>3 DEF v
<1>2. CASE ~InBalance(A, n)
  <2>1. v = [w EXCEPT !.tree = R, !.at = Null]
    BY <1>2 DEF Balance
  <2> HIDE DEF v
  <2>2. v.tree = R /\ v.at = Null
    <3> HIDE DEF R
    <3> QED  BY <2>1 DEF Walking
  <2>3. Grown(R, S)
    BY <1>2, TurnAndStop
  <2> QED  BY <2>2, <2>3 DEF v
<1> QED  BY <1>1, <1>2

\* An insertion of the largest key keeps the tree in balance.
LEMMA GrowInsert ==
  ASSUME NEW T, NEW S, Grown(T, S), NEW k \in Key \ S, \A x \in S : x < k
  PROVE  Grown(InsertKey(T, k), S \cup {k})
<1> DEFINE S2 == S \cup {k}
<1>1. PICK below : /\ Tree(T, S, below) /\ Ordered(TRUE, T.left, T.right, S, below)
                   /\ \A x \in S : Fine(T, x)
  BY DEF Grown
<1>2. /\ T \in Record /\ Unlinked(T, S) /\ Shape(T.root, T.left, T.right, T.parent, S, below)
      /\ k \in Key /\ k # Null /\ ~T.crashed
  BY <1>1, KeyFacts DEF Tree, Grown
<1>3. CASE T.root = Null
  <2> DEFINE V == InsertKey(T, k)
  <2>1. S = {}
    BY <1>2, <1>3 DEF Shape, RootOK
  <2>2. IsTree(V, S2, TRUE)
    BY <1>1, InsertTree DEF IsTree
  <2>3. V = [[T EXCEPT !.height[k] = 1] EXCEPT !.root = k]
    BY <1>3 DEF InsertKey
  <2>4. V.left[k] = Null /\ V.right[k] = Null /\ V.height[k] = 1 /\ ~V.crashed
    BY <1>2, <2>3 DEF Record, Unlinked
  <2> HIDE DEF V
  <2>5. Fine(V, k)
    BY <2>4 DEF Fine, InBalance, Imbalance, Height, Larger
  <2>6. \A x \in S2 : Fine(V, x)
    BY <2>1, <2>5
  <2> HIDE DEF S2
  <2>7. Grown(V, S2)
    BY <2>2, <2>4, <2>6 DEF Grown, IsTree
  <2> QED  BY <2>7 DEF V, S2
<1>4. CASE T.root # Null
  <2> DEFINE C == Hung(T, k)
  <2>1. InsertKey(T, k) = BalanceNode(C, k) /\ HungUnder(T, S, below, k, LeafFor(T, k), C)
    BY <1>1, <1>4, HungTree
  <2>2. PICK below2 : /\ Balance(WalkStart(C, k)).i = 3
                      /\ Climbing(Balance(WalkStart(C, k)), S2, below2, k)
    BY <1>1, <1>2, <1>4, FirstRound
  <2>3. IsTree(C, S2, TRUE)
    BY <1>1, <2>1 DEF HungUnder, IsTree
  <2> HIDE DEF C
  <2>4. k \in S2 /\ \A x \in S2 : x <= k
    <3>1. S \subseteq Nat /\ k \in Nat
      BY <1>2, KeyFacts DEF Shape
    <3> QED  BY <3>1
  <2> HIDE DEF S2
  <2>5. PICK walk : Walk(C, S2, TRUE, k, walk)
    BY <2>3, <2>4, BalanceWalk
  <2> DEFINE Going(i) == Climbing(walk[i + 1], S2, below2, k) /\ walk[i + 1].i = i + 3
             Done(i) == walk[i + 1].at = Null /\ Grown(walk[i + 1].tree, S2)
             N == {i \in Nat : Done(i) \/ Going(i)}
  <2>6. 0 \in N
    <3>1. walk[0] = WalkStart(C, k) /\ walk[0 + 1] = Balance(walk[0])
      BY <2>5 DEF Walk
    <3>2. walk[0 + 1].i = 0 + 3 /\ Climbing(walk[0 + 1], S2, below2, k)
      BY <2>2, <3>1
    <3> QED  BY <3>2
  <2>7. ASSUME NEW i \in Nat, i \in N PROVE i + 1 \in N
    <3> DEFINE w == walk[i + 1]
               v == walk[(i + 1) + 1]
    <3>1. i + 1 \in Nat /\ v = Balance(w) /\ w \in Walking(S2)
      <4>1. \A j \in Nat : walk[j + 1] = Balance(walk[j]) /\ walk[j] \in Walking(S2)
        BY <2>5 DEF Walk
      <4> QED  BY <4>1
    <3>2. CASE w.at = Null
      <4>1. Grown(w.tree, S2)
        <5>1. CASE Done(i)
          BY <5>1
        <5>2. CASE Going(i)
          BY <3>2, <5>2, GrownAtEnd
        <5> QED  BY <2>7, <5>1, <5>2
      <4>2. v = w
        BY <3>1, <3>2 DEF Balance
      <4> QED  BY <3>1, <3>2, <4>1, <4>2
    <3>3. CASE w.at # Null
      <4>1. Climbing(w, S2, below2, k) /\ w.i = i + 3
        BY <2>7, <3>3
      <4> HIDE DEF w
      <4>2. \/ Climbing(Balance(w), S2, below2, k) /\ Balance(w).i = w.i + 1
            \/ Balance(w).at = Null /\ Grown(Balance(w).tree, S2)
        BY <2>4, <3>1, <3>3, <4>1, NextRound
      <4>3. w.i + 1 = (i + 1) + 3
        BY <4>1
      <4> QED  BY <3>1, <4>2, <4>3
    <3> QED  BY <3>2, <3>3
  <2> HIDE DEF N
  <2>8. \A i \in Nat : i \in N
    BY <2>6, <2>7, Induction
  <2> DEFINE r == Rounds - 1
  <2>9. r \in Nat /\ r + 1 = Rounds /\ r + 3 > MaxKey + 1 /\ MaxKey \in Nat
    BY AvlAssumption DEF Rounds
  <2>10. Done(r) \/ Going(r)
    <3> HIDE DEF r
    <3>1. r \in N
      BY <2>8, <2>9
    <3> QED  BY <3>1 DEF N
  <2> HIDE DEF r
  <2>11. CASE Done(r)
    BY <2>1, <2>5, <2>9, <2>11 DEF Walk, S2
  <2>12. CASE Going(r)
    <3> DEFINE w == walk[r + 1]
    <3>1. w.at = Null
      <4> SUFFICES ASSUME w.at # Null PROVE FALSE
        OBVIOUS
      <4>1. /\ w.last \in S2 /\ w.i <= Cardinality(below2[w.last]) + 1 /\ w.i = r + 3
            /\ Tree(w.tree, S2, below2)
        BY <2>12 DEF Climbing
      <4> HIDE DEF w
      <4>2. Cardinality(below2[w.last]) \in 1 .. MaxKey
        BY <4>1, Subtrees DEF Tree
      <4> QED  BY <2>9, <4>1, <4>2
    <3>2. Grown(w.tree, S2)
      BY <2>12, <3>1, GrownAtEnd
    <3> QED  BY <2>1, <2>5, <2>9, <3>2 DEF Walk, S2
  <2> QED  BY <2>10, <2>11, <2>12
<1> QED  BY <1>3, <1>4

\* While tasks are only inserted, in the order of handles, the tree is an AVL tree of them.
GrowInv == Ascending /\ removed = {} => Grown(tree, inserted)

\* As long as tasks are only inserted, in the order of their handles, the tree is an AVL tree:
\* the walk of BalanceNode, which takes the number of nodes passed for a height, sets the right
\* heights and rotates where it has to.
THEOREM TreeBalancedWhileGrowing == AvlSpec => []BalancedWhileGrowing
<1>1. AvlInit => GrowInv
  <2> SUFFICES ASSUME AvlInit PROVE Grown(tree, {})
    BY DEF GrowInv, AvlInit
  <2>1. tree = EmptyTree
    BY DEF AvlInit
  <2> QED  BY <2>1, EmptyIsTree DEF Grown, IsTree, EmptyTree
<1>2. GrowInv /\ [AvlNext]_vars => GrowInv'
  <2> SUFFICES ASSUME GrowInv, [AvlNext]_vars PROVE GrowInv'
    OBVIOUS
  <2>1. ASSUME NEW k \in Key, Insert(k) PROVE GrowInv'
    <3> SUFFICES ASSUME Ascending, removed' = {} PROVE Grown(tree', inserted')
      BY DEF GrowInv
    <3>1. /\ removed = {} /\ k \in Key \ inserted /\ \A x \in inserted : x < k
          /\ tree' = InsertKey(tree, k) /\ inserted' = inserted \cup {k}
      BY <2>1 DEF Insert
    <3>2. Grown(tree, inserted)
      BY <3>1 DEF GrowInv
    <3> QED  BY <3>1, <3>2, GrowInsert
  <2>2. ASSUME NEW k \in Key, Remove(k) PROVE GrowInv'
    <3>1. k \in removed'
      BY <2>2 DEF Remove
    <3> QED  BY <3>1 DEF GrowInv
  <2>3. CASE UNCHANGED vars
    BY <2>3 DEF vars, GrowInv
  <2> QED  BY <2>1, <2>2, <2>3 DEF AvlNext
<1>3. GrowInv => BalancedWhileGrowing
  <2> SUFFICES ASSUME Grown(tree, inserted) PROVE Balanced
    BY DEF GrowInv, BalancedWhileGrowing
  <2>1. PICK below : Tree(tree, inserted, below) /\ \A x \in inserted : Fine(tree, x)
    BY DEF Grown
  <2>2. Members = inserted
    BY <2>1, MembersLemma
  <2> QED  BY <2>1, <2>2 DEF Balanced, Fine
<1> QED  BY <1>1, <1>2, <1>3, PTL DEF AvlSpec
================================================================================
