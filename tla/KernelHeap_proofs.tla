---------------------------- MODULE KernelHeap_proofs ----------------------------
(***************************************************************************)
(* The kernel heap, for every heap size, header size and set of requests.  *)
(***************************************************************************)
EXTENDS KernelHeap, WellFoundedInduction, TLAPS

(* Induction on natural numbers, for sets, and what it gives for functions *)
(* that are defined by recursion.                                          *)

LEMMA Smallest ==
  ASSUME NEW S \in SUBSET Nat, S # {}
  PROVE  \E m \in S : \A n \in S : m <= n
<1> DEFINE R == OpToRel(<, Nat)
<1>1. PICK m \in S : \A n \in S : <<n, m>> \notin R
  BY NatLessThanWellFounded, WFMin
<1>2. \A i, j \in Nat : i < j => <<i, j>> \in R
  BY DEF OpToRel
<1> HIDE DEF R
<1>3. ASSUME NEW n \in S PROVE m <= n
  <2>1. ~(n < m)
    BY <1>1, <1>2
  <2> QED  BY <2>1
<1> QED  BY <1>3

LEMMA Induction ==
  ASSUME NEW S, 0 \in S, \A n \in Nat : n \in S => n + 1 \in S
  PROVE  \A n \in Nat : n \in S
<1> SUFFICES ASSUME Nat \ S # {} PROVE FALSE
  OBVIOUS
<1>1. PICK m \in Nat \ S : \A n \in Nat \ S : m <= n
  BY Smallest
<1>2. m # 0 /\ m - 1 \in Nat /\ m - 1 \in S
  BY <1>1
<1> QED  BY <1>1, <1>2

\* A function on Nat can be defined by saying how each value follows from the one before.
Iterates(f, D, f0, s) == f \in [Nat -> D] /\ f[0] = f0 /\ \A n \in Nat : f[n + 1] = s[f[n]]

LEMMA Recursion ==
  ASSUME NEW D, NEW f0 \in D, NEW s \in [D -> D]
  PROVE  \E f : Iterates(f, D, f0, s)
<1> DEFINE P(n, g) == /\ g \in [0 .. n -> D] /\ g[0] = f0
                      /\ \A i \in 0 .. n - 1 : g[i + 1] = s[g[i]]
<1>1. \A n \in Nat : \E g : P(n, g)
  <2> DEFINE S == {n \in Nat : \E g : P(n, g)}
  <2>1. 0 \in S
    <3>1. P(0, [i \in 0 .. 0 |-> f0])
      OBVIOUS
    <3> QED  BY <3>1
  <2>2. ASSUME NEW n \in Nat, n \in S PROVE n + 1 \in S
    <3>1. PICK g : P(n, g)
      BY <2>2
    <3> DEFINE h == [i \in 0 .. n + 1 |-> IF i = n + 1 THEN s[g[n]] ELSE g[i]]
    <3>2. P(n + 1, h)
      <4>1. h \in [0 .. n + 1 -> D] /\ h[0] = f0
        BY <3>1
      <4>2. ASSUME NEW i \in 0 .. (n + 1) - 1 PROVE h[i + 1] = s[h[i]]
        <5>1. h[i] = g[i] /\ i \in 0 .. n
          OBVIOUS
        <5>2. CASE i = n
          BY <5>1, <5>2
        <5>3. CASE i # n
          BY <5>1, <5>3, <3>1
        <5> QED  BY <5>2, <5>3
      <4> QED  BY <4>1, <4>2
    <3> HIDE DEF h
    <3>3. n + 1 \in Nat
      OBVIOUS
    <3> QED  BY <3>2
  <2> HIDE DEF S
  <2>3. \A n \in Nat : n \in S
    BY <2>1, <2>2, Induction
  <2> QED  BY <2>3 DEF S
<1>2. ASSUME NEW n \in Nat, NEW g, NEW h, P(n, g), P(n + 1, h)
      PROVE  g[n] = h[n]
  <2> DEFINE S == {i \in Nat : i <= n => g[i] = h[i]}
  <2>1. 0 \in S
    BY <1>2
  <2>2. ASSUME NEW i \in Nat, i \in S PROVE i + 1 \in S
    BY <1>2, <2>2
  <2> HIDE DEF S
  <2>3. \A i \in Nat : i \in S
    BY <2>1, <2>2, Induction
  <2> QED  BY <2>3 DEF S
<1> DEFINE G(n) == CHOOSE g : P(n, g)
           f == [n \in Nat |-> G(n)[n]]
<1>3. \A n \in Nat : P(n, G(n))
  BY <1>1
<1> HIDE DEF G
<1>4. f \in [Nat -> D] /\ f[0] = f0
  BY <1>3
<1>5. ASSUME NEW n \in Nat PROVE f[n + 1] = s[f[n]]
  <2>1. G(n)[n] = G(n + 1)[n]
    <3>1. n + 1 \in Nat
      OBVIOUS
    <3> HIDE DEF P
    <3> QED  BY <3>1, <1>2, <1>3
  <2>2. G(n + 1)[n + 1] = s[G(n + 1)[n]]
    BY <1>3
  <2> QED  BY <2>1, <2>2
<1> QED  BY <1>4, <1>5 DEF Iterates

--------------------------------------------------------------------------------
(* The free list                                                           *)

\* Reached, for a list that begins with h and goes on with nx.
Walk(h, nx) ==
  CHOOSE r : r = [k \in Nat |-> IF k = 0 THEN h
                                ELSE LET p == r[k - 1] IN IF p = Null THEN Null ELSE nx[p]]

Pointer == Addr \cup {Null}

LEMMA WalkDef ==
  ASSUME NEW h \in Pointer, NEW nx \in [Addr -> Pointer]
  PROVE  /\ Walk(h, nx) \in [Nat -> Pointer]
         /\ Walk(h, nx)[0] = h
         /\ \A k \in Nat : Walk(h, nx)[k + 1] = IF Walk(h, nx)[k] = Null THEN Null
                                                 ELSE nx[Walk(h, nx)[k]]
<1> DEFINE s == [p \in Pointer |-> IF p = Null THEN Null ELSE nx[p]]
           Eq(r) == r = [k \in Nat |-> IF k = 0 THEN h
                                       ELSE LET p == r[k - 1] IN IF p = Null THEN Null ELSE nx[p]]
<1>1. s \in [Pointer -> Pointer]
  BY DEF Pointer
<1>2. PICK f : Iterates(f, Pointer, h, s)
  <2> HIDE DEF s
  <2> QED  BY <1>1, Recursion
<1> USE DEF Iterates
<1>3. Eq(f)
  <2>1. ASSUME NEW k \in Nat, k # 0
        PROVE  f[k] = IF f[k - 1] = Null THEN Null ELSE nx[f[k - 1]]
    <3>1. k - 1 \in Nat /\ k - 1 + 1 = k
      BY <2>1
    <3> QED  BY <3>1, <1>2
  <2>2. f = [k \in Nat |-> f[k]]
    BY <1>2
  <2> QED  BY <1>2, <2>1, <2>2
<1>4. Eq(Walk(h, nx))
  <2>1. Walk(h, nx) = CHOOSE r : Eq(r)
    BY DEF Walk
  <2> HIDE DEF Eq
  <2> QED  BY <1>3, <2>1
<1> DEFINE w == Walk(h, nx)
<1>5. \A k \in Nat : w[k] = IF k = 0 THEN h ELSE IF w[k - 1] = Null THEN Null ELSE nx[w[k - 1]]
  BY <1>4
<1>6. w \in [Nat -> Pointer]
  <2> DEFINE S == {k \in Nat : w[k] \in Pointer}
  <2>1. 0 \in S
    BY <1>5
  <2>2. ASSUME NEW k \in Nat, k \in S PROVE k + 1 \in S
    BY <2>2, <1>5 DEF Pointer
  <2> HIDE DEF S
  <2>3. \A k \in Nat : k \in S
    BY <2>1, <2>2, Induction
  <2>4. w = [k \in Nat |-> w[k]]
    BY <1>4
  <2> HIDE DEF w
  <2> QED  BY <2>3, <2>4 DEF S
<1> HIDE DEF w, Eq
<1>7. w[0] = h /\ \A k \in Nat : w[k + 1] = IF w[k] = Null THEN Null ELSE nx[w[k]]
  BY <1>5
<1> QED  BY <1>6, <1>7 DEF w

\* The list that begins with h and is linked by nx and pv consists of the blocks of S in
\* address order.
IsList(h, nx, pv, S) ==
  /\ IF S = {} THEN h = Null ELSE h \in S /\ pv[h] = Null /\ \A a \in S : h <= a
  /\ \A a \in S : \/ nx[a] = Null /\ \A b \in S : b <= a
                  \/ /\ nx[a] \in S /\ a < nx[a] /\ pv[nx[a]] = a
                     /\ \A b \in S : b <= a \/ nx[a] <= b
  /\ \A a, b \in S : a < b => a + Hdr <= b

LEMMA ListReached ==
  ASSUME NEW h \in Pointer, NEW nx \in [Addr -> Pointer], NEW pv, NEW S \in SUBSET Addr,
         IsList(h, nx, pv, S)
  PROVE  /\ {Walk(h, nx)[k] : k \in Links} \ {Null} = S
         /\ \A k \in Nat : Walk(h, nx)[k] \in S \cup {Null}
         /\ \A k \in Nat : Walk(h, nx)[k] # Null => k \in Links
<1> USE HeapAssumption
<1> DEFINE w == Walk(h, nx)
<1>1. /\ w \in [Nat -> Pointer] /\ w[0] = h
      /\ \A k \in Nat : w[k + 1] = IF w[k] = Null THEN Null ELSE nx[w[k]]
  BY WalkDef
<1> HIDE DEF w
<1>2. /\ \A a \in S : a \in Nat /\ a <= HeapSize
      /\ Null \notin S
  BY DEF Addr, Null
<1>3. \A k \in Nat : w[k] \in S \cup {Null}
  <2> DEFINE T == {k \in Nat : w[k] \in S \cup {Null}}
  <2>1. 0 \in T
    BY <1>1 DEF IsList
  <2>2. ASSUME NEW k \in Nat, k \in T PROVE k + 1 \in T
    BY <2>2, <1>1 DEF IsList
  <2> HIDE DEF T
  <2>3. \A k \in Nat : k \in T
    BY <2>1, <2>2, Induction
  <2> QED  BY <2>3 DEF T
<1>4. \A k \in Nat : w[k] # Null => k * Hdr <= w[k]
  <2> DEFINE T == {k \in Nat : w[k] # Null => k * Hdr <= w[k]}
  <2>1. 0 \in T
    <3>1. w[0] # Null => w[0] \in S
      BY <1>3
    <3>2. 0 * Hdr = 0
      OBVIOUS
    <3> QED  BY <3>1, <3>2, <1>2
  <2>2. ASSUME NEW k \in Nat, k \in T PROVE k + 1 \in T
    <3> SUFFICES ASSUME w[k + 1] # Null PROVE (k + 1) * Hdr <= w[k + 1]
      OBVIOUS
    <3>1. w[k] # Null /\ w[k + 1] = nx[w[k]] /\ w[k] \in S /\ w[k + 1] \in S
      BY <1>1, <1>3
    <3>2. w[k] + Hdr <= w[k + 1] /\ w[k] \in Nat /\ w[k + 1] \in Nat
      BY <3>1, <1>2 DEF IsList
    <3>3. (k + 1) * Hdr = k * Hdr + Hdr /\ k * Hdr \in Nat
      OBVIOUS
    <3> QED  BY <2>2, <3>1, <3>2, <3>3
  <2> HIDE DEF T
  <2>3. \A k \in Nat : k \in T
    BY <2>1, <2>2, Induction
  <2> QED  BY <2>3 DEF T
<1>5. \A k \in Nat : w[k] # Null => k \in Links
  <2> SUFFICES ASSUME NEW k \in Nat, k * Hdr <= HeapSize PROVE k <= HeapSize \div Hdr
    <3>1. \A j \in Nat : w[j] # Null => w[j] \in Nat /\ w[j] <= HeapSize
      BY <1>3, <1>2
    <3>2. \A j \in Nat : j * Hdr \in Nat
      OBVIOUS
    <3>3. HeapSize \div Hdr \in Nat
      OBVIOUS
    <3> QED  BY <1>4, <3>1, <3>2, <3>3 DEF Links
  <2> QED  OBVIOUS
<1>6. ASSUME NEW a \in S PROVE \E k \in Nat : w[k] = a
  <2> SUFFICES ASSUME \A k \in Nat : w[k] # a PROVE FALSE
    OBVIOUS
  <2> DEFINE T == {k \in Nat : w[k] # Null /\ w[k] < a}
  <2>1. 0 \in T
    <3>1. h \in S /\ h <= a /\ h # a
      BY <1>1 DEF IsList
    <3> QED  BY <3>1, <1>1, <1>2
  <2>2. ASSUME NEW k \in Nat, k \in T PROVE k + 1 \in T
    <3>1. w[k] \in S /\ w[k] < a /\ w[k + 1] = nx[w[k]]
      BY <2>2, <1>1, <1>3
    <3>2. nx[w[k]] \in S /\ (a <= w[k] \/ nx[w[k]] <= a)
      BY <3>1, <1>2 DEF IsList
    <3>3. w[k + 1] \in S /\ w[k + 1] <= a /\ w[k + 1] # a
      BY <3>1, <3>2, <1>2
    <3> QED  BY <3>3, <1>2
  <2> HIDE DEF T
  <2>3. \A k \in Nat : k \in T
    BY <2>1, <2>2, Induction
  <2>4. a \in Nat /\ w[a] # Null /\ w[a] < a /\ w[a] \in Nat
    BY <2>3, <1>3, <1>2 DEF T
  <2>5. a * Hdr <= w[a] /\ a <= a * Hdr /\ a * Hdr \in Nat
    BY <2>4, <1>4
  <2> QED  BY <2>4, <2>5
<1>7. {w[k] : k \in Links} \ {Null} = S
  <2>1. Links \subseteq Nat
    BY DEF Links
  <2>2. S \subseteq {w[k] : k \in Links} \ {Null}
    BY <1>5, <1>6, <1>2
  <2> QED  BY <2>1, <2>2, <1>3
<1> QED  BY <1>3, <1>5, <1>7 DEF w

\* A block b is taken off the list: its neighbours are linked to each other.
Unlinked(S, h, nx, pv, b, h2, nx2, pv2) ==
  /\ h2 = IF b = h THEN nx[b] ELSE h
  /\ \A a \in S \ {b} : /\ nx2[a] = IF nx[a] = b THEN nx[b] ELSE nx[a]
                        /\ pv2[a] = IF a = nx[b] THEN pv[b] ELSE pv[a]

LEMMA ListRemove ==
  ASSUME NEW S \in SUBSET Addr, NEW h, NEW nx, NEW pv, IsList(h, nx, pv, S), NEW b \in S,
         NEW h2, NEW nx2, NEW pv2, Unlinked(S, h, nx, pv, b, h2, nx2, pv2)
  PROVE  IsList(h2, nx2, pv2, S \ {b})
<1> USE DEF Unlinked
<1>1. \A a \in S : a \in Nat
  BY HeapAssumption DEF Addr
<1>2. Null \notin S
  BY <1>1 DEF Null
<1>3. IF S \ {b} = {} THEN h2 = Null ELSE h2 \in S \ {b} /\ pv2[h2] = Null /\ \A a \in S \ {b} : h2 <= a
  BY <1>1, <1>2 DEF IsList
<1>4. ASSUME NEW a \in S \ {b}
      PROVE  \/ nx2[a] = Null /\ \A c \in S \ {b} : c <= a
             \/ /\ nx2[a] \in S \ {b} /\ a < nx2[a] /\ pv2[nx2[a]] = a
                /\ \A c \in S \ {b} : c <= a \/ nx2[a] <= c
  <2>1. CASE nx[a] = b
    BY <2>1, <1>1, <1>2 DEF IsList
  <2>2. CASE nx[a] # b
    BY <2>2, <1>1, <1>2 DEF IsList
  <2> QED  BY <2>1, <2>2
<1>5. \A a, c \in S \ {b} : a < c => a + Hdr <= c
  BY DEF IsList
<1> QED  BY <1>3, <1>4, <1>5 DEF IsList

\* A block c takes the place of a block b.
Relinked(S, h, nx, pv, b, c, h2, nx2, pv2) ==
  /\ h2 = IF b = h THEN c ELSE h
  /\ \A a \in S \ {b} : /\ nx2[a] = IF nx[a] = b THEN c ELSE nx[a]
                        /\ pv2[a] = IF a = nx[b] THEN c ELSE pv[a]
                        /\ a < b => a + Hdr <= c
                        /\ b < a => c + Hdr <= a
  /\ nx2[c] = nx[b] /\ pv2[c] = pv[b]

LEMMA ListReplace ==
  ASSUME NEW S \in SUBSET Addr, NEW h, NEW nx, NEW pv, IsList(h, nx, pv, S), NEW b \in S,
         NEW c \in Addr, NEW h2, NEW nx2, NEW pv2, Relinked(S, h, nx, pv, b, c, h2, nx2, pv2)
  PROVE  IsList(h2, nx2, pv2, (S \ {b}) \cup {c})
<1> DEFINE T == (S \ {b}) \cup {c}
<1> USE DEF Relinked
<1>1. /\ \A a \in S \cup {c} : a \in Nat
      /\ Hdr \in Nat \ {0}
  BY HeapAssumption DEF Addr
<1>2. Null \notin S \cup {c} /\ c \notin S \ {b}
  BY <1>1 DEF Null
<1>3. h2 \in T /\ pv2[h2] = Null /\ \A a \in T : h2 <= a
  BY <1>1, <1>2 DEF IsList
<1>4. ASSUME NEW a \in T
      PROVE  \/ nx2[a] = Null /\ \A d \in T : d <= a
             \/ /\ nx2[a] \in T /\ a < nx2[a] /\ pv2[nx2[a]] = a
                /\ \A d \in T : d <= a \/ nx2[a] <= d
  <2>1. CASE a = c
    BY <2>1, <1>1, <1>2 DEF IsList
  <2>2. CASE a # c /\ nx[a] = b
    BY <2>2, <1>1, <1>2 DEF IsList
  <2>3. CASE a # c /\ nx[a] # b
    BY <2>3, <1>1, <1>2 DEF IsList
  <2> QED  BY <2>1, <2>2, <2>3
<1>5. \A a, d \in T : a < d => a + Hdr <= d
  BY <1>1, <1>2 DEF IsList
<1> QED  BY <1>3, <1>4, <1>5 DEF IsList

\* A block b is put on the list between l and r.
Between(S, h, nx, l, b, r) ==
  \/ l = Null /\ r = h /\ \A a \in S : b < a
  \/ l \in S /\ r = nx[l] /\ l < b /\ (r = Null \/ b < r)

Linked(S, h, nx, pv, l, b, r, h2, nx2, pv2) ==
  /\ h2 = IF l = Null THEN b ELSE h
  /\ \A a \in S : /\ nx2[a] = IF a = l THEN b ELSE nx[a]
                  /\ pv2[a] = IF a = r THEN b ELSE pv[a]
                  /\ ((a < b /\ a + Hdr <= b) \/ (b < a /\ b + Hdr <= a))
  /\ nx2[b] = r /\ pv2[b] = l

LEMMA ListInsert ==
  ASSUME NEW S \in SUBSET Addr, NEW h, NEW nx, NEW pv, IsList(h, nx, pv, S),
         NEW l, NEW b \in Addr, NEW r, Between(S, h, nx, l, b, r),
         NEW h2, NEW nx2, NEW pv2, Linked(S, h, nx, pv, l, b, r, h2, nx2, pv2)
  PROVE  IsList(h2, nx2, pv2, S \cup {b})
<1> DEFINE T == S \cup {b}
<1> USE DEF Between, Linked
<1>1. /\ \A a \in T : a \in Nat
      /\ Hdr \in Nat \ {0}
  BY HeapAssumption DEF Addr
<1>2. Null \notin T /\ b \notin S
  BY <1>1 DEF Null
<1>3. h2 \in T /\ pv2[h2] = Null /\ \A a \in T : h2 <= a
  <2>1. CASE l = Null
    BY <2>1, <1>1, <1>2 DEF IsList
  <2>2. CASE l # Null
    BY <2>2, <1>1, <1>2 DEF IsList
  <2> QED  BY <2>1, <2>2
<1>4. ASSUME NEW a \in T
      PROVE  \/ nx2[a] = Null /\ \A d \in T : d <= a
             \/ /\ nx2[a] \in T /\ a < nx2[a] /\ pv2[nx2[a]] = a
                /\ \A d \in T : d <= a \/ nx2[a] <= d
  <2>1. CASE a = b /\ l = Null
    BY <2>1, <1>1, <1>2 DEF IsList
  <2>2. CASE a = b /\ l # Null
    BY <2>2, <1>1, <1>2 DEF IsList
  <2>3. CASE a # b /\ a = l
    BY <2>3, <1>1, <1>2 DEF IsList
  <2>4. CASE a # b /\ a # l
    BY <2>4, <1>1, <1>2 DEF IsList
  <2> QED  BY <2>1, <2>2, <2>3, <2>4
<1>5. \A a, d \in T : a < d => a + Hdr <= d
  BY <1>1, <1>2 DEF IsList
<1> QED  BY <1>3, <1>4, <1>5 DEF IsList


--------------------------------------------------------------------------------
(* Blocks tile the heap                                                    *)

IsTiling(B, sz) ==
  /\ 0 \in B
  /\ \A a \in B : a + Hdr + sz[a] = HeapSize \/ a + Hdr + sz[a] \in B
  /\ \A a, b \in B : a < b => a + Hdr + sz[a] <= b

\* A block b with n bytes leaves a tail c that can become a block.
IsTail(sz, b, n, c) == n + Hdr < sz[b] /\ c = b + Hdr + n

LEMMA TileSpace ==
  ASSUME NEW B \in SUBSET Addr, NEW sz \in [Addr -> Nat], IsTiling(B, sz),
         NEW b \in B, NEW n \in Nat, NEW c, IsTail(sz, b, n, c)
  PROVE  /\ c \in Addr \ B /\ b < c /\ c + Hdr < b + Hdr + sz[b]
         /\ \A a \in B : a <= b \/ b + Hdr + sz[b] <= a
         /\ \A a \in B \ {b} : (a < b => a + Hdr <= c) /\ (b < a => c + Hdr <= a)
         /\ sz[b] - n - Hdr \in 0 .. HeapSize
<1> USE DEF IsTail
<1>1. /\ \A a \in Addr : a \in Nat /\ a + Hdr <= HeapSize
      /\ HeapSize \in Nat /\ Hdr \in Nat \ {0} /\ sz[b] \in Nat /\ b \in Nat
  BY HeapAssumption DEF Addr
<1>2. b + Hdr + sz[b] <= HeapSize
  BY <1>1 DEF IsTiling
<1>3. c \in Addr /\ b < c /\ c + Hdr < b + Hdr + sz[b]
  BY <1>1, <1>2 DEF Addr
<1>4. \A a \in B : a <= b \/ b + Hdr + sz[b] <= a
  BY <1>1 DEF IsTiling
<1>5. c \notin B
  BY <1>1, <1>3, <1>4
<1>6. \A a \in B \ {b} : (a < b => a + Hdr <= c) /\ (b < a => c + Hdr <= a)
  BY <1>1, <1>3, <1>4 DEF IsTiling
<1>7. sz[b] - n - Hdr \in 0 .. HeapSize
  BY <1>1, <1>2
<1> QED  BY <1>3, <1>4, <1>5, <1>6, <1>7

\* The tail of a block becomes a block.
LEMMA TileSplit ==
  ASSUME NEW B \in SUBSET Addr, NEW sz \in [Addr -> Nat], IsTiling(B, sz),
         NEW b \in B, NEW n \in Nat, NEW c, IsTail(sz, b, n, c),
         NEW sz2, sz2[b] = n, sz2[c] = sz[b] - n - Hdr, \A a \in B \ {b} : sz2[a] = sz[a]
  PROVE  IsTiling(B \cup {c}, sz2)
<1>1. c = b + Hdr + n
  BY DEF IsTail
<1>2. /\ \A a \in Addr : a \in Nat /\ a + Hdr <= HeapSize
      /\ HeapSize \in Nat /\ Hdr \in Nat \ {0} /\ sz[b] \in Nat /\ b \in Nat
  BY HeapAssumption DEF Addr
<1>3. /\ c \in Addr /\ b < c /\ c + Hdr < b + Hdr + sz[b]
      /\ \A a \in B : a <= b \/ b + Hdr + sz[b] <= a
  BY TileSpace
<1>4. b + Hdr + sz2[b] = c /\ c + Hdr + sz2[c] = b + Hdr + sz[b]
  BY <1>1, <1>2, <1>3
<1>5. \A a \in B \cup {c} : a + Hdr + sz2[a] = HeapSize \/ a + Hdr + sz2[a] \in B \cup {c}
  BY <1>4 DEF IsTiling
<1>6. ASSUME NEW a \in B \cup {c}, NEW d \in B \cup {c}, a < d
       PROVE  a + Hdr + sz2[a] <= d
  <2>1. CASE a = b
    BY <2>1, <1>2, <1>3, <1>4, <1>6
  <2>2. CASE a = c
    BY <2>2, <1>2, <1>3, <1>4, <1>6
  <2>3. CASE a \in B \ {b}
    <3>1. sz2[a] = sz[a] /\ a \in Nat /\ sz[a] \in Nat
      BY <2>3, <1>2
    <3>2. CASE d \in B
      BY <2>3, <3>1, <3>2, <1>6 DEF IsTiling
    <3>3. CASE d = c
      <4>1. a < b
        BY <2>3, <3>1, <3>3, <1>2, <1>3, <1>6
      <4>2. a + Hdr + sz[a] <= b
        BY <4>1, <2>3 DEF IsTiling
      <4> QED  BY <4>2, <3>1, <3>3, <1>2, <1>3
    <3> QED  BY <3>2, <3>3
  <2> QED  BY <2>1, <2>2, <2>3
<1> QED  BY <1>5, <1>6 DEF IsTiling

\* Two neighbours become one block.
LEMMA TileMerge ==
  ASSUME NEW B \in SUBSET Addr, NEW sz \in [Addr -> Nat], IsTiling(B, sz),
         NEW l \in B, NEW b \in B, l + Hdr + sz[l] = b,
         NEW sz2, sz2[l] = sz[l] + sz[b] + Hdr, \A a \in B \ {l, b} : sz2[a] = sz[a]
  PROVE  sz2[l] \in 0 .. HeapSize /\ IsTiling(B \ {b}, sz2)
<1>1. /\ \A a \in Addr : a \in Nat /\ a + Hdr <= HeapSize /\ sz[a] \in Nat
      /\ HeapSize \in Nat /\ Hdr \in Nat \ {0} /\ b \in Nat /\ l \in Nat
  BY HeapAssumption DEF Addr
<1>2. b + Hdr + sz[b] <= HeapSize /\ l < b
  BY <1>1 DEF IsTiling
<1>3. l + Hdr + sz2[l] = b + Hdr + sz[b] /\ sz2[l] \in 0 .. HeapSize
  BY <1>1, <1>2
<1>4. \A a \in B \ {b} : a # l => a + Hdr + sz2[a] = a + Hdr + sz[a] /\ a + Hdr + sz[a] # b
  <2> TAKE a \in B \ {b}
  <2> HAVE a # l
  <2>1. a \in Nat /\ sz[a] \in Nat /\ sz2[a] = sz[a]
    BY <1>1
  <2>2. a < l => a + Hdr + sz[a] <= l
    BY DEF IsTiling
  <2>3. l < a => b <= a
    BY DEF IsTiling
  <2> QED  BY <2>1, <2>2, <2>3, <1>1, <1>2
<1>5. \A a \in B \ {b} : a + Hdr + sz2[a] = HeapSize \/ a + Hdr + sz2[a] \in B \ {b}
  <2>1. b + Hdr + sz[b] # b
    BY <1>1
  <2> QED  BY <2>1, <1>3, <1>4 DEF IsTiling
<1>6. \A a, d \in B \ {b} : a < d => a + Hdr + sz2[a] <= d
  <2> TAKE a, d \in B \ {b}
  <2> HAVE a < d
  <2>1. CASE a = l
    <3>1. b < d /\ d \in Nat
      BY <2>1, <1>1, <1>2 DEF IsTiling
    <3> QED  BY <2>1, <3>1, <1>3 DEF IsTiling
  <2>2. CASE a # l
    BY <2>2, <1>4 DEF IsTiling
  <2> QED  BY <2>1, <2>2
<1> QED  BY <1>2, <1>3, <1>5, <1>6, <1>1 DEF IsTiling

--------------------------------------------------------------------------------
(* The inductive invariant                                                 *)

IInv ==
  /\ HeapTypeOK
  /\ IsList(head, nextFree, prevFree, FreeBlocks)
  /\ IsTiling(Blocks, size)
  /\ FreeBlocks \cap live = {}
  /\ Coalesced
  /\ LargeEnough
  /\ \A a \in live : asked[a] \in Requests

LEMMA FreeIs ==
  ASSUME head \in Pointer, nextFree \in [Addr -> Pointer], NEW S \in SUBSET Addr,
         IsList(head, nextFree, prevFree, S)
  PROVE  FreeBlocks = S
<1>1. Reached = Walk(head, nextFree)
  BY DEF Reached, Walk
<1> QED  BY <1>1, ListReached DEF FreeBlocks

LEMMA FreeWillBe ==
  ASSUME head' \in Pointer, nextFree' \in [Addr -> Pointer], NEW S \in SUBSET Addr,
         IsList(head', nextFree', prevFree', S)
  PROVE  FreeBlocks' = S
<1>1. Reached' = Walk(head', nextFree')
  BY DEF Reached, Walk
<1> QED  BY <1>1, ListReached DEF FreeBlocks

LEMMA HeapTypes ==
  ASSUME HeapTypeOK
  PROVE  /\ head \in Pointer /\ nextFree \in [Addr -> Pointer] /\ prevFree \in [Addr -> Pointer]
         /\ size \in [Addr -> Nat] /\ FreeBlocks \in SUBSET Addr /\ Blocks \in SUBSET Addr
         /\ \A a \in Addr : a \in Nat /\ a + Hdr <= HeapSize /\ size[a] \in Nat
         /\ Null \notin Addr /\ Hdr \in Nat \ {0} /\ HeapSize \in Nat
<1>1. head \in Pointer /\ nextFree \in [Addr -> Pointer] /\ prevFree \in [Addr -> Pointer]
  BY DEF HeapTypeOK, Pointer
<1>2. size \in [Addr -> Nat]
  BY HeapAssumption DEF HeapTypeOK
<1>3. \A k \in Nat : Reached[k] \in Pointer
  <2>1. Reached = Walk(head, nextFree)
    BY DEF Reached, Walk
  <2> QED  BY <1>1, <2>1, WalkDef
<1>4. FreeBlocks \in SUBSET Addr
  BY <1>3 DEF FreeBlocks, Links, Pointer
<1>5. /\ \A a \in Addr : a \in Nat /\ a + Hdr <= HeapSize /\ size[a] \in Nat
      /\ Null \notin Addr /\ Hdr \in Nat \ {0} /\ HeapSize \in Nat
  BY <1>2, HeapAssumption DEF Addr, Null
<1> QED  BY <1>1, <1>2, <1>4, <1>5 DEF Blocks, HeapTypeOK

\* What the walk along the list says when IInv holds.
LEMMA ReachedFacts ==
  ASSUME IInv
  PROVE  /\ Reached[0] = head
         /\ \A k \in Nat : /\ Reached[k] \in FreeBlocks \cup {Null}
                           /\ Reached[k] # Null => k \in Links /\ Reached[k + 1] = nextFree[Reached[k]]
<1>1. Reached = Walk(head, nextFree)
  BY DEF Reached, Walk
<1>2. HeapTypeOK /\ IsList(head, nextFree, prevFree, FreeBlocks)
  BY DEF IInv
<1> QED  BY <1>1, <1>2, HeapTypes, ListReached, WalkDef

LEMMA Earliest ==
  ASSUME NEW S \in SUBSET Nat, S # {}
  PROVE  First(S) \in S /\ \A j \in S : First(S) <= j
<1>1. \E k \in S : \A j \in S : k <= j
  BY Smallest
<1> QED  BY <1>1 DEF First

LEMMA FoundLemma ==
  ASSUME IInv, NEW n, NEW b, Found(n, b)
  PROVE  b \in FreeBlocks /\ size[b] >= n
<1>1. Fits(n) \in SUBSET Nat /\ Fits(n) # {}
  BY DEF Found, Fits, Links
<1>2. First(Fits(n)) \in Fits(n)
  BY <1>1, Earliest
<1>3. b = Reached[First(Fits(n))]
  BY DEF Found
<1> QED  BY <1>1, <1>2, <1>3, ReachedFacts DEF Fits

\* The neighbours between which free puts a block.
LEMMA NeighboursLemma ==
  ASSUME IInv, NEW b \in live, head # Null
  PROVE  /\ \/ LeftOf(b) = Null /\ RightOf(b) = head /\ \A a \in FreeBlocks : b < a
            \/ /\ LeftOf(b) \in FreeBlocks /\ RightOf(b) = nextFree[LeftOf(b)]
               /\ LeftOf(b) < b /\ (RightOf(b) = Null \/ b < RightOf(b))
         /\ b < Iterator(b) <=> LeftOf(b) = Null
         /\ b \in Addr \ FreeBlocks
         /\ RightOf(b) # Null => RightOf(b) \in FreeBlocks
<1> DEFINE K == {k \in Links : Reached[k] # Null /\ (Reached[k + 1] = Null \/ Reached[k + 1] >= b)}
           Z == {k \in Nat : Reached[k] = Null}
<1>1. /\ HeapTypeOK /\ b \in Addr /\ b \notin FreeBlocks
      /\ IsList(head, nextFree, prevFree, FreeBlocks)
  BY DEF IInv, HeapTypeOK
<1>2. /\ \A a \in FreeBlocks : a \in Nat /\ a \in Addr /\ a # Null
      /\ b \in Nat /\ b # Null /\ Links \subseteq Nat
  BY <1>1, HeapTypes DEF Links
<1>3. K # {}
  <2>1. Z # {}
    <3>1. HeapSize \div Hdr + 1 \in Nat /\ HeapSize \div Hdr + 1 \notin Links
      BY HeapAssumption DEF Links
    <3> QED  BY <3>1, ReachedFacts
  <2>2. PICK m \in Z : \A j \in Z : m <= j
    BY <2>1, Smallest
  <2>3. m \in Nat /\ m # 0 /\ Reached[m] = Null
    BY <2>2, ReachedFacts
  <2>4. m - 1 \in Nat /\ Reached[m - 1] # Null /\ m - 1 + 1 = m
    BY <2>2, <2>3
  <2>5. m - 1 \in K
    BY <2>3, <2>4, ReachedFacts
  <2> QED  BY <2>5
<1>4. PICK k \in K : k = First(K) /\ \A j \in K : k <= j
  <2>1. K \in SUBSET Nat
    BY <1>2
  <2> HIDE DEF K
  <2> QED  BY <1>3, <2>1, Earliest
<1> DEFINE it == Reached[k]
<1>5. Iterator(b) = it
  BY <1>4 DEF Iterator
<1>6. /\ k \in Nat /\ it \in FreeBlocks /\ Reached[k + 1] = nextFree[it]
      /\ nextFree[it] = Null \/ nextFree[it] >= b
  BY <1>2, ReachedFacts
<1>7. it # b /\ nextFree[it] \in FreeBlocks \cup {Null} /\ nextFree[it] # b
  <2> HIDE DEF it
  <2>1. it \in FreeBlocks
    BY <1>6
  <2>2. nextFree[it] = Null \/ nextFree[it] \in FreeBlocks
    BY <1>1, <2>1 DEF IsList
  <2> QED  BY <1>1, <1>2, <2>1, <2>2
<1>8. b < it => it = head
  <2> SUFFICES ASSUME k # 0 PROVE ~(b < it)
    BY ReachedFacts
  <2>1. k - 1 \in Nat /\ k - 1 + 1 = k /\ k - 1 < k
    BY <1>6
  <2>2. Reached[k - 1] # Null
    <3> SUFFICES ASSUME Reached[k - 1] = Null PROVE FALSE
      OBVIOUS
    <3>1. Reached[k] = Null
      <4>1. Reached = Walk(head, nextFree)
        BY DEF Reached, Walk
      <4> QED  BY <1>1, <2>1, <4>1, HeapTypes, WalkDef
    <3> QED  BY <3>1, <1>2, <1>6
  <2>3. k - 1 \in Links /\ k - 1 \notin K
    BY <1>4, <1>6, <2>1, <2>2, ReachedFacts
  <2>4. ~(it >= b)
    BY <2>1, <2>2, <2>3, <1>2, <1>6
  <2> QED  BY <2>4, <1>2, <1>6
<1> HIDE DEF it
<1>9. CASE b < it
  <2>1. LeftOf(b) = Null /\ RightOf(b) = head
    BY <1>5, <1>8, <1>9 DEF LeftOf, RightOf
  <2>2. \A a \in FreeBlocks : b < a
    BY <1>1, <1>2, <1>6, <1>8, <1>9 DEF IsList
  <2> QED  BY <1>1, <1>5, <1>6, <1>8, <1>9, <2>1, <2>2
<1>10. CASE ~(b < it)
  <2>1. LeftOf(b) = it /\ RightOf(b) = nextFree[it]
    BY <1>5, <1>10 DEF LeftOf, RightOf
  <2>2. it < b /\ (nextFree[it] = Null \/ b < nextFree[it])
    BY <1>2, <1>6, <1>7, <1>10
  <2> QED  BY <1>1, <1>2, <1>5, <1>6, <1>7, <1>10, <2>1, <2>2
<1> QED  BY <1>9, <1>10

\* The links of a free block to and from its neighbours.
LEMMA LinksLemma ==
  ASSUME IInv, NEW b \in FreeBlocks
  PROVE  /\ \/ b = head /\ prevFree[b] = Null
            \/ b # head /\ prevFree[b] \in FreeBlocks /\ nextFree[prevFree[b]] = b
         /\ \/ nextFree[b] = Null
            \/ nextFree[b] \in FreeBlocks /\ prevFree[nextFree[b]] = b /\ b < nextFree[b]
         /\ \A a \in FreeBlocks : /\ nextFree[a] = b <=> a = prevFree[b]
                                  /\ prevFree[a] = b <=> a = nextFree[b]
<1>1. /\ HeapTypeOK /\ IsList(head, nextFree, prevFree, FreeBlocks)
      /\ \A a \in FreeBlocks : a \in Nat /\ a \in Addr /\ a # Null
  BY HeapTypes DEF IInv
<1>2. \E k \in Nat : b = Reached[k]
  BY DEF FreeBlocks, Links
<1>3. \A c \in FreeBlocks : c # head => \E a \in FreeBlocks : nextFree[a] = c
  <2> TAKE c \in FreeBlocks
  <2> HAVE c # head
  <2>1. PICK k \in Nat : c = Reached[k]
    BY DEF FreeBlocks, Links
  <2>2. k # 0 /\ k - 1 \in Nat /\ k - 1 + 1 = k
    BY <2>1, ReachedFacts
  <2>3. Reached[k - 1] # Null
    <3>1. Reached = Walk(head, nextFree)
      BY DEF Reached, Walk
    <3>2. Reached[k - 1] = Null => Reached[k] = Null
      BY <1>1, <2>2, <3>1, HeapTypes, WalkDef
    <3> QED  BY <1>1, <2>1, <3>2
  <2>4. Reached[k - 1] \in FreeBlocks /\ nextFree[Reached[k - 1]] = c
    BY <2>1, <2>2, <2>3, ReachedFacts
  <2> QED  BY <2>4
<1>4. \A a \in FreeBlocks : \/ nextFree[a] = Null
                            \/ nextFree[a] \in FreeBlocks /\ prevFree[nextFree[a]] = a /\ a < nextFree[a]
  BY <1>1 DEF IsList
<1>5. head \in FreeBlocks /\ prevFree[head] = Null
  BY <1>1 DEF IsList
<1>6. \A c \in FreeBlocks : \/ c = head /\ prevFree[c] = Null
                            \/ c # head /\ prevFree[c] \in FreeBlocks /\ nextFree[prevFree[c]] = c
  BY <1>1, <1>3, <1>4, <1>5
<1>7. ASSUME NEW a \in FreeBlocks PROVE nextFree[a] = b <=> a = prevFree[b]
  BY <1>1, <1>4, <1>6
<1>8. ASSUME NEW a \in FreeBlocks PROVE prevFree[a] = b <=> a = nextFree[b]
  BY <1>1, <1>4, <1>6
<1> QED  BY <1>4, <1>6, <1>7, <1>8

LEMMA StoreLemma ==
  ASSUME NEW f \in [Addr -> Pointer], NEW a \in Pointer, NEW v \in Pointer
  PROVE  /\ Store(f, a, v) \in [Addr -> Pointer]
         /\ Store(f, a, v) = [x \in Addr |-> IF x = a THEN v ELSE f[x]]
<1>1. Null \notin Addr
  BY HeapAssumption DEF Addr, Null
<1> QED  BY <1>1 DEF Store, Pointer

--------------------------------------------------------------------------------
LEMMA HeapInitLemma == HeapInit => IInv
<1> SUFFICES ASSUME HeapInit PROVE IInv
  OBVIOUS
<1> USE HeapAssumption
<1>1. 0 \in Addr /\ Null \notin Addr
  BY DEF Addr, Null
<1>2. HeapTypeOK
  <2>1. HeapSize - Hdr \in 0 .. HeapSize /\ 0 \in 0 .. HeapSize
    OBVIOUS
  <2>2. size \in [Addr -> 0 .. HeapSize]
    BY <2>1 DEF HeapInit
  <2> QED  BY <1>1, <2>2 DEF HeapInit, HeapTypeOK
<1>3. IsList(head, nextFree, prevFree, {0})
  BY <1>1 DEF HeapInit, IsList
<1>4. FreeBlocks = {0} /\ Blocks = {0}
  <2>1. FreeBlocks = {0}
    BY <1>1, <1>2, <1>3, HeapTypes, FreeIs
  <2> QED  BY <2>1 DEF Blocks, HeapInit
<1>5. IsTiling({0}, size)
  BY <1>1 DEF IsTiling, HeapInit
<1>6. Coalesced
  BY <1>1, <1>4 DEF Coalesced, Adjacent, HeapInit
<1>7. live = {}
  BY DEF HeapInit
<1> QED  BY <1>2, <1>3, <1>4, <1>5, <1>6, <1>7 DEF IInv, LargeEnough

LEMMA AllocFullLemma ==
  ASSUME IInv, NEW n \in Requests, NEW b \in Addr, AllocFull(n, b)
  PROVE  IInv'
<1>1. /\ b \in FreeBlocks /\ size[b] >= n
      /\ live' = live \cup {b} /\ asked' = [asked EXCEPT ![b] = n] /\ size' = size /\ crashed' = crashed
      /\ head' = IF b = head THEN nextFree[b] ELSE head
      /\ nextFree' = Store([nextFree EXCEPT ![b] = Null], prevFree[b], nextFree[b])
      /\ prevFree' = Store([prevFree EXCEPT ![b] = Null], nextFree[b], prevFree[b])
  BY FoundLemma DEF AllocFull, GiveOut
<1>2. /\ HeapTypeOK /\ IsList(head, nextFree, prevFree, FreeBlocks) /\ IsTiling(Blocks, size)
      /\ FreeBlocks \cap live = {} /\ Coalesced /\ LargeEnough
      /\ \A a \in live : asked[a] \in Requests
  BY DEF IInv
<1> DEFINE p == prevFree[b]
           q == nextFree[b]
           nx == [nextFree EXCEPT ![b] = Null]
           pv == [prevFree EXCEPT ![b] = Null]
<1>3. p \in Pointer /\ q \in Pointer /\ Null \in Pointer /\ p # b /\ q # b
  BY <1>2, HeapTypes, LinksLemma, <1>1 DEF Pointer
<1>4. nx \in [Addr -> Pointer] /\ pv \in [Addr -> Pointer]
  BY <1>2, <1>3, HeapTypes
<1>5. /\ nextFree' \in [Addr -> Pointer] /\ prevFree' \in [Addr -> Pointer] /\ head' \in Pointer
      /\ \A x \in Addr : nextFree'[x] = IF x = p THEN q ELSE IF x = b THEN Null ELSE nextFree[x]
      /\ \A x \in Addr : prevFree'[x] = IF x = q THEN p ELSE IF x = b THEN Null ELSE prevFree[x]
  <2>1. \A x \in Addr : /\ nx[x] = IF x = b THEN Null ELSE nextFree[x]
                        /\ pv[x] = IF x = b THEN Null ELSE prevFree[x]
    BY <1>2, HeapTypes
  <2>2. nextFree' = Store(nx, p, q) /\ prevFree' = Store(pv, q, p)
    BY <1>1
  <2>3. head' \in Pointer
    BY <1>1, <1>2, <1>3, HeapTypes
  <2> HIDE DEF nx, pv, p, q
  <2>4. /\ Store(nx, p, q) \in [Addr -> Pointer]
        /\ Store(nx, p, q) = [x \in Addr |-> IF x = p THEN q ELSE nx[x]]
    BY <1>3, <1>4, StoreLemma
  <2>5. /\ Store(pv, q, p) \in [Addr -> Pointer]
        /\ Store(pv, q, p) = [x \in Addr |-> IF x = q THEN p ELSE pv[x]]
    BY <1>3, <1>4, StoreLemma
  <2> QED  BY <2>1, <2>2, <2>3, <2>4, <2>5
<1>6. HeapTypeOK'
  BY <1>1, <1>2, <1>5 DEF HeapTypeOK, Pointer
<1>7. IsList(head', nextFree', prevFree', FreeBlocks \ {b})
  <2>1. Unlinked(FreeBlocks, head, nextFree, prevFree, b, head', nextFree', prevFree')
    BY <1>1, <1>2, <1>5, HeapTypes, LinksLemma DEF Unlinked
  <2> QED  BY <1>1, <1>2, <2>1, HeapTypes, ListRemove
<1>8. FreeBlocks' = FreeBlocks \ {b}
  BY <1>2, <1>5, <1>7, HeapTypes, FreeWillBe
<1>9. Blocks' = Blocks
  BY <1>1, <1>8 DEF Blocks
<1>10. Coalesced' /\ (FreeBlocks \cap live = {})'
  BY <1>1, <1>2, <1>8 DEF Coalesced, Adjacent
<1>11. LargeEnough'
  BY <1>1, <1>2 DEF LargeEnough, HeapTypeOK
<1>12. (\A a \in live : asked[a] \in Requests)'
  BY <1>1, <1>2 DEF HeapTypeOK
<1> QED  BY <1>1, <1>2, <1>6, <1>7, <1>8, <1>9, <1>10, <1>11, <1>12 DEF IInv

LEMMA AllocPartialLemma ==
  ASSUME IInv, NEW n \in Requests, NEW b \in Addr, AllocPartial(n, b)
  PROVE  IInv'
<1> DEFINE c == b + Hdr + n
           p == prevFree[b]
           q == nextFree[b]
           nx == [nextFree EXCEPT ![b] = Null, ![c] = q]
           pv == [prevFree EXCEPT ![b] = Null, ![c] = p]
<1>1. /\ b \in FreeBlocks /\ size[b] > n + Hdr
      /\ live' = live \cup {b} /\ asked' = [asked EXCEPT ![b] = n] /\ crashed' = crashed
      /\ size' = [size EXCEPT ![b] = n, ![c] = size[b] - n - Hdr]
      /\ head' = IF b = head THEN c ELSE head
      /\ nextFree' = Store(nx, p, c) /\ prevFree' = Store(pv, q, c)
  BY FoundLemma DEF AllocPartial, GiveOut
<1>2. /\ HeapTypeOK /\ IsList(head, nextFree, prevFree, FreeBlocks) /\ IsTiling(Blocks, size)
      /\ FreeBlocks \cap live = {} /\ Coalesced /\ LargeEnough
      /\ \A a \in live : asked[a] \in Requests
  BY DEF IInv
<1>3. /\ n \in Nat /\ b \in Nat /\ size[b] \in Nat /\ Hdr \in Nat \ {0} /\ HeapSize \in Nat
      /\ b \in Blocks /\ b # c /\ c # Null
  BY <1>1, <1>2, HeapTypes, HeapAssumption DEF Blocks, Null
<1>4. /\ c \in Addr \ Blocks
      /\ \A a \in Blocks \ {b} : (a < b => a + Hdr <= c) /\ (b < a => c + Hdr <= a)
      /\ size[b] - n - Hdr \in 0 .. HeapSize
  <2>1. n + Hdr < size[b] /\ size \in [Addr -> Nat] /\ Blocks \in SUBSET Addr
    BY <1>1, <1>2, <1>3, HeapTypes
  <2> HIDE DEF c
  <2>2. IsTail(size, b, n, c)
    BY <2>1 DEF c, IsTail
  <2> QED  BY <1>2, <1>3, <2>1, <2>2, TileSpace
<1>5. p \in Pointer /\ q \in Pointer /\ p # b /\ q # b /\ p # c /\ q # c /\ c \in Pointer
  <2>1. p \in FreeBlocks \cup {Null} /\ q \in FreeBlocks \cup {Null} /\ p # b /\ q # b
    BY <1>1, <1>2, HeapTypes, LinksLemma
  <2> HIDE DEF c, p, q
  <2> QED  BY <1>2, <1>3, <1>4, <2>1, HeapTypes DEF Pointer, Blocks
<1> HIDE DEF c
<1>6. /\ size' \in [Addr -> 0 .. HeapSize] /\ size'[b] = n /\ size'[c] = size[b] - n - Hdr
      /\ \A x \in Addr \ {b, c} : size'[x] = size[x]
  <2>1. n \in 0 .. HeapSize
    BY <1>1, <1>3, <1>2 DEF HeapTypeOK
  <2> QED  BY <1>1, <1>2, <1>3, <1>4, <2>1 DEF HeapTypeOK
<1>7. /\ nextFree' \in [Addr -> Pointer] /\ prevFree' \in [Addr -> Pointer] /\ head' \in Pointer
      /\ \A x \in Addr : /\ nextFree'[x] = IF x = p THEN c ELSE IF x = c THEN q
                                           ELSE IF x = b THEN Null ELSE nextFree[x]
                         /\ prevFree'[x] = IF x = q THEN c ELSE IF x = c THEN p
                                           ELSE IF x = b THEN Null ELSE prevFree[x]
  <2>1. /\ nx \in [Addr -> Pointer] /\ pv \in [Addr -> Pointer]
        /\ \A x \in Addr : /\ nx[x] = IF x = c THEN q ELSE IF x = b THEN Null ELSE nextFree[x]
                           /\ pv[x] = IF x = c THEN p ELSE IF x = b THEN Null ELSE prevFree[x]
    BY <1>2, <1>3, <1>4, <1>5, HeapTypes DEF Pointer
  <2>2. nextFree' = Store(nx, p, c) /\ prevFree' = Store(pv, q, c)
    BY <1>1
  <2>3. head' \in Pointer
    BY <1>1, <1>2, <1>5, HeapTypes
  <2> HIDE DEF nx, pv, p, q
  <2>4. /\ Store(nx, p, c) \in [Addr -> Pointer]
        /\ Store(nx, p, c) = [x \in Addr |-> IF x = p THEN c ELSE nx[x]]
    BY <1>5, <2>1, StoreLemma
  <2>5. /\ Store(pv, q, c) \in [Addr -> Pointer]
        /\ Store(pv, q, c) = [x \in Addr |-> IF x = q THEN c ELSE pv[x]]
    BY <1>5, <2>1, StoreLemma
  <2> QED  BY <2>1, <2>2, <2>3, <2>4, <2>5
<1>8. HeapTypeOK'
  BY <1>1, <1>2, <1>6, <1>7 DEF HeapTypeOK, Pointer
<1>9. IsList(head', nextFree', prevFree', (FreeBlocks \ {b}) \cup {c})
  <2>1. Relinked(FreeBlocks, head, nextFree, prevFree, b, c, head', nextFree', prevFree')
    <3>1. head' = IF b = head THEN c ELSE head
      BY <1>1
    <3>2. nextFree'[c] = q /\ prevFree'[c] = p
      BY <1>4, <1>5, <1>7
    <3>3. ASSUME NEW a \in FreeBlocks \ {b}
          PROVE  /\ nextFree'[a] = IF nextFree[a] = b THEN c ELSE nextFree[a]
                 /\ prevFree'[a] = IF a = q THEN c ELSE prevFree[a]
                 /\ (a < b => a + Hdr <= c) /\ (b < a => c + Hdr <= a)
      <4>1. a \in Addr /\ a \in Blocks \ {b} /\ a # c
        BY <1>2, <1>4, HeapTypes DEF Blocks
      <4>2. nextFree[a] = b <=> a = p
        BY <1>1, LinksLemma
      <4> HIDE DEF p, q
      <4> QED  BY <1>4, <1>7, <4>1, <4>2
    <3> QED  BY <3>1, <3>2, <3>3 DEF Relinked
  <2> QED  BY <1>1, <1>2, <1>4, <2>1, HeapTypes, ListReplace
<1>10. FreeBlocks' = (FreeBlocks \ {b}) \cup {c}
  <2>1. (FreeBlocks \ {b}) \cup {c} \in SUBSET Addr
    BY <1>2, <1>4, HeapTypes
  <2> QED  BY <1>7, <1>9, <2>1, FreeWillBe
<1>11. Blocks' = Blocks \cup {c}
  BY <1>1, <1>10 DEF Blocks
<1>12. IsTiling(Blocks', size')
  <2>1. n + Hdr < size[b] /\ size \in [Addr -> Nat] /\ Blocks \in SUBSET Addr
    BY <1>1, <1>2, <1>3, HeapTypes
  <2>2. IsTail(size, b, n, c)
    BY <2>1 DEF c, IsTail
  <2>3. \A a \in Blocks \ {b} : size'[a] = size[a]
    BY <1>4, <1>6, <2>1
  <2>4. IsTiling(Blocks \cup {c}, size')
    BY <1>2, <1>3, <1>6, <2>1, <2>2, <2>3, TileSplit
  <2> QED  BY <1>11, <2>4
<1>13. (FreeBlocks \cap live = {})'
  BY <1>1, <1>2, <1>4, <1>10 DEF Blocks
<1>14. Coalesced'
  <2> SUFFICES ASSUME NEW a \in FreeBlocks', NEW d \in FreeBlocks', a + Hdr + size'[a] = d
               PROVE  FALSE
    BY DEF Coalesced, Adjacent
  <2>1. /\ a \in Addr /\ d \in Addr /\ d # Null
        /\ \A x \in Addr : x \in Nat /\ x + Hdr <= HeapSize
    BY <1>2, <1>4, <1>10, HeapTypes
  <2>2. CASE a = c
    <3>1. d = b + Hdr + size[b]
      BY <1>3, <1>6, <2>2 DEF c
    <3>2. d \in FreeBlocks
      BY <1>3, <1>4, <1>6, <1>10, <2>1, <2>2
    <3> QED  BY <1>1, <1>2, <2>1, <3>1, <3>2 DEF Coalesced, Adjacent
  <2>3. CASE a # c
    <3>1. a \in FreeBlocks \ {b} /\ size'[a] = size[a] /\ a \in Blocks
      BY <1>6, <1>10, <2>1, <2>3 DEF Blocks
    <3>2. d = HeapSize \/ d \in Blocks
      BY <1>2, <3>1 DEF IsTiling
    <3>3. d \in FreeBlocks
      BY <1>3, <1>4, <1>10, <2>1, <3>2
    <3> QED  BY <1>2, <2>1, <3>1, <3>3 DEF Coalesced, Adjacent
  <2> QED  BY <2>2, <2>3
<1>15. LargeEnough'
  <2> SUFFICES ASSUME NEW a \in live' PROVE size'[a] >= asked'[a]
    BY DEF LargeEnough
  <2>1. CASE a = b
    BY <1>1, <1>2, <1>3, <1>6, <2>1 DEF HeapTypeOK
  <2>2. CASE a # b
    BY <1>1, <1>2, <1>4, <1>6, <2>2 DEF HeapTypeOK, LargeEnough, Blocks
  <2> QED  BY <2>1, <2>2
<1>16. (\A a \in live : asked[a] \in Requests)'
  BY <1>1, <1>2 DEF HeapTypeOK
<1> QED  BY <1>8, <1>9, <1>10, <1>12, <1>13, <1>14, <1>15, <1>16 DEF IInv

--------------------------------------------------------------------------------
\* What free finds around a live block: the neighbours on the list are the only free blocks
\* that can be adjacent to it.
LEMMA FreeFacts ==
  ASSUME IInv, NEW b \in live, head # Null
  PROVE  /\ b \in Addr /\ b \in Nat /\ b # Null /\ b \in Blocks /\ b \notin FreeBlocks
         /\ LeftOf(b) \in Pointer /\ RightOf(b) \in Pointer
         /\ Between(FreeBlocks, head, nextFree, LeftOf(b), b, RightOf(b))
         /\ b < Iterator(b) <=> LeftOf(b) = Null
         /\ LeftOf(b) # Null => /\ LeftOf(b) \in FreeBlocks /\ LeftOf(b) \in Blocks
                                /\ nextFree[LeftOf(b)] = RightOf(b)
         /\ RightOf(b) # Null => RightOf(b) \in FreeBlocks /\ RightOf(b) \in Blocks
         /\ \A a \in FreeBlocks : ((a < b /\ a + Hdr <= b) \/ (b < a /\ b + Hdr <= a))
         /\ \A a \in FreeBlocks : /\ b + Hdr + size[b] = a => a = RightOf(b)
                                  /\ a + Hdr + size[a] = b => a = LeftOf(b)
<1> DEFINE l == LeftOf(b)
           r == RightOf(b)
<1>1. /\ HeapTypeOK /\ IsList(head, nextFree, prevFree, FreeBlocks) /\ IsTiling(Blocks, size)
      /\ b \in Addr /\ b \in Nat /\ b # Null /\ b \in Blocks
      /\ \A a \in Addr : a \in Nat /\ size[a] \in Nat
      /\ FreeBlocks \subseteq Addr /\ FreeBlocks \subseteq Blocks /\ Null \notin Addr
      /\ Hdr \in Nat \ {0}
  BY HeapTypes DEF IInv, HeapTypeOK, Blocks
<1>2. /\ \/ l = Null /\ r = head /\ \A a \in FreeBlocks : b < a
         \/ l \in FreeBlocks /\ r = nextFree[l] /\ l < b /\ (r = Null \/ b < r)
      /\ b < Iterator(b) <=> l = Null
      /\ b \notin FreeBlocks
      /\ r # Null => r \in FreeBlocks
  BY NeighboursLemma
<1> HIDE DEF l, r
<1>3. head \in FreeBlocks /\ (\A a \in FreeBlocks : head <= a) /\ (\A a \in FreeBlocks : a \in Nat /\ a # Null)
  BY <1>1 DEF IsList
<1>4. \A a \in FreeBlocks : \/ nextFree[a] = Null /\ \A d \in FreeBlocks : d <= a
                            \/ nextFree[a] \in FreeBlocks /\ \A d \in FreeBlocks : d <= a \/ nextFree[a] <= d
  BY <1>1 DEF IsList
<1>5. ASSUME l \in FreeBlocks, r = nextFree[l], NEW a \in FreeBlocks
       PROVE  a <= l \/ (r \in FreeBlocks /\ r <= a)
  <2>1. \/ r = Null /\ \A d \in FreeBlocks : d <= l
        \/ r \in FreeBlocks /\ \A d \in FreeBlocks : d <= l \/ r <= d
    BY <1>4, <1>5
  <2> QED  BY <2>1
<1>6. b \in Nat /\ (l \in FreeBlocks => l # Null)
  BY <1>1
<1>7. Between(FreeBlocks, head, nextFree, l, b, r)
  BY <1>2 DEF Between
<1>8. ASSUME NEW a \in FreeBlocks
      PROVE  ((a < b /\ a + Hdr <= b) \/ (b < a /\ b + Hdr <= a))
  <2>1. a \in Blocks /\ a \in Nat /\ size[a] \in Nat /\ size[b] \in Nat /\ a # b
    BY <1>1, <1>2
  <2>2. CASE a < b
    <3>1. a + Hdr + size[a] <= b
      BY <1>1, <2>1, <2>2 DEF IsTiling
    <3> QED  BY <1>1, <2>1, <2>2, <3>1
  <2>3. CASE b < a
    <3>1. b + Hdr + size[b] <= a
      BY <1>1, <2>1, <2>3 DEF IsTiling
    <3> QED  BY <1>1, <2>1, <2>3, <3>1
  <2> QED  BY <1>1, <2>1, <2>2, <2>3
<1>9. ASSUME NEW a \in FreeBlocks, b + Hdr + size[b] = a PROVE a = r
  <2>1. a \in Nat /\ size[b] \in Nat /\ b < a
    BY <1>1, <1>9
  <2>2. CASE l = Null
    <3>1. r = head /\ r \in FreeBlocks /\ r <= a /\ b < r
      BY <1>1, <1>2, <1>3, <2>2
    <3>2. r \in Blocks /\ b + Hdr + size[b] <= r
      BY <1>1, <3>1 DEF IsTiling
    <3> QED  BY <1>1, <1>9, <3>1, <3>2
  <2>3. CASE l # Null
    <3>1. l \in FreeBlocks /\ r = nextFree[l] /\ l < b /\ (r = Null \/ b < r)
      BY <1>2, <2>3
    <3>2. r \in FreeBlocks /\ r <= a
      <4>1. a <= l \/ (r \in FreeBlocks /\ r <= a)
        BY <1>5, <3>1
      <4>2. l \in Nat /\ b \in Nat /\ a \in Nat /\ l < b /\ b < a
        BY <1>3, <1>6, <2>1, <3>1
      <4> QED  BY <4>1, <4>2
    <3>3. r \in FreeBlocks /\ r <= a /\ b < r
      BY <1>1, <1>2, <2>1, <3>1, <3>2
    <3>4. r \in Blocks /\ b + Hdr + size[b] <= r
      BY <1>1, <3>3 DEF IsTiling
    <3> QED  BY <1>1, <1>9, <3>3, <3>4
  <2> QED  BY <2>2, <2>3
<1>10. ASSUME NEW a \in FreeBlocks, a + Hdr + size[a] = b PROVE a = l
  <2>1. a \in Nat /\ size[a] \in Nat /\ a < b
    BY <1>1, <1>10
  <2>2. l # Null
    BY <1>2, <1>3, <1>6, <2>1
  <2>3. l \in FreeBlocks /\ r = nextFree[l] /\ l < b /\ (r = Null \/ b < r)
    BY <1>2, <2>2
  <2>4. a <= l
    <3>1. a <= l \/ (r \in FreeBlocks /\ r <= a)
      BY <1>5, <2>3
    <3>2. l \in Nat /\ b \in Nat /\ a \in Nat /\ a < b
      BY <1>3, <1>6, <2>1, <2>3
    <3>3. r \in FreeBlocks => r \in Nat /\ b < r
      BY <1>3, <2>3
    <3> QED  BY <3>1, <3>2, <3>3
  <2>5. ~(a < l)
    <3> SUFFICES ASSUME a < l PROVE FALSE
      OBVIOUS
    <3>1. a + Hdr + size[a] <= l
      BY <1>1, <2>3 DEF IsTiling
    <3> QED  BY <1>1, <1>10, <2>3, <3>1
  <2> QED  BY <1>1, <2>1, <2>3, <2>4, <2>5
<1>11. l \in Pointer /\ r \in Pointer
  BY <1>1, <1>2 DEF Pointer
<1> QED  BY <1>1, <1>2, <1>7, <1>8, <1>9, <1>10, <1>11 DEF l, r

LEMMA FreeAloneLemma ==
  ASSUME IInv, NEW b \in Addr, FreeAlone(b)
  PROVE  IInv'
<1> DEFINE l == LeftOf(b)
           r == RightOf(b)
           nx == [nextFree EXCEPT ![b] = r]
           pv == [prevFree EXCEPT ![b] = l]
<1>1. /\ b \in live /\ head # Null /\ ~TouchesLeft(b) /\ ~TouchesRight(b)
      /\ live' = live \ {b} /\ asked' = [asked EXCEPT ![b] = 0] /\ crashed' = crashed /\ size' = size
      /\ head' = IF b < Iterator(b) THEN b ELSE head
      /\ nextFree' = Store(nx, l, b) /\ prevFree' = Store(pv, r, b)
  BY DEF FreeAlone, GiveBack
<1>2. /\ HeapTypeOK /\ IsList(head, nextFree, prevFree, FreeBlocks) /\ IsTiling(Blocks, size)
      /\ FreeBlocks \cap live = {} /\ Coalesced /\ LargeEnough
      /\ \A a \in live : asked[a] \in Requests
  BY DEF IInv
<1>3. /\ b \in Pointer /\ l \in Pointer /\ r \in Pointer /\ l # b /\ r # b
      /\ b < Iterator(b) <=> l = Null
      /\ b \in Nat /\ b # Null /\ b \notin FreeBlocks
  <2>1. l \in FreeBlocks \cup {Null} /\ r \in FreeBlocks \cup {Null}
    BY <1>1, FreeFacts
  <2> HIDE DEF l, r
  <2>2. /\ b \in Pointer /\ l \in Pointer /\ r \in Pointer /\ b # Null /\ b \notin FreeBlocks /\ b \in Nat
        /\ b < Iterator(b) <=> l = Null
    BY <1>1, FreeFacts DEF Pointer, l, r
  <2> QED  BY <2>1, <2>2
<1>4. /\ nextFree' \in [Addr -> Pointer] /\ prevFree' \in [Addr -> Pointer] /\ head' \in Pointer
      /\ \A x \in Addr : /\ nextFree'[x] = IF x = l THEN b ELSE IF x = b THEN r ELSE nextFree[x]
                         /\ prevFree'[x] = IF x = r THEN b ELSE IF x = b THEN l ELSE prevFree[x]
  <2> HIDE DEF l, r
  <2>1. /\ nx \in [Addr -> Pointer] /\ pv \in [Addr -> Pointer]
        /\ \A x \in Addr : /\ nx[x] = IF x = b THEN r ELSE nextFree[x]
                           /\ pv[x] = IF x = b THEN l ELSE prevFree[x]
    BY <1>2, <1>3, HeapTypes
  <2>2. nextFree' = Store(nx, l, b) /\ prevFree' = Store(pv, r, b)
    BY <1>1 DEF l, r
  <2>3. head' \in Pointer
    BY <1>1, <1>2, <1>3, HeapTypes
  <2> HIDE DEF nx, pv
  <2>4. /\ Store(nx, l, b) \in [Addr -> Pointer]
        /\ Store(nx, l, b) = [x \in Addr |-> IF x = l THEN b ELSE nx[x]]
    BY <1>3, <2>1, StoreLemma
  <2>5. /\ Store(pv, r, b) \in [Addr -> Pointer]
        /\ Store(pv, r, b) = [x \in Addr |-> IF x = r THEN b ELSE pv[x]]
    BY <1>3, <2>1, StoreLemma
  <2> QED  BY <2>1, <2>2, <2>3, <2>4, <2>5
<1>5. HeapTypeOK'
  BY <1>1, <1>2, <1>4 DEF HeapTypeOK, Pointer
<1>6. IsList(head', nextFree', prevFree', FreeBlocks \cup {b})
  <2>1. Between(FreeBlocks, head, nextFree, l, b, r)
    BY <1>1, FreeFacts
  <2>2. \A a \in FreeBlocks : a \in Addr /\ ((a < b /\ a + Hdr <= b) \/ (b < a /\ b + Hdr <= a))
    BY <1>1, <1>2, FreeFacts, HeapTypes
  <2>3. head' = IF l = Null THEN b ELSE head
    BY <1>1, <1>3
  <2> HIDE DEF l, r
  <2>4. Linked(FreeBlocks, head, nextFree, prevFree, l, b, r, head', nextFree', prevFree')
    BY <1>3, <1>4, <2>2, <2>3 DEF Linked
  <2> QED  BY <1>2, <2>1, <2>4, HeapTypes, ListInsert
<1>7. FreeBlocks' = FreeBlocks \cup {b}
  <2>1. FreeBlocks \cup {b} \in SUBSET Addr
    BY <1>2, HeapTypes
  <2> QED  BY <1>4, <1>6, <2>1, FreeWillBe
<1>8. Blocks' = Blocks
  BY <1>1, <1>7 DEF Blocks
<1>9. Coalesced'
  <2> SUFFICES ASSUME NEW a \in FreeBlocks', NEW d \in FreeBlocks', a + Hdr + size[a] = d PROVE FALSE
    BY <1>1 DEF Coalesced, Adjacent
  <2>1. \A x \in Addr : x \in Nat /\ size[x] \in Nat /\ Hdr \in Nat \ {0} /\ x # Null
    BY <1>2, HeapTypes
  <2>2. a \in Addr /\ d \in Addr
    BY <1>2, <1>7, HeapTypes
  <2>3. CASE a = b
    <3>1. d \in FreeBlocks
      BY <1>7, <2>1, <2>2, <2>3
    <3>2. d = r
      BY <1>1, <2>3, <3>1, FreeFacts
    <3> QED  BY <1>1, <2>1, <2>2, <2>3, <3>2 DEF TouchesRight, Adjacent
  <2>4. CASE a # b /\ d = b
    <3>1. a = l
      BY <1>1, <1>7, <2>4, FreeFacts
    <3> QED  BY <1>1, <2>1, <2>2, <2>4, <3>1 DEF TouchesLeft, Adjacent
  <2>5. CASE a # b /\ d # b
    BY <1>2, <1>7, <2>1, <2>2, <2>5 DEF Coalesced, Adjacent
  <2> QED  BY <2>3, <2>4, <2>5
<1>10. LargeEnough'
  BY <1>1, <1>2 DEF LargeEnough, HeapTypeOK
<1>11. (FreeBlocks \cap live = {})'
  BY <1>1, <1>2, <1>7
<1>12. (\A a \in live : asked[a] \in Requests)'
  BY <1>1, <1>2 DEF HeapTypeOK
<1> QED  BY <1>1, <1>2, <1>5, <1>6, <1>7, <1>8, <1>9, <1>10, <1>11, <1>12 DEF IInv

LEMMA FreeIntoLeftLemma ==
  ASSUME IInv, NEW b \in Addr, FreeIntoLeft(b)
  PROVE  IInv'
<1> DEFINE l == LeftOf(b)
<1>1. /\ b \in live /\ head # Null /\ TouchesLeft(b) /\ ~TouchesRight(b)
      /\ live' = live \ {b} /\ asked' = [asked EXCEPT ![b] = 0] /\ crashed' = crashed
      /\ head' = IF b < Iterator(b) THEN b ELSE head
      /\ size' = [size EXCEPT ![l] = size[l] + size[b] + Hdr, ![b] = 0]
      /\ nextFree' = nextFree /\ prevFree' = prevFree
  BY DEF FreeIntoLeft, GiveBack
<1>2. /\ HeapTypeOK /\ IsList(head, nextFree, prevFree, FreeBlocks) /\ IsTiling(Blocks, size)
      /\ FreeBlocks \cap live = {} /\ Coalesced /\ LargeEnough
      /\ \A a \in live : asked[a] \in Requests
  BY DEF IInv
<1>3. /\ l \in FreeBlocks /\ l \in Blocks /\ b \in Blocks /\ b \notin FreeBlocks /\ l # b
      /\ l + Hdr + size[l] = b
      /\ head' = head
  BY <1>1, FreeFacts DEF TouchesLeft, Adjacent
<1>4. \A x \in Addr : x \in Nat /\ size[x] \in Nat /\ x # Null /\ Hdr \in Nat \ {0}
  BY <1>2, HeapTypes
<1>5. ASSUME NEW d \in FreeBlocks PROVE b + Hdr + size[b] # d
  <2>1. b + Hdr + size[b] = d => d = RightOf(b)
    BY <1>1, FreeFacts
  <2>2. d # Null
    BY <1>2, <1>4, HeapTypes
  <2> QED  BY <1>1, <2>1, <2>2 DEF TouchesRight, Adjacent
<1> HIDE DEF l
<1>6. l \in Addr /\ size'[l] = size[l] + size[b] + Hdr /\ size'[b] = 0
      /\ \A x \in Addr \ {l, b} : size'[x] = size[x]
  BY <1>1, <1>2, <1>3, HeapTypes
<1>7. size'[l] \in 0 .. HeapSize /\ IsTiling(Blocks \ {b}, size')
  <2>1. \A x \in Blocks \ {l, b} : size'[x] = size[x]
    BY <1>2, <1>6, HeapTypes
  <2>2. Blocks \in SUBSET Addr /\ size \in [Addr -> Nat] /\ IsTiling(Blocks, size)
    BY <1>2, HeapTypes
  <2> QED  BY <1>3, <1>6, <2>1, <2>2, TileMerge
<1>8. HeapTypeOK'
  <2>1. size' \in [Addr -> 0 .. HeapSize]
    BY <1>1, <1>2, <1>6, <1>7, HeapAssumption DEF HeapTypeOK
  <2> QED  BY <1>1, <1>2, <1>3, <2>1 DEF HeapTypeOK
<1>9. FreeBlocks' = FreeBlocks /\ IsList(head', nextFree', prevFree', FreeBlocks)
  <2>1. IsList(head', nextFree', prevFree', FreeBlocks)
    BY <1>1, <1>2, <1>3
  <2> QED  BY <1>1, <1>2, <1>3, <2>1, HeapTypes, FreeWillBe
<1>10. Blocks' = Blocks \ {b}
  BY <1>1, <1>3, <1>9 DEF Blocks
<1>11. Coalesced'
  <2> SUFFICES ASSUME NEW a \in FreeBlocks, NEW d \in FreeBlocks, a + Hdr + size'[a] = d PROVE FALSE
    BY <1>9 DEF Coalesced, Adjacent
  <2>1. a \in Addr /\ d \in Addr
    BY <1>2, HeapTypes
  <2>2. CASE a = l
    <3>1. a + Hdr + size'[a] = b + Hdr + size[b]
      BY <1>3, <1>4, <1>6, <2>1, <2>2
    <3> QED  BY <1>5, <3>1
  <2>3. CASE a # l
    BY <1>2, <1>3, <1>4, <1>6, <2>1, <2>3 DEF Coalesced, Adjacent
  <2> QED  BY <2>2, <2>3
<1>12. LargeEnough'
  BY <1>1, <1>2, <1>3, <1>6 DEF LargeEnough, HeapTypeOK
<1>13. (FreeBlocks \cap live = {})'
  BY <1>1, <1>2, <1>9
<1>14. (\A a \in live : asked[a] \in Requests)'
  BY <1>1, <1>2 DEF HeapTypeOK
<1> QED  BY <1>7, <1>8, <1>9, <1>10, <1>11, <1>12, <1>13, <1>14 DEF IInv

LEMMA FreeIntoBothLemma ==
  ASSUME IInv, NEW b \in Addr, FreeIntoBoth(b)
  PROVE  IInv'
<1> DEFINE l == LeftOf(b)
           r == RightOf(b)
           q == nextFree[r]
           pv == [prevFree EXCEPT ![r] = Null]
<1>1. /\ b \in live /\ head # Null /\ TouchesLeft(b) /\ TouchesRight(b)
      /\ live' = live \ {b} /\ asked' = [asked EXCEPT ![b] = 0] /\ crashed' = crashed
      /\ head' = IF b < Iterator(b) THEN b ELSE head
      /\ size' = [size EXCEPT ![l] = size[l] + size[b] + Hdr + size[r] + Hdr, ![b] = 0, ![r] = 0]
      /\ nextFree' = [nextFree EXCEPT ![l] = q, ![r] = Null]
      /\ prevFree' = Store(pv, q, l)
  BY DEF FreeIntoBoth, GiveBack
<1>2. /\ HeapTypeOK /\ IsList(head, nextFree, prevFree, FreeBlocks) /\ IsTiling(Blocks, size)
      /\ FreeBlocks \cap live = {} /\ Coalesced /\ LargeEnough
      /\ \A a \in live : asked[a] \in Requests
  BY DEF IInv
<1>3. /\ l \in FreeBlocks /\ l \in Blocks /\ b \in Blocks /\ b \notin FreeBlocks /\ l # b
      /\ r \in FreeBlocks /\ r \in Blocks /\ nextFree[l] = r
      /\ l + Hdr + size[l] = b /\ b + Hdr + size[b] = r
      /\ head' = head
  BY <1>1, FreeFacts DEF TouchesLeft, TouchesRight, Adjacent
<1>4. \A x \in Addr : x \in Nat /\ size[x] \in Nat /\ x # Null /\ Hdr \in Nat \ {0}
  BY <1>2, HeapTypes
<1> HIDE DEF l, r
<1>5. l \in Addr /\ r \in Addr /\ b \in Addr /\ b # r /\ l # r
  <2>1. l \in Addr /\ r \in Addr /\ b \in Addr /\ b # r
    BY <1>2, <1>3, HeapTypes
  <2> QED  BY <1>3, <1>4, <2>1
<1>6. /\ q # r /\ q \in Pointer /\ l = prevFree[r] /\ r # head
      /\ \A a \in FreeBlocks : (nextFree[a] = r <=> a = l) /\ (prevFree[a] = r <=> a = q)
  BY <1>2, <1>3, <1>4, <1>5, HeapTypes, LinksLemma DEF Pointer
<1>7. /\ size'[l] = size[l] + size[b] + Hdr + size[r] + Hdr
      /\ \A x \in Addr \ {l, b, r} : size'[x] = size[x]
      /\ size'[b] = 0 /\ size'[r] = 0
  BY <1>1, <1>2, <1>5, HeapTypes
<1>8. size'[l] \in 0 .. HeapSize /\ IsTiling((Blocks \ {b}) \ {r}, size')
  <2> DEFINE sz == [size EXCEPT ![l] = size[l] + size[b] + Hdr]
  <2>1. /\ sz \in [Addr -> Nat] /\ sz[l] = size[l] + size[b] + Hdr
        /\ \A x \in Addr \ {l} : sz[x] = size[x]
    BY <1>2, <1>4, <1>5, HeapTypes
  <2> HIDE DEF sz
  <2>2. IsTiling(Blocks \ {b}, sz)
    <3>1. \A x \in Blocks \ {l, b} : sz[x] = size[x]
      BY <1>2, <2>1, HeapTypes
    <3> QED  BY <1>2, <1>3, <2>1, <3>1, HeapTypes, TileMerge
  <2>3. l + Hdr + sz[l] = r /\ size'[l] = sz[l] + sz[r] + Hdr
    BY <1>3, <1>4, <1>5, <1>7, <2>1
  <2>4. \A x \in (Blocks \ {b}) \ {l, r} : size'[x] = sz[x]
    BY <1>2, <1>7, <2>1, HeapTypes
  <2>5. Blocks \ {b} \in SUBSET Addr /\ l \in Blocks \ {b} /\ r \in Blocks \ {b}
    BY <1>2, <1>3, <1>5, HeapTypes
  <2> DEFINE B == Blocks \ {b}
  <2> HIDE DEF B
  <2>6. B \in SUBSET Addr /\ l \in B /\ r \in B /\ IsTiling(B, sz)
    BY <2>2, <2>5 DEF B
  <2>7. \A x \in B \ {l, r} : size'[x] = sz[x]
    BY <2>4 DEF B
  <2>8. size'[l] \in 0 .. HeapSize /\ IsTiling(B \ {r}, size')
    BY <2>1, <2>3, <2>6, <2>7, TileMerge
  <2> QED  BY <2>8 DEF B
<1>9. /\ nextFree' \in [Addr -> Pointer] /\ prevFree' \in [Addr -> Pointer]
      /\ \A x \in Addr : /\ nextFree'[x] = IF x = r THEN Null ELSE IF x = l THEN q ELSE nextFree[x]
                         /\ prevFree'[x] = IF x = q THEN l ELSE IF x = r THEN Null ELSE prevFree[x]
  <2>1. /\ pv \in [Addr -> Pointer]
        /\ \A x \in Addr : pv[x] = IF x = r THEN Null ELSE prevFree[x]
    BY <1>2, <1>5, HeapTypes DEF Pointer
  <2>2. prevFree' = Store(pv, q, l) /\ l \in Pointer
    BY <1>1, <1>5 DEF Pointer
  <2>3. /\ nextFree' \in [Addr -> Pointer]
        /\ \A x \in Addr : nextFree'[x] = IF x = r THEN Null ELSE IF x = l THEN q ELSE nextFree[x]
    BY <1>1, <1>2, <1>5, <1>6, HeapTypes DEF Pointer
  <2> HIDE DEF pv, q
  <2>4. /\ Store(pv, q, l) \in [Addr -> Pointer]
        /\ Store(pv, q, l) = [x \in Addr |-> IF x = q THEN l ELSE pv[x]]
    BY <1>6, <2>1, <2>2, StoreLemma
  <2> QED  BY <2>1, <2>2, <2>3, <2>4
<1>10. HeapTypeOK'
  <2>1. size' \in [Addr -> 0 .. HeapSize]
    <3>1. 0 \in 0 .. HeapSize /\ size \in [Addr -> 0 .. HeapSize]
      BY <1>2, HeapAssumption DEF HeapTypeOK
    <3>2. \A x \in Addr : size'[x] \in 0 .. HeapSize
      BY <1>7, <1>8, <3>1
    <3> QED  BY <1>1, <3>1, <3>2
  <2> QED  BY <1>1, <1>2, <1>3, <1>9, <2>1 DEF HeapTypeOK, Pointer
<1>11. IsList(head', nextFree', prevFree', FreeBlocks \ {r})
  <2>1. ASSUME NEW a \in FreeBlocks \ {r}
        PROVE  /\ nextFree'[a] = IF nextFree[a] = r THEN q ELSE nextFree[a]
               /\ prevFree'[a] = IF a = q THEN prevFree[r] ELSE prevFree[a]
    <3>1. a \in Addr
      BY <1>2, HeapTypes
    <3> HIDE DEF q
    <3> QED  BY <1>6, <1>9, <3>1
  <2>2. Unlinked(FreeBlocks, head, nextFree, prevFree, r, head', nextFree', prevFree')
    BY <1>3, <1>6, <2>1 DEF Unlinked
  <2> QED  BY <1>2, <1>3, <2>2, HeapTypes, ListRemove
<1>12. FreeBlocks' = FreeBlocks \ {r}
  <2>1. FreeBlocks \ {r} \in SUBSET Addr /\ head' \in Pointer
    BY <1>2, <1>3, HeapTypes
  <2> QED  BY <1>9, <1>11, <2>1, FreeWillBe
<1>13. Blocks' = (Blocks \ {b}) \ {r}
  BY <1>1, <1>2, <1>3, <1>12 DEF Blocks
<1>14. Coalesced'
  <2> SUFFICES ASSUME NEW a \in FreeBlocks \ {r}, NEW d \in FreeBlocks \ {r}, a + Hdr + size'[a] = d
               PROVE  FALSE
    BY <1>12 DEF Coalesced, Adjacent
  <2>1. a \in Addr /\ d \in Addr
    BY <1>2, HeapTypes
  <2>2. CASE a = l
    <3>1. r + Hdr + size[r] = d
      BY <1>3, <1>4, <1>5, <1>7, <2>1, <2>2
    <3> QED  BY <1>2, <1>3, <1>4, <2>1, <3>1 DEF Coalesced, Adjacent
  <2>3. CASE a # l
    BY <1>2, <1>3, <1>4, <1>7, <2>1, <2>3 DEF Coalesced, Adjacent
  <2> QED  BY <2>2, <2>3
<1>15. LargeEnough'
  BY <1>1, <1>2, <1>3, <1>7 DEF LargeEnough, HeapTypeOK
<1>16. (FreeBlocks \cap live = {})'
  BY <1>1, <1>2, <1>12
<1>17. (\A a \in live : asked[a] \in Requests)'
  BY <1>1, <1>2 DEF HeapTypeOK
<1> QED  BY <1>8, <1>10, <1>11, <1>12, <1>13, <1>14, <1>15, <1>16, <1>17 DEF IInv

LEMMA FreeIntoRightLemma ==
  ASSUME IInv, NEW b \in Addr, FreeIntoRight(b)
  PROVE  IInv'
<1> DEFINE l == LeftOf(b)
           r == RightOf(b)
           p == prevFree[r]
           q == nextFree[r]
           nx == [nextFree EXCEPT ![b] = q, ![r] = Null]
           pv == [prevFree EXCEPT ![b] = p, ![r] = Null]
<1>1. /\ b \in live /\ head # Null /\ ~TouchesLeft(b) /\ TouchesRight(b)
      /\ live' = live \ {b} /\ asked' = [asked EXCEPT ![b] = 0] /\ crashed' = crashed
      /\ head' = IF b < Iterator(b) THEN b ELSE head
      /\ size' = [size EXCEPT ![b] = size[b] + size[r] + Hdr, ![r] = 0]
      /\ nextFree' = Store(nx, p, b)
      /\ prevFree' = Store(pv, q, b)
  BY DEF FreeIntoRight, GiveBack
<1>2. /\ HeapTypeOK /\ IsList(head, nextFree, prevFree, FreeBlocks) /\ IsTiling(Blocks, size)
      /\ FreeBlocks \cap live = {} /\ Coalesced /\ LargeEnough
      /\ \A a \in live : asked[a] \in Requests
  BY DEF IInv
<1>3. /\ b \in Blocks /\ b \notin FreeBlocks
      /\ r \in FreeBlocks /\ r \in Blocks
      /\ b + Hdr + size[b] = r
      /\ Between(FreeBlocks, head, nextFree, l, b, r)
      /\ b < Iterator(b) <=> l = Null
      /\ \A a \in FreeBlocks : ((a < b /\ a + Hdr <= b) \/ (b < a /\ b + Hdr <= a))
  BY <1>1, FreeFacts DEF TouchesRight, Adjacent
<1>4. \A x \in Addr : x \in Nat /\ size[x] \in Nat /\ x # Null /\ Hdr \in Nat \ {0}
  BY <1>2, HeapTypes
<1>5. ASSUME NEW d \in FreeBlocks PROVE d + Hdr + size[d] # b
  <2>1. d + Hdr + size[d] = b => d = l
    BY <1>1, FreeFacts
  <2>2. d # Null /\ b # Null
    BY <1>2, <1>4, HeapTypes
  <2> QED  BY <1>1, <2>1, <2>2 DEF TouchesLeft, Adjacent
<1> HIDE DEF l, r
<1>6. r \in Addr /\ b \in Addr /\ b # r /\ b \in Pointer /\ Null \in Pointer
  BY <1>2, <1>3, <1>4, HeapTypes DEF Pointer
<1>7. /\ q # r /\ p # r /\ q # b /\ p # b /\ q \in Pointer /\ p \in Pointer
      /\ r = head <=> p = Null
      /\ \A a \in FreeBlocks : (nextFree[a] = r <=> a = p) /\ (prevFree[a] = r <=> a = q)
  <2>1. /\ (r = head /\ p = Null) \/ (r # head /\ p \in FreeBlocks /\ nextFree[p] = r)
        /\ q = Null \/ (q \in FreeBlocks /\ prevFree[q] = r /\ r < q)
        /\ \A a \in FreeBlocks : (nextFree[a] = r <=> a = p) /\ (prevFree[a] = r <=> a = q)
    BY <1>3, LinksLemma
  <2> HIDE DEF p, q
  <2>2. p \in FreeBlocks \cup {Null} /\ q \in FreeBlocks \cup {Null} /\ q # r
    BY <1>4, <1>6, <2>1
  <2>3. p # r
    <3>1. r \in Nat /\ Null \notin FreeBlocks
      BY <1>2, <1>4, <1>6, HeapTypes
    <3>2. nextFree[r] # r
      BY <1>3, <1>4, <1>6, <2>2 DEF q
    <3> QED  BY <1>3, <2>1, <3>1, <3>2
  <2>4. FreeBlocks \subseteq Addr /\ Null \notin Addr
    BY <1>2, HeapTypes
  <2> QED  BY <1>3, <1>6, <2>1, <2>2, <2>3, <2>4 DEF Pointer
<1>8. (l = Null) <=> (r = head)
  <2>1. CASE l = Null
    BY <1>2, <1>3, <1>4, <2>1, HeapTypes DEF Between
  <2>2. CASE l # Null
    <3>1. l \in FreeBlocks /\ nextFree[l] = r
      BY <1>3, <2>2 DEF Between
    <3>2. l = p
      BY <1>7, <3>1
    <3> QED  BY <1>7, <2>2, <3>2
  <2> QED  BY <2>1, <2>2
<1>9. /\ size'[b] = size[b] + size[r] + Hdr /\ size'[r] = 0
      /\ \A x \in Addr \ {b, r} : size'[x] = size[x]
  BY <1>1, <1>2, <1>6, HeapTypes
<1>10. size'[b] \in 0 .. HeapSize /\ IsTiling(Blocks \ {r}, size')
  <2>1. \A x \in Blocks \ {b, r} : size'[x] = size[x]
    BY <1>2, <1>9, HeapTypes
  <2>2. Blocks \in SUBSET Addr /\ size \in [Addr -> Nat] /\ IsTiling(Blocks, size)
    BY <1>2, HeapTypes
  <2> QED  BY <1>3, <1>9, <2>1, <2>2, TileMerge
<1>11. /\ nextFree' \in [Addr -> Pointer] /\ prevFree' \in [Addr -> Pointer] /\ head' \in Pointer
       /\ \A x \in Addr : /\ nextFree'[x] = IF x = p THEN b ELSE IF x = r THEN Null
                                            ELSE IF x = b THEN q ELSE nextFree[x]
                          /\ prevFree'[x] = IF x = q THEN b ELSE IF x = r THEN Null
                                            ELSE IF x = b THEN p ELSE prevFree[x]
  <2>1. /\ nx \in [Addr -> Pointer] /\ pv \in [Addr -> Pointer]
        /\ \A x \in Addr : /\ nx[x] = IF x = r THEN Null ELSE IF x = b THEN q ELSE nextFree[x]
                           /\ pv[x] = IF x = r THEN Null ELSE IF x = b THEN p ELSE prevFree[x]
    BY <1>2, <1>6, <1>7, HeapTypes
  <2>2. nextFree' = Store(nx, p, b) /\ prevFree' = Store(pv, q, b)
    BY <1>1
  <2>3. head' \in Pointer
    BY <1>1, <1>2, <1>6, HeapTypes
  <2> HIDE DEF nx, pv, p, q
  <2>4. /\ Store(nx, p, b) \in [Addr -> Pointer]
        /\ Store(nx, p, b) = [x \in Addr |-> IF x = p THEN b ELSE nx[x]]
    BY <1>6, <1>7, <2>1, StoreLemma
  <2>5. /\ Store(pv, q, b) \in [Addr -> Pointer]
        /\ Store(pv, q, b) = [x \in Addr |-> IF x = q THEN b ELSE pv[x]]
    BY <1>6, <1>7, <2>1, StoreLemma
  <2> QED  BY <2>1, <2>2, <2>3, <2>4, <2>5
<1>12. HeapTypeOK'
  <2>1. size' \in [Addr -> 0 .. HeapSize]
    <3>1. 0 \in 0 .. HeapSize /\ size \in [Addr -> 0 .. HeapSize]
      BY <1>2, HeapAssumption DEF HeapTypeOK
    <3>2. \A x \in Addr : size'[x] \in 0 .. HeapSize
      BY <1>9, <1>10, <3>1
    <3> QED  BY <1>1, <3>1, <3>2
  <2> QED  BY <1>1, <1>2, <1>11, <2>1 DEF HeapTypeOK, Pointer
<1>13. IsList(head', nextFree', prevFree', (FreeBlocks \ {r}) \cup {b})
  <2>1. head' = IF r = head THEN b ELSE head
    BY <1>1, <1>3, <1>8
  <2>2. nextFree'[b] = q /\ prevFree'[b] = p
    <3> HIDE DEF p, q
    <3> QED  BY <1>6, <1>7, <1>11
  <2>3. ASSUME NEW a \in FreeBlocks \ {r}
        PROVE  /\ nextFree'[a] = IF nextFree[a] = r THEN b ELSE nextFree[a]
               /\ prevFree'[a] = IF a = q THEN b ELSE prevFree[a]
               /\ a < r => a + Hdr <= b
               /\ r < a => b + Hdr <= a
    <3>1. a \in Addr /\ a \in Blocks /\ a # b
      BY <1>2, <1>3, HeapTypes DEF Blocks
    <3>2. b < a => r <= a
      <4>1. b < a => b + Hdr + size[b] <= a
        BY <1>2, <1>3, <3>1 DEF IsTiling
      <4> QED  BY <1>3, <4>1
    <3>3. (a < r => a + Hdr <= b) /\ (r < a => b + Hdr <= a)
      BY <1>3, <1>4, <1>6, <3>1, <3>2
    <3> HIDE DEF p, q
    <3> QED  BY <1>7, <1>11, <3>1, <3>3
  <2>4. Relinked(FreeBlocks, head, nextFree, prevFree, r, b, head', nextFree', prevFree')
    BY <2>1, <2>2, <2>3 DEF Relinked
  <2> QED  BY <1>2, <1>3, <2>4, HeapTypes, ListReplace
<1>14. FreeBlocks' = (FreeBlocks \ {r}) \cup {b}
  <2>1. (FreeBlocks \ {r}) \cup {b} \in SUBSET Addr
    BY <1>2, HeapTypes
  <2> QED  BY <1>11, <1>13, <2>1, FreeWillBe
<1>15. Blocks' = Blocks \ {r}
  BY <1>1, <1>2, <1>3, <1>14 DEF Blocks
<1>16. Coalesced'
  <2> SUFFICES ASSUME NEW a \in FreeBlocks', NEW d \in FreeBlocks', a + Hdr + size'[a] = d
               PROVE  FALSE
    BY DEF Coalesced, Adjacent
  <2>1. a \in Addr /\ d \in Addr
    BY <1>2, <1>14, HeapTypes
  <2>2. CASE a = b
    <3>1. r + Hdr + size[r] = d
      BY <1>3, <1>4, <1>6, <1>9, <2>1, <2>2
    <3>2. d # b
      BY <1>3, <1>4, <1>6, <2>1, <3>1
    <3> QED  BY <1>2, <1>3, <1>4, <1>14, <2>1, <3>1, <3>2 DEF Coalesced, Adjacent
  <2>3. CASE a # b /\ d = b
    BY <1>5, <1>9, <1>14, <2>1, <2>3
  <2>4. CASE a # b /\ d # b
    BY <1>2, <1>4, <1>9, <1>14, <2>1, <2>4 DEF Coalesced, Adjacent
  <2> QED  BY <2>2, <2>3, <2>4
<1>17. LargeEnough'
  BY <1>1, <1>2, <1>3, <1>9 DEF LargeEnough, HeapTypeOK
<1>18. (FreeBlocks \cap live = {})'
  BY <1>1, <1>2, <1>14
<1>19. (\A a \in live : asked[a] \in Requests)'
  BY <1>1, <1>2 DEF HeapTypeOK
<1> QED  BY <1>10, <1>12, <1>13, <1>14, <1>15, <1>16, <1>17, <1>18, <1>19 DEF IInv

--------------------------------------------------------------------------------
LEMMA HeapNextLemma == IInv /\ [HeapNext]_vars => IInv'
<1> SUFFICES ASSUME IInv, [HeapNext]_vars PROVE IInv'
  OBVIOUS
<1>1. ASSUME NEW n \in Requests, NEW b \in Addr, AllocFull(n, b) PROVE IInv'
  BY <1>1, AllocFullLemma
<1>2. ASSUME NEW n \in Requests, NEW b \in Addr, AllocPartial(n, b) PROVE IInv'
  BY <1>2, AllocPartialLemma
<1>3. ASSUME NEW b \in Addr, FreeAlone(b) PROVE IInv'
  BY <1>3, FreeAloneLemma
<1>4. ASSUME NEW b \in Addr, FreeIntoLeft(b) PROVE IInv'
  BY <1>4, FreeIntoLeftLemma
<1>5. ASSUME NEW b \in Addr, FreeIntoBoth(b) PROVE IInv'
  BY <1>5, FreeIntoBothLemma
<1>6. ASSUME NEW b \in Addr, FreeIntoRight(b) PROVE IInv'
  BY <1>6, FreeIntoRightLemma
<1>7. ASSUME UNCHANGED <<head, size, prevFree, nextFree, live, asked>>, crashed' \in BOOLEAN
      PROVE  IInv'
  <2>1. FreeBlocks' = FreeBlocks
    <3>1. Reached' = Reached
      BY <1>7 DEF Reached
    <3> QED  BY <3>1 DEF FreeBlocks
  <2>2. HeapTypeOK'
    BY <1>7 DEF IInv, HeapTypeOK
  <2> QED  BY <1>7, <2>1, <2>2 DEF IInv, Blocks, Coalesced, LargeEnough
<1>8. ASSUME NEW b \in Addr, FreeCrash(b) PROVE IInv'
  BY <1>7, <1>8 DEF FreeCrash
<1>9. CASE UNCHANGED vars
  BY <1>7, <1>9 DEF vars, IInv, HeapTypeOK
<1> QED  BY <1>1, <1>2, <1>3, <1>4, <1>5, <1>6, <1>8, <1>9 DEF HeapNext, Malloc, Free

LEMMA Invariant == HeapSpec => []IInv
<1> QED  BY HeapInitLemma, HeapNextLemma, PTL DEF HeapSpec

\* The fields of headers and the pointers to them stay within the heap.
THEOREM HeapTypeCorrect == HeapSpec => []HeapTypeOK
<1>1. IInv => HeapTypeOK
  BY DEF IInv
<1> QED  BY <1>1, Invariant, PTL

\* Whatever is split and merged, free and live blocks tile the heap.
THEOREM BlocksTileTheHeap == HeapSpec => []Tiled
<1>1. IInv => Tiled
  BY DEF IInv, IsTiling, Tiled, End
<1> QED  BY <1>1, Invariant, PTL

\* The free list that malloc and free edit stays doubly linked and in address order.
THEOREM ListStaysConsistent == HeapSpec => []ListConsistent
<1>1. IInv => ListConsistent
  BY DEF IInv, IsList, ListConsistent
<1> QED  BY <1>1, Invariant, PTL

\* free leaves no two free blocks side by side.
THEOREM FreeMerges == HeapSpec => []Coalesced
<1>1. IInv => Coalesced
  BY DEF IInv
<1> QED  BY <1>1, Invariant, PTL

--------------------------------------------------------------------------------
(* The heap implements the abstract allocator                              *)

\* Callers that ask for no more than their blocks hold own regions that lie in the heap and
\* do not overlap.
Region(b, ask) == [at |-> b + Hdr, len |-> ask[b]]

LEMMA RegionsApart ==
  ASSUME NEW B \in SUBSET Addr, NEW sz \in [Addr -> Nat], IsTiling(B, sz), NEW L \in SUBSET B,
         NEW ask, \A b \in L : ask[b] \in Requests /\ ask[b] <= sz[b]
  PROVE  /\ \A b \in L : Region(b, ask) \in Abstract!Regions
         /\ \A a, b \in L :
              a # b => /\ Abstract!Bytes(Region(a, ask)) \cap Abstract!Bytes(Region(b, ask)) = {}
                       /\ Region(a, ask).at # Region(b, ask).at
<1>1. /\ \A x \in Addr : x \in Nat /\ x + Hdr <= HeapSize /\ sz[x] \in Nat
      /\ Hdr \in Nat \ {0} /\ HeapSize \in Nat /\ Requests \subseteq Nat
  BY HeapAssumption DEF Addr
<1>2. ASSUME NEW b \in L
      PROVE  /\ b \in Nat /\ ask[b] \in Nat /\ sz[b] \in Nat /\ ask[b] <= sz[b]
             /\ b + Hdr + sz[b] <= HeapSize
  <2>1. b \in Nat /\ ask[b] \in Nat /\ sz[b] \in Nat /\ ask[b] <= sz[b] /\ b \in B
    BY <1>1
  <2>2. b + Hdr + sz[b] = HeapSize \/ b + Hdr + sz[b] \in B
    BY <2>1 DEF IsTiling
  <2> QED  BY <1>1, <2>1, <2>2
<1>3. ASSUME NEW b \in L PROVE Region(b, ask) \in Abstract!Regions
  <2>1. b + Hdr \in 0 .. HeapSize /\ b + Hdr + ask[b] <= HeapSize /\ ask[b] \in Requests
    BY <1>1, <1>2
  <2> QED  BY <2>1 DEF Region, Abstract!Regions
<1>4. ASSUME NEW a \in L, NEW b \in L, a < b
      PROVE  Abstract!Bytes(Region(a, ask)) \cap Abstract!Bytes(Region(b, ask)) = {}
  <2>1. a + Hdr + sz[a] <= b
    BY <1>4 DEF IsTiling
  <2> QED  BY <1>1, <1>2, <2>1 DEF Region, Abstract!Bytes
<1>5. ASSUME NEW a \in L, NEW b \in L, a # b
      PROVE  /\ Abstract!Bytes(Region(a, ask)) \cap Abstract!Bytes(Region(b, ask)) = {}
             /\ Region(a, ask).at # Region(b, ask).at
  <2>1. a < b \/ b < a
    BY <1>2, <1>5
  <2>2. Abstract!Bytes(Region(a, ask)) \cap Abstract!Bytes(Region(b, ask)) = {}
    BY <1>4, <2>1
  <2> QED  BY <1>1, <1>2, <1>5, <2>2 DEF Region
<1> QED  BY <1>3, <1>5

Owned == {Region(b, asked) : b \in live}

\* The next state: the regions after a step are apart, too.
LEMMA RegionsNext ==
  ASSUME IInv'
  PROVE  /\ \A b \in live' : Region(b, asked') \in Abstract!Regions
         /\ \A a, b \in live' :
              a # b => /\ Abstract!Bytes(Region(a, asked')) \cap Abstract!Bytes(Region(b, asked')) = {}
                       /\ Region(a, asked').at # Region(b, asked').at
<1>1. /\ Blocks' \in SUBSET Addr /\ size' \in [Addr -> Nat] /\ IsTiling(Blocks', size')
      /\ live' \in SUBSET Blocks' /\ \A b \in live' : asked'[b] \in Requests /\ asked'[b] <= size'[b]
  <2>1. FreeBlocks' \in SUBSET Addr
    <3>1. head' \in Pointer /\ nextFree' \in [Addr -> Pointer]
      BY DEF IInv, HeapTypeOK, Pointer
    <3>2. \A k \in Nat : Reached'[k] \in Pointer
      <4>1. Reached' = Walk(head', nextFree')
        BY DEF Reached, Walk
      <4> QED  BY <3>1, <4>1, WalkDef
    <3> QED  BY <3>2 DEF FreeBlocks, Links, Pointer
  <2>2. live' \in SUBSET Addr /\ size' \in [Addr -> Nat]
    BY HeapAssumption DEF IInv, HeapTypeOK
  <2>3. \A b \in live' : asked'[b] \in Nat /\ size'[b] \in Nat /\ size'[b] >= asked'[b]
    BY <2>2, HeapAssumption DEF IInv, LargeEnough
  <2>4. \A b \in live' : asked'[b] \in Requests /\ asked'[b] <= size'[b]
    BY <2>3 DEF IInv
  <2> QED  BY <2>1, <2>2, <2>4 DEF IInv, Blocks
<1> QED  BY <1>1, RegionsApart

\* malloc grants a region that no caller owns.
LEMMA AllocStep ==
  ASSUME IInv, IInv', NEW n \in Requests, NEW b \in Addr, GiveOut(n, b)
  PROVE  \E r \in Abstract!Regions : Abstract!Grant(r)
<1> DEFINE r == Region(b, asked')
<1>1. /\ b \notin live /\ live' = live \cup {b} /\ asked' = [asked EXCEPT ![b] = n]
      /\ asked \in [Addr -> Requests \cup {0}] /\ live \subseteq Addr
  BY FoundLemma DEF GiveOut, IInv, HeapTypeOK
<1>2. \A a \in live : Region(a, asked') = Region(a, asked) /\ a # b
  BY <1>1 DEF Region
<1>3. Owned' = Owned \cup {r}
  BY <1>1, <1>2 DEF Owned
<1>4. r \in Abstract!Regions
  BY <1>1, RegionsNext
<1>5. ASSUME NEW o \in Owned
      PROVE  Abstract!Bytes(r) \cap Abstract!Bytes(o) = {} /\ r.at # o.at
  <2>1. PICK a \in live : o = Region(a, asked)
    BY DEF Owned
  <2>2. a \in live' /\ b \in live' /\ b # a /\ o = Region(a, asked')
    BY <1>1, <1>2, <2>1
  <2> QED  BY <2>2, RegionsNext
<1> HIDE DEF r
<1>6. PICK x \in Abstract!Regions : x = r
  BY <1>4
<1>7. Abstract!Grant(x)
  BY <1>3, <1>5, <1>6 DEF Abstract!Grant, Owned, Region
<1> QED  BY <1>7

\* free gives back the region of its block.
LEMMA FreeStep ==
  ASSUME IInv, NEW b \in Addr, GiveBack(b)
  PROVE  \E r \in Abstract!Regions : Abstract!GiveBack(r)
<1> DEFINE r == Region(b, asked)
<1>1. /\ b \in live /\ live' = live \ {b} /\ asked' = [asked EXCEPT ![b] = 0]
      /\ asked \in [Addr -> Requests \cup {0}] /\ live \subseteq Addr
  BY DEF GiveBack, IInv, HeapTypeOK
<1>2. \A a \in live' : Region(a, asked') = Region(a, asked)
  BY <1>1 DEF Region
<1>3. \A a \in live' : Region(a, asked).at # r.at
  <2>1. \A a \in live' : a \in Nat /\ a # b
    BY <1>1, HeapTypes DEF IInv
  <2> QED  BY <2>1, <1>1, HeapAssumption, HeapTypes DEF Region, IInv
<1>4. Owned' = Owned \ {r}
  <2>1. Owned' = {Region(a, asked) : a \in live'}
    BY <1>2 DEF Owned
  <2>2. r \in Owned /\ r \notin {Region(a, asked) : a \in live'}
    BY <1>1, <1>3 DEF Owned
  <2>3. Owned = {Region(a, asked) : a \in live'} \cup {r}
    BY <1>1 DEF Owned
  <2> QED  BY <2>1, <2>2, <2>3
<1>5. r \in Owned
  BY <1>1 DEF Owned
<1>6. r \in Abstract!Regions
  <2>1. /\ Blocks \in SUBSET Addr /\ size \in [Addr -> Nat] /\ IsTiling(Blocks, size)
        /\ live \in SUBSET Blocks
    BY HeapTypes DEF IInv, Blocks
  <2>2. \A a \in live : asked[a] \in Requests /\ asked[a] <= size[a]
    <3>1. \A a \in live : asked[a] \in Nat /\ size[a] \in Nat /\ size[a] >= asked[a]
      BY <1>1, <2>1, HeapAssumption DEF IInv, LargeEnough
    <3> QED  BY <3>1 DEF IInv
  <2> QED  BY <1>1, <2>1, <2>2, RegionsApart
<1> HIDE DEF r
<1>7. PICK x \in Abstract!Regions : x = r
  BY <1>6
<1>8. Abstract!GiveBack(x)
  BY <1>4, <1>5, <1>7 DEF Abstract!GiveBack, Owned, Region
<1> QED  BY <1>8

\* Whatever malloc and free do to the blocks and the list, callers see an allocator: it grants
\* regions of the heap that nobody owns, and a region is taken back only when it is freed.
THEOREM HeapImplementsAllocator == HeapSpec => ImplementsAllocator
<1>1. HeapInit => Abstract!AllocInit
  BY DEF HeapInit, Abstract!AllocInit
<1>2. IInv /\ IInv' /\ [HeapNext]_vars
      => [Abstract!AllocNext]_({[at |-> a + Hdr, len |-> asked[a]] : a \in live})
  <2> SUFFICES ASSUME IInv, IInv', [HeapNext]_vars
               PROVE  Abstract!AllocNext \/ Owned' = Owned
    BY DEF Owned, Region
  <2>1. ASSUME NEW n \in Requests, NEW b \in Addr, AllocFull(n, b) \/ AllocPartial(n, b)
        PROVE  Abstract!AllocNext
    <3>1. GiveOut(n, b)
      BY <2>1 DEF AllocFull, AllocPartial
    <3> QED  BY <3>1, AllocStep DEF Abstract!AllocNext
  <2>2. ASSUME NEW b \in Addr, FreeAlone(b) \/ FreeIntoLeft(b) \/ FreeIntoBoth(b) \/ FreeIntoRight(b)
        PROVE  Abstract!AllocNext
    <3>1. GiveBack(b)
      BY <2>2 DEF FreeAlone, FreeIntoLeft, FreeIntoBoth, FreeIntoRight
    <3> QED  BY <3>1, FreeStep DEF Abstract!AllocNext
  <2>3. ASSUME NEW b \in Addr, FreeCrash(b) PROVE Owned' = Owned
    BY <2>3 DEF FreeCrash, Owned, Region
  <2>4. CASE UNCHANGED vars
    BY <2>4 DEF vars, Owned, Region
  <2> QED  BY <2>1, <2>2, <2>3, <2>4 DEF HeapNext, Malloc, Free
<1> QED  BY <1>1, <1>2, Invariant, PTL DEF HeapSpec, ImplementsAllocator, Abstract!AllocSpec

====
