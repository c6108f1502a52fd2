------------------------------ MODULE RamDisk_proofs ------------------------------
(***************************************************************************)
(* The RAM disk for any names, paths, contents, sizes of blocks and number *)
(* of calls.                                                               *)
(***************************************************************************)
EXTENDS RamDisk, FiniteSetTheorems, SequenceTheorems, WellFoundedInduction, TLAPS

IsDisk(d) ==
  d = [used |-> d.used, inodes |-> d.inodes, ptr |-> d.ptr, size |-> d.size,
       cells |-> d.cells, bytes |-> d.bytes]

\* Every block that is marked is held by one pointer, and by one only.
BlocksOK(d) ==
  /\ d.used \subseteq Nat /\ IsFiniteSet(d.used)
  /\ \A i \in DOMAIN d.ptr : \A p \in DOMAIN d.ptr[i] : d.ptr[i][p] \in d.used
  /\ \A b \in d.used : \E i \in DOMAIN d.ptr : \E p \in DOMAIN d.ptr[i] : d.ptr[i][p] = b
  /\ \A i, j \in DOMAIN d.ptr : \A p \in DOMAIN d.ptr[i], q \in DOMAIN d.ptr[j] :
       d.ptr[i][p] = d.ptr[j][q] => i = j /\ p = q

\* Every inode but the root is named by one entry, and entries are in marked blocks.
InodesOK(d) ==
  /\ d.inodes \subseteq Nat /\ IsFiniteSet(d.inodes) /\ \A i \in d.inodes : i > Root
  /\ DOMAIN d.ptr = {Root} \cup d.inodes
  /\ IsFiniteSet(DOMAIN d.cells)
  /\ \A c \in DOMAIN d.cells : c[1] \in d.used /\ d.cells[c].inode \in d.inodes
  /\ \A i \in d.inodes : \E c \in DOMAIN d.cells : d.cells[c].inode = i
  /\ \A c, e \in DOMAIN d.cells : d.cells[c].inode = d.cells[e].inode => c = e

\* What MakeDir makes of a name begins with that name.
NamesOK(d) == \A c \in DOMAIN d.cells : <<d.cells[c].called, d.cells[c].name>> \in Prefix

WF(d) == IsDisk(d) /\ BlocksOK(d) /\ InodesOK(d) /\ NamesOK(d)

\* x is d with more pointers, to blocks that were free; nothing else has changed.
Grown(d, x) ==
  /\ x.inodes = d.inodes /\ x.size = d.size /\ x.cells = d.cells /\ x.bytes = d.bytes
  /\ d.used \subseteq x.used /\ DOMAIN x.ptr = DOMAIN d.ptr
  /\ \A i \in DOMAIN d.ptr :
       /\ DOMAIN d.ptr[i] \subseteq DOMAIN x.ptr[i]
       /\ \A p \in DOMAIN d.ptr[i] : x.ptr[i][p] = d.ptr[i][p]
       /\ \A p \in DOMAIN x.ptr[i] \ DOMAIN d.ptr[i] : x.ptr[i][p] \notin d.used

--------------------------------------------------------------------------------
(* Numbers                                                                 *)

LEMMA Smallest ==
  ASSUME NEW S \in SUBSET Nat, S # {}
  PROVE  \E n \in S : \A m \in S : n <= m
<1>1. PICK n \in S : \A m \in S : ~(<<m, n>> \in OpToRel(<, Nat))
  BY NatLessThanWellFounded, WFMin
<1>2. \A m \in S : ~(m < n)
  BY <1>1 DEF OpToRel
<1> QED  BY <1>2

LEMMA Induction ==
  ASSUME NEW S, 0 \in S, \A n \in Nat : n \in S => n + 1 \in S
  PROVE  \A n \in Nat : n \in S
<1> SUFFICES ASSUME Nat \ S # {} PROVE FALSE
  OBVIOUS
<1>1. PICK m \in Nat \ S : \A n \in Nat \ S : m <= n
  BY Smallest
<1>2. m # 0 /\ m - 1 \in Nat /\ m - 1 \in S
  BY <1>1
<1> QED  BY <1>1, <1>2

LEMMA DivFacts ==
  ASSUME NEW x \in Nat, NEW m \in Nat \ {0}
  PROVE  x \div m \in Nat /\ x % m \in 0 .. m - 1 /\ x = m * (x \div m) + (x % m)
OBVIOUS

LEMMA DivUnique ==
  ASSUME NEW m \in Nat \ {0}, NEW q \in Nat, NEW r \in 0 .. m - 1
  PROVE  (m * q + r) \div m = q /\ (m * q + r) % m = r
OBVIOUS

LEMMA FirstFreeFacts ==
  ASSUME NEW S \in SUBSET Nat, IsFiniteSet(S), NEW k \in Nat
  PROVE  FirstFree(S, k) \in Nat /\ FirstFree(S, k) >= k /\ FirstFree(S, k) \notin S
<1> DEFINE N == k .. k + Cardinality(S)
           F == {n \in N : n \notin S}
<1>1. Cardinality(S) \in Nat
  BY FS_CardinalityType
<1>2. IsFiniteSet(N) /\ Cardinality(N) = Cardinality(S) + 1
  <2>1. k \in Int /\ k + Cardinality(S) \in Int
    BY <1>1
  <2>2. /\ IsFiniteSet(N)
        /\ Cardinality(N) = IF k > k + Cardinality(S) THEN 0 ELSE (k + Cardinality(S)) - k + 1
    BY <2>1, FS_Interval
  <2> QED  BY <1>1, <2>2
<1>3. F # {} /\ F \in SUBSET Nat
  <2>1. ~(N \subseteq S)
    <3> SUFFICES ASSUME N \in SUBSET S PROVE FALSE
      OBVIOUS
    <3>1. Cardinality(N) <= Cardinality(S)
      BY FS_Subset
    <3> QED  BY <3>1, <1>1, <1>2
  <2> QED  BY <1>1, <2>1
<1>4. PICK n \in F : \A m \in F : n <= m
  BY <1>3, Smallest
<1>5. n \in N /\ n \notin S /\ \A j \in k .. n - 1 : j \in S
  <2>1. ASSUME NEW j \in k .. n - 1 PROVE j \in S
    <3>1. j \in N /\ ~(n <= j)
      BY <1>1, <1>4
    <3> QED  BY <3>1, <1>4
  <2> QED  BY <2>1, <1>4
<1>6. FirstFree(S, k) \in N /\ FirstFree(S, k) \notin S
  BY <1>5 DEF FirstFree
<1> QED  BY <1>1, <1>6

--------------------------------------------------------------------------------
(* Blocks                                                                  *)

LEMMA GrownTrans ==
  ASSUME NEW d, NEW x, NEW y, Grown(d, x), Grown(x, y)
  PROVE  Grown(d, y)
BY DEF Grown

LEMMA GrownSame == \A d : Grown(d, d)
BY DEF Grown

LEMMA AllocateBlockFacts ==
  ASSUME NEW d, WF(d), NEW i \in DOMAIN d.ptr, NEW p
  PROVE  LET x == AllocateBlock(d, i, p)
         IN WF(x) /\ Grown(d, x) /\ p \in DOMAIN x.ptr[i]
<1> DEFINE x == AllocateBlock(d, i, p)
           b == FirstFree(d.used, 1)
<1>1. CASE p \in DOMAIN d.ptr[i]
  <2>1. x = d
    BY <1>1 DEF AllocateBlock
  <2> QED  BY <1>1, <2>1, GrownSame
<1>2. CASE p \notin DOMAIN d.ptr[i]
  <2>1. b \in Nat /\ b \notin d.used
    BY FirstFreeFacts DEF WF, BlocksOK
  <2> HIDE DEF b
  <2>2. x = [d EXCEPT !.used = @ \cup {b}, !.ptr[i] = Put(@, p, b)]
    BY <1>2 DEF AllocateBlock, b
  <2>3. /\ x = [used |-> d.used \cup {b}, inodes |-> d.inodes,
                ptr |-> [d.ptr EXCEPT ![i] = Put(d.ptr[i], p, b)], size |-> d.size,
                cells |-> d.cells, bytes |-> d.bytes]
    BY <2>2 DEF WF, IsDisk
  <2> HIDE DEF x
  <2>4. /\ x.used = d.used \cup {b} /\ x.inodes = d.inodes /\ x.size = d.size
        /\ x.cells = d.cells /\ x.bytes = d.bytes /\ IsDisk(x)
        /\ x.ptr = [d.ptr EXCEPT ![i] = Put(d.ptr[i], p, b)]
    BY <2>3 DEF IsDisk
  <2>5. /\ DOMAIN x.ptr = DOMAIN d.ptr
        /\ DOMAIN x.ptr[i] = DOMAIN d.ptr[i] \cup {p}
        /\ \A q \in DOMAIN d.ptr[i] : x.ptr[i][q] = d.ptr[i][q]
        /\ x.ptr[i][p] = b
        /\ \A j \in DOMAIN d.ptr : j # i => x.ptr[j] = d.ptr[j]
    BY <1>2, <2>4 DEF Put
  <2> HIDE <2>3
  <2>6. Grown(d, x)
    BY <1>2, <2>1, <2>4, <2>5 DEF Grown
  <2>7. BlocksOK(x)
    <3>1. x.used \subseteq Nat /\ IsFiniteSet(x.used)
      BY <2>1, <2>4, FS_AddElement DEF WF, BlocksOK
    <3>2. \A j \in DOMAIN x.ptr : \A q \in DOMAIN x.ptr[j] :
            \/ j = i /\ q = p /\ x.ptr[j][q] = b
            \/ q \in DOMAIN d.ptr[j] /\ x.ptr[j][q] = d.ptr[j][q] /\ d.ptr[j][q] \in d.used
      BY <2>4, <2>5 DEF WF, BlocksOK
    <3>3. \A a \in x.used : \E j \in DOMAIN x.ptr : \E q \in DOMAIN x.ptr[j] : x.ptr[j][q] = a
      <4> TAKE a \in x.used
      <4>1. CASE a = b
        BY <4>1, <2>5
      <4>2. CASE a \in d.used
        <5>1. PICK j \in DOMAIN d.ptr : \E q \in DOMAIN d.ptr[j] : d.ptr[j][q] = a
          BY <4>2 DEF WF, BlocksOK
        <5> QED  BY <5>1, <2>5
      <4> QED  BY <4>1, <4>2, <2>4
    <3>4. \A j, k \in DOMAIN x.ptr : \A q \in DOMAIN x.ptr[j], r \in DOMAIN x.ptr[k] :
            x.ptr[j][q] = x.ptr[k][r] => j = k /\ q = r
      BY <3>2, <2>1, <2>5 DEF WF, BlocksOK
    <3>5. \A j \in DOMAIN x.ptr : \A q \in DOMAIN x.ptr[j] : x.ptr[j][q] \in x.used
      BY <3>2, <2>4
    <3> QED  BY <3>1, <3>3, <3>4, <3>5 DEF BlocksOK
  <2>8. InodesOK(x)
    BY <2>4, <2>5 DEF WF, InodesOK
  <2>9. NamesOK(x)
    BY <2>4 DEF WF, NamesOK
  <2> QED  BY <2>4, <2>5, <2>6, <2>7, <2>8, <2>9 DEF WF, x
<1> QED  BY <1>1, <1>2

\* What a recursive function of the model is at each step.
AllocateAllRun(f, d, i, pointers) ==
  f = [k \in 0 .. Len(pointers) |-> IF k = 0 THEN d ELSE AllocateBlock(f[k - 1], i, pointers[k])]

LEMMA AllocateAllDef ==
  ASSUME NEW d, NEW i, NEW pointers, Len(pointers) \in Nat
  PROVE  \E f : AllocateAllRun(f, d, i, pointers) /\ AllocateAll(d, i, pointers) = f[Len(pointers)]
<1> DEFINE Eq(f, m) == f = [k \in 0 .. m |-> IF k = 0 THEN d ELSE AllocateBlock(f[k - 1], i, pointers[k])]
           S == {m \in Nat : \E f : Eq(f, m)}
<1>1. 0 \in S
  <2>1. Eq([k \in 0 .. 0 |-> d], 0)
    OBVIOUS
  <2> QED  BY <2>1
<1>2. ASSUME NEW m \in Nat, m \in S PROVE m + 1 \in S
  <2>1. PICK g : Eq(g, m)
    BY <1>2
  <2> DEFINE h == [k \in 0 .. m + 1 |-> IF k = 0 THEN d ELSE AllocateBlock(g[k - 1], i, pointers[k])]
  <2>2. \A k \in 0 .. m : h[k] = g[k]
    BY <2>1
  <2>3. \A k \in 0 .. m + 1 : k # 0 => k - 1 \in 0 .. m
    OBVIOUS
  <2>4. Eq(h, m + 1)
    BY <2>2, <2>3
  <2> HIDE DEF h
  <2> QED  BY <2>4
<1> HIDE DEF S
<1>3. \A m \in Nat : m \in S
  BY <1>1, <1>2, Induction
<1> DEFINE after == CHOOSE f : Eq(f, Len(pointers))
<1>4. Eq(after, Len(pointers))
  BY <1>3 DEF S
<1>5. AllocateAll(d, i, pointers) = after[Len(pointers)]
  BY DEF AllocateAll
<1>6. AllocateAllRun(after, d, i, pointers)
  BY <1>4 DEF AllocateAllRun
<1> QED  BY <1>5, <1>6

LEMMA AllocateAllFacts ==
  ASSUME NEW d, WF(d), NEW i \in DOMAIN d.ptr, NEW pointers, Len(pointers) \in Nat
  PROVE  LET x == AllocateAll(d, i, pointers)
         IN WF(x) /\ Grown(d, x) /\ \A k \in 1 .. Len(pointers) : pointers[k] \in DOMAIN x.ptr[i]
<1> DEFINE n == Len(pointers)
           Good(x, k) == WF(x) /\ Grown(d, x) /\ \A j \in 1 .. k : pointers[j] \in DOMAIN x.ptr[i]
<1>1. PICK a : AllocateAllRun(a, d, i, pointers) /\ AllocateAll(d, i, pointers) = a[n]
  BY AllocateAllDef
<1> DEFINE S == {k \in Nat : k <= n => Good(a[k], k)}
<1>2. 0 \in S
  <2>1. a[0] = d
    BY <1>1 DEF AllocateAllRun
  <2> QED  BY <2>1, GrownSame
<1>3. ASSUME NEW k \in Nat, k \in S PROVE k + 1 \in S
  <2> SUFFICES ASSUME k + 1 <= n PROVE Good(a[k + 1], k + 1)
    OBVIOUS
  <2> DEFINE x == a[k]
             y == a[k + 1]
  <2>1. y = AllocateBlock(x, i, pointers[k + 1])
    <3>1. k + 1 \in 0 .. n /\ k + 1 # 0 /\ (k + 1) - 1 = k
      OBVIOUS
    <3> QED  BY <1>1, <3>1 DEF AllocateAllRun
  <2>2. Good(x, k)
    BY <1>3
  <2> HIDE DEF x, y
  <2>3. i \in DOMAIN x.ptr
    BY <2>2 DEF Grown
  <2>4. WF(y) /\ Grown(x, y) /\ pointers[k + 1] \in DOMAIN y.ptr[i]
    BY <2>1, <2>2, <2>3, AllocateBlockFacts
  <2>5. Grown(d, y)
    BY <2>2, <2>4, GrownTrans
  <2>6. \A j \in 1 .. k : pointers[j] \in DOMAIN y.ptr[i]
    BY <2>2, <2>3, <2>4 DEF Grown
  <2>7. \A j \in 1 .. k + 1 : j = k + 1 \/ j \in 1 .. k
    OBVIOUS
  <2> QED  BY <2>4, <2>5, <2>6, <2>7 DEF y
<1> HIDE DEF S
<1>4. n \in S
  BY <1>2, <1>3, Induction
<1> QED  BY <1>1, <1>4 DEF S

\* Above has at most three pointers, which come before p or after it.
LEMMA AboveFacts ==
  ASSUME NEW p
  PROVE  /\ Len(Append(Above(p), p)) \in Nat \ {0} /\ Len(<<p>> \o Above(p)) \in Nat \ {0}
         /\ Append(Above(p), p)[Len(Append(Above(p), p))] = p /\ (<<p>> \o Above(p))[1] = p
<1> DEFINE T == {<<1>>, SubSeq(p, 1, 2), SubSeq(p, 1, 3), p}
           a == Above(p)
<1>1. a \in Seq(T)
  <2> DEFINE u == SubSeq(p, 1, 2)
             v == SubSeq(p, 1, 3)
             w == <<1>>
  <2>1. a = IF p[1] = 0 THEN <<>> ELSE <<w, u, v>>
    BY DEF Above
  <2>2. w \in T /\ u \in T /\ v \in T
    OBVIOUS
  <2> HIDE DEF w, u, v, T, a
  <2>3. <<>> \in Seq(T) /\ <<w, u, v>> \in Seq(T)
    BY <2>2
  <2> QED  BY <2>1, <2>3
<1>2. p \in T /\ <<p>> \in Seq(T) /\ Len(<<p>>) = 1 /\ <<p>>[1] = p
  OBVIOUS
<1> HIDE DEF a, T
<1>3. Len(a) \in Nat
  BY <1>1
<1>4. Len(Append(a, p)) = Len(a) + 1 /\ Append(a, p)[Len(a) + 1] = p
  BY <1>1, <1>2
<1>5. Len(<<p>> \o a) = 1 + Len(a) /\ (<<p>> \o a)[1] = p
  BY <1>1, <1>2, <1>3
<1> QED  BY <1>3, <1>4, <1>5 DEF a

LEMMA EnsureFacts ==
  ASSUME NEW d, WF(d), NEW i \in DOMAIN d.ptr, NEW p
  PROVE  LET x == Ensure(d, i, p) IN WF(x) /\ Grown(d, x) /\ p \in DOMAIN x.ptr[i]
<1> DEFINE pointers == Append(Above(p), p)
<1>1. Len(pointers) \in Nat /\ Len(pointers) \in 1 .. Len(pointers) /\ pointers[Len(pointers)] = p
  BY AboveFacts
<1> HIDE DEF pointers
<1>2. LET x == AllocateAll(d, i, pointers)
      IN WF(x) /\ Grown(d, x) /\ \A k \in 1 .. Len(pointers) : pointers[k] \in DOMAIN x.ptr[i]
  BY <1>1, AllocateAllFacts
<1>3. Ensure(d, i, p) = AllocateAll(d, i, pointers)
  BY DEF Ensure, pointers
<1> QED  BY <1>1, <1>2, <1>3

EnsureAllRun(f, d, i, n) ==
  f = [k \in 0 .. n |-> IF k = 0 THEN d ELSE Ensure(f[k - 1], i, FilePtr(k - 1))]

LEMMA EnsureAllDef ==
  ASSUME NEW d, NEW i, NEW n \in Nat
  PROVE  \E f : EnsureAllRun(f, d, i, n) /\ EnsureAll(d, i, n) = f[n]
<1> DEFINE Eq(f, m) == f = [k \in 0 .. m |-> IF k = 0 THEN d ELSE Ensure(f[k - 1], i, FilePtr(k - 1))]
           S == {m \in Nat : \E f : Eq(f, m)}
<1>1. 0 \in S
  <2>1. Eq([k \in 0 .. 0 |-> d], 0)
    OBVIOUS
  <2> QED  BY <2>1
<1>2. ASSUME NEW m \in Nat, m \in S PROVE m + 1 \in S
  <2>1. PICK g : Eq(g, m)
    BY <1>2
  <2> DEFINE h == [k \in 0 .. m + 1 |-> IF k = 0 THEN d ELSE Ensure(g[k - 1], i, FilePtr(k - 1))]
  <2>2. \A k \in 0 .. m : h[k] = g[k]
    BY <2>1
  <2>3. \A k \in 0 .. m + 1 : k # 0 => k - 1 \in 0 .. m
    OBVIOUS
  <2>4. Eq(h, m + 1)
    BY <2>2, <2>3
  <2> HIDE DEF h
  <2> QED  BY <2>4
<1> HIDE DEF S
<1>3. \A m \in Nat : m \in S
  BY <1>1, <1>2, Induction
<1> DEFINE after == CHOOSE f : Eq(f, n)
<1>4. Eq(after, n)
  BY <1>3 DEF S
<1>5. EnsureAll(d, i, n) = after[n]
  BY DEF EnsureAll
<1>6. EnsureAllRun(after, d, i, n)
  BY <1>4 DEF EnsureAllRun
<1> QED  BY <1>5, <1>6

LEMMA EnsureAllFacts ==
  ASSUME NEW d, WF(d), NEW i \in DOMAIN d.ptr, NEW n \in Nat
  PROVE  LET x == EnsureAll(d, i, n)
         IN WF(x) /\ Grown(d, x) /\ \A k \in 1 .. n : FilePtr(k - 1) \in DOMAIN x.ptr[i]
<1> DEFINE Good(x, k) == WF(x) /\ Grown(d, x) /\ \A j \in 1 .. k : FilePtr(j - 1) \in DOMAIN x.ptr[i]
<1>1. PICK a : EnsureAllRun(a, d, i, n) /\ EnsureAll(d, i, n) = a[n]
  BY EnsureAllDef
<1> DEFINE S == {k \in Nat : k <= n => Good(a[k], k)}
<1>2. 0 \in S
  <2>1. a[0] = d
    BY <1>1 DEF EnsureAllRun
  <2> QED  BY <2>1, GrownSame
<1>3. ASSUME NEW k \in Nat, k \in S PROVE k + 1 \in S
  <2> SUFFICES ASSUME k + 1 <= n PROVE Good(a[k + 1], k + 1)
    OBVIOUS
  <2> DEFINE x == a[k]
             y == a[k + 1]
             p == FilePtr(k)
  <2>1. y = Ensure(x, i, p)
    <3>1. k + 1 \in 0 .. n /\ k + 1 # 0 /\ (k + 1) - 1 = k
      OBVIOUS
    <3> QED  BY <1>1, <3>1 DEF EnsureAllRun
  <2>2. Good(x, k)
    BY <1>3
  <2> HIDE DEF x, y
  <2>3. i \in DOMAIN x.ptr
    BY <2>2 DEF Grown
  <2>4. WF(y) /\ Grown(x, y) /\ p \in DOMAIN y.ptr[i]
    BY <2>1, <2>2, <2>3, EnsureFacts
  <2>5. Grown(d, y)
    BY <2>2, <2>4, GrownTrans
  <2>6. \A j \in 1 .. k : FilePtr(j - 1) \in DOMAIN y.ptr[i]
    BY <2>2, <2>3, <2>4 DEF Grown
  <2>7. \A j \in 1 .. k + 1 : (j = k + 1 /\ j - 1 = k) \/ j \in 1 .. k
    OBVIOUS
  <2> QED  BY <2>4, <2>5, <2>6, <2>7 DEF y
<1> HIDE DEF S
<1>4. n \in S
  BY <1>2, <1>3, Induction
<1> QED  BY <1>1, <1>4 DEF S

AllocateBlocksRun(f, d, i, n) ==
  f = [k \in 0 .. n |-> IF k = 0 THEN d ELSE AllocateAll(f[k - 1], i, <<FilePtr(k - 1)>> \o Above(FilePtr(k - 1)))]

LEMMA AllocateBlocksDef ==
  ASSUME NEW d, NEW i, NEW n \in Nat
  PROVE  \E f : AllocateBlocksRun(f, d, i, n) /\ AllocateBlocks(d, i, n) = f[n]
<1> DEFINE Eq(f, m) == f = [k \in 0 .. m |-> IF k = 0 THEN d ELSE AllocateAll(f[k - 1], i, <<FilePtr(k - 1)>> \o Above(FilePtr(k - 1)))]
           S == {m \in Nat : \E f : Eq(f, m)}
<1>1. 0 \in S
  <2>1. Eq([k \in 0 .. 0 |-> d], 0)
    OBVIOUS
  <2> QED  BY <2>1
<1>2. ASSUME NEW m \in Nat, m \in S PROVE m + 1 \in S
  <2>1. PICK g : Eq(g, m)
    BY <1>2
  <2> DEFINE h == [k \in 0 .. m + 1 |-> IF k = 0 THEN d ELSE AllocateAll(g[k - 1], i, <<FilePtr(k - 1)>> \o Above(FilePtr(k - 1)))]
  <2>2. \A k \in 0 .. m : h[k] = g[k]
    BY <2>1
  <2>3. \A k \in 0 .. m + 1 : k # 0 => k - 1 \in 0 .. m
    OBVIOUS
  <2>4. Eq(h, m + 1)
    BY <2>2, <2>3
  <2> HIDE DEF h
  <2> QED  BY <2>4
<1> HIDE DEF S
<1>3. \A m \in Nat : m \in S
  BY <1>1, <1>2, Induction
<1> DEFINE after == CHOOSE f : Eq(f, n)
<1>4. Eq(after, n)
  BY <1>3 DEF S
<1>5. AllocateBlocks(d, i, n) = after[n]
  BY DEF AllocateBlocks
<1>6. AllocateBlocksRun(after, d, i, n)
  BY <1>4 DEF AllocateBlocksRun
<1> QED  BY <1>5, <1>6

LEMMA AllocateBlocksFacts ==
  ASSUME NEW d, WF(d), NEW i \in DOMAIN d.ptr, NEW n \in Nat
  PROVE  LET x == AllocateBlocks(d, i, n)
         IN WF(x) /\ Grown(d, x) /\ \A k \in 1 .. n : FilePtr(k - 1) \in DOMAIN x.ptr[i]
<1> DEFINE Good(x, k) == WF(x) /\ Grown(d, x) /\ \A j \in 1 .. k : FilePtr(j - 1) \in DOMAIN x.ptr[i]
<1>1. PICK a : AllocateBlocksRun(a, d, i, n) /\ AllocateBlocks(d, i, n) = a[n]
  BY AllocateBlocksDef
<1> DEFINE S == {k \in Nat : k <= n => Good(a[k], k)}
<1>2. 0 \in S
  <2>1. a[0] = d
    BY <1>1 DEF AllocateBlocksRun
  <2> QED  BY <2>1, GrownSame
<1>3. ASSUME NEW k \in Nat, k \in S PROVE k + 1 \in S
  <2> SUFFICES ASSUME k + 1 <= n PROVE Good(a[k + 1], k + 1)
    OBVIOUS
  <2> DEFINE x == a[k]
             y == a[k + 1]
             p == FilePtr(k)
  <2>1. y = AllocateAll(x, i, <<p>> \o Above(p))
    <3>1. k + 1 \in 0 .. n /\ k + 1 # 0 /\ (k + 1) - 1 = k
      OBVIOUS
    <3> QED  BY <1>1, <3>1 DEF AllocateBlocksRun
  <2>2. Good(x, k)
    BY <1>3
  <2> HIDE DEF x, y
  <2>3. i \in DOMAIN x.ptr
    BY <2>2 DEF Grown
  <2>4. WF(y) /\ Grown(x, y) /\ p \in DOMAIN y.ptr[i]
    <3> DEFINE pointers == <<p>> \o Above(p)
    <3>1. Len(pointers) \in Nat /\ 1 \in 1 .. Len(pointers) /\ pointers[1] = p
      BY AboveFacts
    <3> HIDE DEF pointers, p
    <3>2. LET z == AllocateAll(x, i, pointers)
          IN WF(z) /\ Grown(x, z) /\ \A j \in 1 .. Len(pointers) : pointers[j] \in DOMAIN z.ptr[i]
      BY <2>2, <2>3, <3>1, AllocateAllFacts
    <3> QED  BY <2>1, <3>1, <3>2 DEF pointers
  <2>5. Grown(d, y)
    BY <2>2, <2>4, GrownTrans
  <2>6. \A j \in 1 .. k : FilePtr(j - 1) \in DOMAIN y.ptr[i]
    BY <2>2, <2>3, <2>4 DEF Grown
  <2>7. \A j \in 1 .. k + 1 : (j = k + 1 /\ j - 1 = k) \/ j \in 1 .. k
    OBVIOUS
  <2> QED  BY <2>4, <2>5, <2>6, <2>7 DEF y
<1> HIDE DEF S
<1>4. n \in S
  BY <1>2, <1>3, Induction
<1> QED  BY <1>1, <1>4 DEF S

--------------------------------------------------------------------------------
(* Directories                                                             *)

LEMMA IndirectInjective ==
  ASSUME NEW e \in Nat, NEW f \in Nat, IndirectPtr(e) = IndirectPtr(f)
  PROVE  e = f
<1> DEFINE T == Span * Span
<1>1. Span \in Nat \ {0} /\ T \in Nat \ {0}
  BY RamDiskAssumption
<1>2. /\ e \div T = f \div T
      /\ (e % T) \div Span = (f % T) \div Span
      /\ e % Span = f % Span
  BY DEF IndirectPtr
<1>3. ASSUME NEW x \in Nat
      PROVE  x = T * (x \div T) + (Span * ((x % T) \div Span) + (x % Span))
  <2> DEFINE a == x \div T
             r == x % T
             b == r \div Span
             c == r % Span
  <2>1. a \in Nat /\ r \in 0 .. T - 1 /\ x = T * a + r
    <3> HIDE DEF T
    <3> QED  BY <1>1, DivFacts
  <2>2. r \in Nat
    BY <1>1, <2>1
  <2>3. b \in Nat /\ c \in 0 .. Span - 1 /\ r = Span * b + c
    <3> HIDE DEF r
    <3> QED  BY <1>1, <2>2, DivFacts
  <2> HIDE DEF a, r, b, c
  <2>4. x = Span * (Span * a + b) + c /\ Span * a + b \in Nat
    <3>1. Span * Span * a = Span * (Span * a) /\ Span * (Span * a + b) = Span * (Span * a) + Span * b
      BY <1>1, <2>1, <2>3
    <3>2. Span * (Span * a) \in Nat /\ Span * b \in Nat /\ Span * a \in Nat
      BY <1>1, <2>1, <2>3
    <3> QED  BY <1>1, <2>1, <2>3, <3>1, <3>2
  <2>5. x % Span = c
    <3> DEFINE q == Span * a + b
    <3> HIDE DEF q
    <3>1. (Span * q + c) % Span = c
      <4>1. q \in Nat
        BY <2>4 DEF q
      <4> QED  BY <1>1, <2>3, <4>1, DivUnique
    <3> QED  BY <2>4, <3>1 DEF q
  <2> QED  BY <2>1, <2>3, <2>5 DEF a, r, b
<1> DEFINE Value(x) == T * (x \div T) + (Span * ((x % T) \div Span) + (x % Span))
<1>4. Value(e) = Value(f)
  BY <1>2
<1>5. e = Value(e) /\ f = Value(f)
  <2> HIDE DEF T
  <2> QED  BY <1>3
<1> HIDE DEF Value
<1> QED  BY <1>4, <1>5

LEMMA EntryInjective ==
  ASSUME NEW e \in Nat, NEW f \in Nat, EntryPtr(e) = EntryPtr(f), e % PerBlock = f % PerBlock
  PROVE  e = f
<1>1. PerBlock \in Nat \ {0}
  BY RamDiskAssumption
<1>2. \A x, y : DirectPtr(x) # IndirectPtr(y)
  BY DEF DirectPtr, IndirectPtr
<1>3. CASE e \div PerBlock < NDirect /\ f \div PerBlock < NDirect
  <2>1. e \div PerBlock = f \div PerBlock
    BY <1>3 DEF EntryPtr, DirectPtr
  <2>2. /\ e = PerBlock * (e \div PerBlock) + (e % PerBlock)
        /\ f = PerBlock * (f \div PerBlock) + (f % PerBlock)
    BY <1>1, DivFacts
  <2> QED  BY <2>1, <2>2
<1>4. CASE ~(e \div PerBlock < NDirect) /\ ~(f \div PerBlock < NDirect)
  BY <1>4, IndirectInjective DEF EntryPtr
<1> QED  BY <1>2, <1>3, <1>4 DEF EntryPtr

Room(d) == Cardinality(DOMAIN d.cells) <= MaxCalls

LEMMA FirstEmptyFacts ==
  ASSUME NEW d, WF(d), Room(d), NEW i \in DOMAIN d.ptr
  PROVE  LET e == FirstEmpty(d, i)
         IN e \in 0 .. MaxCalls /\ ~HasEntry(d, i, e) /\ \A f \in 0 .. e - 1 : HasEntry(d, i, f)
<1> DEFINE N == 0 .. MaxCalls
           F == {e \in N : ~HasEntry(d, i, e)}
           C == DOMAIN d.cells
           cell(e) == <<d.ptr[i][EntryPtr(e)], e % PerBlock>>
<1>1. MaxCalls \in Nat
  BY RamDiskAssumption
<1>2. F # {}
  <2> SUFFICES ASSUME \A e \in N : HasEntry(d, i, e) PROVE FALSE
    OBVIOUS
  <2> DEFINE g == [e \in N |-> cell(e)]
  <2>1. \A e \in N : EntryPtr(e) \in DOMAIN d.ptr[i] /\ cell(e) \in C
    BY DEF HasEntry
  <2>2. \A e, f \in N : cell(e) = cell(f) => e = f
    <3> TAKE e, f \in N
    <3> HAVE cell(e) = cell(f)
    <3>1. d.ptr[i][EntryPtr(e)] = d.ptr[i][EntryPtr(f)] /\ e % PerBlock = f % PerBlock
      OBVIOUS
    <3>2. EntryPtr(e) = EntryPtr(f)
      BY <2>1, <3>1 DEF WF, BlocksOK
    <3>3. e \in Nat /\ f \in Nat
      BY <1>1
    <3> QED  BY <3>1, <3>2, <3>3, EntryInjective
  <2> HIDE DEF cell
  <2>3. g \in Injection(N, C)
    BY <2>1, <2>2 DEF Injection, IsInjective
  <2>4. IsFiniteSet(C) /\ Cardinality(C) <= MaxCalls
    BY DEF WF, InodesOK, Room
  <2>5. Cardinality(N) <= Cardinality(C)
    <3> HIDE DEF g, N, C
    <3> QED  BY <2>3, <2>4, FS_Injection
  <2>6. Cardinality(N) = MaxCalls + 1
    <3>1. 0 \in Int /\ MaxCalls \in Int
      BY <1>1
    <3>2. Cardinality(N) = IF 0 > MaxCalls THEN 0 ELSE MaxCalls - 0 + 1
      BY <3>1, FS_Interval
    <3> QED  BY <1>1, <3>2
  <2>7. Cardinality(C) \in Nat
    BY <2>4, FS_CardinalityType
  <2> QED  BY <1>1, <2>4, <2>5, <2>6, <2>7
<1>3. PICK e \in F : \A f \in F : e <= f
  <2>1. F \in SUBSET Nat
    BY <1>1
  <2> QED  BY <1>2, <2>1, Smallest
<1>4. e \in N /\ ~HasEntry(d, i, e) /\ \A f \in 0 .. e - 1 : HasEntry(d, i, f)
  <2>1. ASSUME NEW f \in 0 .. e - 1 PROVE HasEntry(d, i, f)
    <3>1. f \in N /\ ~(e <= f)
      BY <1>1, <1>3
    <3> QED  BY <3>1, <1>3
  <2> QED  BY <2>1, <1>3
<1> QED  BY <1>4 DEF FirstEmpty

\* New blocks hold no entries yet.
LEMMA GrownEntries ==
  ASSUME NEW d, NEW x, WF(d), Grown(d, x), NEW i \in DOMAIN d.ptr, NEW e
  PROVE  /\ HasEntry(x, i, e) <=> HasEntry(d, i, e)
         /\ HasEntry(d, i, e) => Entry(x, i, e) = Entry(d, i, e)
<1>1. x.cells = d.cells /\ \A c \in DOMAIN d.cells : c[1] \in d.used
  BY DEF Grown, WF, InodesOK
<1> DEFINE p == EntryPtr(e)
           c == <<x.ptr[i][p], e % PerBlock>>
<1>2. p \in DOMAIN d.ptr[i] => p \in DOMAIN x.ptr[i] /\ x.ptr[i][p] = d.ptr[i][p]
  BY DEF Grown
<1>3. p \in DOMAIN x.ptr[i] /\ p \notin DOMAIN d.ptr[i] => c \notin DOMAIN d.cells
  <2> HAVE p \in DOMAIN x.ptr[i] /\ p \notin DOMAIN d.ptr[i]
  <2>1. x.ptr[i][p] \notin d.used
    BY DEF Grown
  <2>2. c[1] = x.ptr[i][p]
    OBVIOUS
  <2> HIDE DEF c
  <2> QED  BY <1>1, <2>1, <2>2
<1> QED  BY <1>1, <1>2, <1>3 DEF HasEntry, Entry

LEMMA GrownFirstEmpty ==
  ASSUME NEW d, NEW x, WF(d), WF(x), Room(d), Grown(d, x), NEW i \in DOMAIN d.ptr
  PROVE  FirstEmpty(x, i) = FirstEmpty(d, i)
<1> DEFINE e == FirstEmpty(d, i)
           f == FirstEmpty(x, i)
<1>1. Room(x) /\ i \in DOMAIN x.ptr
  BY DEF Room, Grown
<1>2. e \in 0 .. MaxCalls /\ ~HasEntry(d, i, e) /\ \A g \in 0 .. e - 1 : HasEntry(d, i, g)
  BY FirstEmptyFacts
<1>3. f \in 0 .. MaxCalls /\ ~HasEntry(x, i, f) /\ \A g \in 0 .. f - 1 : HasEntry(x, i, g)
  BY <1>1, FirstEmptyFacts
<1> HIDE DEF e, f
<1>4. \A g : HasEntry(x, i, g) <=> HasEntry(d, i, g)
  BY GrownEntries
<1>5. MaxCalls \in Nat
  BY RamDiskAssumption
<1>6. ~(e < f) /\ ~(f < e)
  BY <1>2, <1>3, <1>4, <1>5
<1> QED  BY <1>2, <1>3, <1>5, <1>6 DEF e, f

--------------------------------------------------------------------------------
(* Lookups                                                                 *)

LEMMA MinFacts ==
  ASSUME NEW S \in SUBSET Nat, S # {}
  PROVE  Min(S) \in S /\ \A m \in S : Min(S) <= m
BY Smallest DEF Min

IsWalk(w) ==
  w = [disk |-> w.disk, inode |-> w.inode, type |-> w.type, at |-> w.at,
       missing |-> w.missing, through |-> w.through, confused |-> w.confused]

\* After k components of the path.
GoodWalk(d, w, k) ==
  /\ IsWalk(w) /\ WF(w.disk) /\ Grown(d, w.disk) /\ w.inode \in DOMAIN d.ptr
  /\ w.missing = 0 => w.at = k + 1
  /\ w.missing # 0 => /\ w.missing \in 1 .. k
                      /\ EntryPtr(FirstEmpty(w.disk, w.inode)) \in DOMAIN w.disk.ptr[w.inode]

\* The entries that a lookup in directory i takes for n.
Same(d, i, n) == {f \in 0 .. FirstEmpty(d, i) - 1 : <<n, Entry(d, i, f).name>> \in Prefix}

LEMMA SameFacts ==
  ASSUME NEW d, WF(d), Room(d), NEW i \in DOMAIN d.ptr, NEW n
  PROVE  /\ Same(d, i, n) \in SUBSET Nat /\ \A f \in Same(d, i, n) : HasEntry(d, i, f)
         /\ Same(d, i, n) # {} =>
              LET entry == Entry(d, i, Min(Same(d, i, n)))
              IN entry.inode \in d.inodes /\ entry.inode \in DOMAIN d.ptr
<1>1. FirstEmpty(d, i) \in Nat /\ \A f \in 0 .. FirstEmpty(d, i) - 1 : HasEntry(d, i, f)
  BY FirstEmptyFacts, RamDiskAssumption
<1>2. Same(d, i, n) \in SUBSET Nat /\ \A f \in Same(d, i, n) : HasEntry(d, i, f)
  BY <1>1 DEF Same
<1>3. ASSUME Same(d, i, n) # {} PROVE HasEntry(d, i, Min(Same(d, i, n)))
  BY <1>2, <1>3, MinFacts
<1>4. \A f : HasEntry(d, i, f) => Entry(d, i, f).inode \in d.inodes
  BY DEF HasEntry, Entry, WF, InodesOK
<1>5. d.inodes \subseteq DOMAIN d.ptr
  BY DEF WF, InodesOK
<1> QED  BY <1>2, <1>3, <1>4, <1>5

\* Descend, as a step from w to v: nothing is left to do, nothing is found, or an entry is.
Stays(w, v) == w.missing # 0 /\ v = w
Misses(w, n, v) ==
  /\ w.missing = 0 /\ Same(w.disk, w.inode, n) = {} /\ IsWalk(v)
  /\ v.missing = w.at /\ v.inode = w.inode /\ v.at = w.at + 1
  /\ v.disk = Ensure(w.disk, w.inode, EntryPtr(FirstEmpty(w.disk, w.inode)))
  /\ v.confused = w.confused
Finds(w, n, c, v) ==
  /\ w.missing = 0 /\ Same(w.disk, w.inode, n) # {} /\ IsWalk(v)
  /\ v.missing = 0 /\ v.at = w.at + 1 /\ v.disk = w.disk
  /\ LET entry == Entry(w.disk, w.inode, Min(Same(w.disk, w.inode, n)))
     IN /\ v.inode = entry.inode /\ v.type = entry.type
        /\ v.confused <=> w.confused \/ entry.called # c

LEMMA DescendCases ==
  ASSUME NEW w, IsWalk(w), NEW n, NEW c
  PROVE  LET v == Descend(w, n, c) IN Stays(w, v) \/ Misses(w, n, v) \/ Finds(w, n, c, v)
<1> DEFINE e == FirstEmpty(w.disk, w.inode)
           same == Same(w.disk, w.inode, n)
           entry == Entry(w.disk, w.inode, Min(same))
           v == Descend(w, n, c)
           t == w.through \/ w.type = REG
           u == w.confused \/ entry.called # c
           next == [w EXCEPT !.at = @ + 1, !.through = t]
           x == Ensure(w.disk, w.inode, EntryPtr(e))
<1>1. same = {f \in 0 .. e - 1 : <<n, Entry(w.disk, w.inode, f).name>> \in Prefix}
  BY DEF Same
<1> HIDE DEF same
<1>2. next = [disk |-> w.disk, inode |-> w.inode, type |-> w.type, at |-> w.at + 1,
              missing |-> w.missing, through |-> t, confused |-> w.confused]
  <2> DEFINE m == [w EXCEPT !.at = @ + 1]
  <2>1. m = [disk |-> w.disk, inode |-> w.inode, type |-> w.type, at |-> w.at + 1,
             missing |-> w.missing, through |-> w.through, confused |-> w.confused]
    BY DEF IsWalk
  <2>2. next = [m EXCEPT !.through = t]
    BY DEF IsWalk
  <2> HIDE DEF m, t, next
  <2> QED  BY <2>1, <2>2
<1>3. v = CASE w.missing # 0 -> w
            [] w.missing = 0 /\ same = {} -> [next EXCEPT !.missing = w.at, !.disk = x]
            [] OTHER -> [next EXCEPT !.inode = entry.inode, !.type = entry.type, !.confused = u]
  <2> USE <1>1 DEF Descend
  <2> QED  OBVIOUS
<1> HIDE DEF next, t, u, entry, x
<1>4. CASE w.missing # 0
  <2>1. v = w
    BY <1>3, <1>4
  <2> QED  BY <1>4, <2>1 DEF Stays
<1>5. CASE w.missing = 0 /\ same = {}
  <2>1. v = [next EXCEPT !.missing = w.at, !.disk = x]
    BY <1>3, <1>5
  <2>2. v = [disk |-> x, inode |-> w.inode, type |-> w.type, at |-> w.at + 1,
             missing |-> w.at, through |-> t, confused |-> w.confused]
    BY <1>2, <2>1
  <2> HIDE DEF v
  <2>3. IsWalk(v) /\ v.missing = w.at /\ v.inode = w.inode /\ v.at = w.at + 1 /\ v.disk = x
        /\ v.through = t /\ v.confused = w.confused
    BY <2>2 DEF IsWalk
  <2> QED  BY <1>5, <2>3 DEF same, x, e, v, Misses
<1>6. CASE w.missing = 0 /\ same # {}
  <2>1. v = [next EXCEPT !.inode = entry.inode, !.type = entry.type, !.confused = u]
    BY <1>3, <1>6
  <2>2. v = [disk |-> w.disk, inode |-> entry.inode, type |-> entry.type, at |-> w.at + 1,
             missing |-> w.missing, through |-> t, confused |-> u]
    BY <1>2, <2>1
  <2> HIDE DEF v
  <2>3. IsWalk(v) /\ v.missing = 0 /\ v.inode = entry.inode /\ v.type = entry.type
        /\ v.at = w.at + 1 /\ v.disk = w.disk /\ v.through = t /\ v.confused = u
    BY <1>6, <2>2 DEF IsWalk
  <2>4. v.confused <=> w.confused \/ entry.called # c
    BY <2>3 DEF u
  <2> HIDE DEF u
  <2> QED  BY <1>6, <2>3, <2>4 DEF same, entry, v, Finds
<1> QED  BY <1>4, <1>5, <1>6

LEMMA DescendFacts ==
  ASSUME NEW d, WF(d), Room(d), NEW k \in Nat, NEW w, GoodWalk(d, w, k), NEW n, NEW c
  PROVE  GoodWalk(d, Descend(w, n, c), k + 1)
<1> DEFINE v == Descend(w, n, c)
           e == FirstEmpty(w.disk, w.inode)
           same == Same(w.disk, w.inode, n)
           entry == Entry(w.disk, w.inode, Min(same))
<1>1. /\ IsWalk(w) /\ WF(w.disk) /\ Grown(d, w.disk) /\ w.inode \in DOMAIN d.ptr
      /\ Room(w.disk) /\ DOMAIN w.disk.ptr = DOMAIN d.ptr
  BY DEF GoodWalk, Room, Grown
<1>2. CASE Stays(w, v)
  <2>1. 1 .. k \subseteq 1 .. k + 1
    OBVIOUS
  <2> QED  BY <1>2, <2>1 DEF GoodWalk, Stays
<1>3. CASE Misses(w, n, v)
  <2> HIDE DEF v
  <2>5. /\ w.missing = 0 /\ IsWalk(v) /\ v.missing = w.at /\ v.inode = w.inode
        /\ v.disk = Ensure(w.disk, w.inode, EntryPtr(e))
    BY <1>3 DEF Misses
  <2>1. WF(v.disk) /\ Grown(w.disk, v.disk) /\ EntryPtr(e) \in DOMAIN v.disk.ptr[w.inode]
    BY <1>1, <2>5, EnsureFacts
  <2>2. Grown(d, v.disk)
    BY <1>1, <2>1, GrownTrans
  <2>3. FirstEmpty(v.disk, v.inode) = e
    BY <1>1, <2>5, <2>1, GrownFirstEmpty
  <2>4. v.missing = k + 1 /\ k + 1 # 0 /\ k + 1 \in 1 .. k + 1
    BY <2>5 DEF GoodWalk
  <2> HIDE DEF e
  <2> QED  BY <1>1, <2>5, <2>1, <2>2, <2>3, <2>4 DEF GoodWalk, v
<1>4. CASE Finds(w, n, c, v)
  <2> HIDE DEF v
  <2>3. /\ w.missing = 0 /\ same # {} /\ IsWalk(v) /\ v.missing = 0 /\ v.inode = entry.inode
        /\ v.at = w.at + 1 /\ v.disk = w.disk
    BY <1>4 DEF Finds
  <2>1. v.inode \in DOMAIN d.ptr
    BY <1>1, <2>3, SameFacts
  <2>2. v.at = (k + 1) + 1
    BY <2>3 DEF GoodWalk
  <2> HIDE DEF same, entry
  <2> QED  BY <1>1, <2>3, <2>1, <2>2 DEF GoodWalk, v
<1> QED  BY <1>1, <1>2, <1>3, <1>4, DescendCases

Start(d) == [disk |-> d, inode |-> Root, type |-> DIR, at |-> 1, missing |-> 0,
             through |-> FALSE, confused |-> FALSE]

GetFileRun(f, d, path, called) ==
  f = [k \in 0 .. Len(path) |-> IF k = 0 THEN Start(d) ELSE Descend(f[k - 1], path[k], called[k])]

LEMMA GetFileDef ==
  ASSUME NEW d, NEW path, NEW called, Len(path) \in Nat
  PROVE  \E f : GetFileRun(f, d, path, called) /\ GetFile(d, path, called) = f[Len(path)]
<1> DEFINE Eq(f, m) == f = [k \in 0 .. m |-> IF k = 0 THEN Start(d) ELSE Descend(f[k - 1], path[k], called[k])]
           S == {m \in Nat : \E f : Eq(f, m)}
<1>1. 0 \in S
  <2>1. Eq([k \in 0 .. 0 |-> Start(d)], 0)
    OBVIOUS
  <2> QED  BY <2>1
<1>2. ASSUME NEW m \in Nat, m \in S PROVE m + 1 \in S
  <2>1. PICK g : Eq(g, m)
    BY <1>2
  <2> DEFINE h == [k \in 0 .. m + 1 |-> IF k = 0 THEN Start(d) ELSE Descend(g[k - 1], path[k], called[k])]
  <2>2. \A k \in 0 .. m : h[k] = g[k]
    BY <2>1
  <2>3. \A k \in 0 .. m + 1 : k # 0 => k - 1 \in 0 .. m
    OBVIOUS
  <2>4. Eq(h, m + 1)
    BY <2>2, <2>3
  <2> HIDE DEF h
  <2> QED  BY <2>4
<1> HIDE DEF S
<1>3. \A m \in Nat : m \in S
  BY <1>1, <1>2, Induction
<1> DEFINE after == CHOOSE f : Eq(f, Len(path))
<1>4. Eq(after, Len(path))
  BY <1>3 DEF S
<1>5. GetFile(d, path, called) = after[Len(path)]
  BY DEF GetFile, Start
<1>6. GetFileRun(after, d, path, called)
  BY <1>4 DEF GetFileRun
<1> QED  BY <1>5, <1>6

LEMMA GetFileFacts ==
  ASSUME NEW d, WF(d), Room(d), NEW path, NEW called, Len(path) \in Nat
  PROVE  \E a : /\ GetFileRun(a, d, path, called) /\ GetFile(d, path, called) = a[Len(path)]
                /\ \A k \in 0 .. Len(path) : GoodWalk(d, a[k], k)
<1> DEFINE n == Len(path)
<1>1. PICK a : GetFileRun(a, d, path, called) /\ GetFile(d, path, called) = a[n]
  BY GetFileDef
<1> DEFINE S == {k \in Nat : k <= n => GoodWalk(d, a[k], k)}
<1>2. 0 \in S
  <2>1. a[0] = Start(d)
    BY <1>1 DEF GetFileRun
  <2> DEFINE w == Start(d)
  <2>2. IsWalk(w) /\ w.disk = d /\ w.inode = Root /\ w.missing = 0 /\ w.at = 0 + 1
    BY DEF IsWalk, Start
  <2>3. Root \in DOMAIN d.ptr
    BY DEF WF, InodesOK
  <2> HIDE DEF w
  <2>4. GoodWalk(d, w, 0)
    BY <2>2, <2>3, GrownSame DEF GoodWalk
  <2> QED  BY <2>1, <2>4 DEF w
<1>3. ASSUME NEW k \in Nat, k \in S PROVE k + 1 \in S
  <2> SUFFICES ASSUME k + 1 <= n PROVE GoodWalk(d, a[k + 1], k + 1)
    OBVIOUS
  <2> DEFINE x == a[k]
             y == a[k + 1]
  <2>1. y = Descend(x, path[k + 1], called[k + 1])
    <3>1. k + 1 \in 0 .. n /\ k + 1 # 0 /\ (k + 1) - 1 = k
      OBVIOUS
    <3> QED  BY <1>1, <3>1 DEF GetFileRun
  <2>2. GoodWalk(d, x, k)
    BY <1>3
  <2> HIDE DEF x, y
  <2>3. GoodWalk(d, y, k + 1)
    BY <2>1, <2>2, DescendFacts
  <2> QED  BY <2>3 DEF y
<1> HIDE DEF S
<1>4. \A k \in Nat : k \in S
  BY <1>2, <1>3, Induction
<1>5. \A k \in 0 .. n : GoodWalk(d, a[k], k)
  BY <1>4 DEF S
<1> QED  BY <1>1, <1>5

--------------------------------------------------------------------------------
(* New files                                                               *)

\* d with a new inode i without blocks, which the entry at cell names.
WithEntry(d, i, cell, entry) ==
  [used |-> d.used, inodes |-> d.inodes \cup {i}, ptr |-> Put(d.ptr, i, <<>>),
   size |-> Put(d.size, i, 0), cells |-> Put(d.cells, cell, entry), bytes |-> d.bytes]

LEMMA WithEntryFacts ==
  ASSUME NEW d, WF(d), NEW i \in Nat, i > Root, i \notin d.inodes,
         NEW cell, cell \notin DOMAIN d.cells, cell[1] \in d.used,
         NEW entry, entry.inode = i, <<entry.called, entry.name>> \in Prefix
  PROVE  LET x == WithEntry(d, i, cell, entry)
         IN /\ WF(x) /\ i \in DOMAIN x.ptr
            /\ Cardinality(DOMAIN x.cells) = Cardinality(DOMAIN d.cells) + 1
<1> DEFINE x == WithEntry(d, i, cell, entry)
<1>1. /\ x.used = d.used /\ x.inodes = d.inodes \cup {i} /\ x.ptr = Put(d.ptr, i, <<>>)
      /\ x.cells = Put(d.cells, cell, entry) /\ IsDisk(x)
  BY DEF WithEntry, IsDisk
<1> HIDE DEF x
<1>2. i \notin DOMAIN d.ptr
  BY DEF WF, InodesOK, Root
<1>3. /\ DOMAIN x.ptr = DOMAIN d.ptr \cup {i} /\ DOMAIN x.ptr[i] = {}
      /\ \A j \in DOMAIN d.ptr : x.ptr[j] = d.ptr[j]
  BY <1>1, <1>2 DEF Put
<1>4. /\ DOMAIN x.cells = DOMAIN d.cells \cup {cell} /\ x.cells[cell] = entry
      /\ \A c \in DOMAIN d.cells : x.cells[c] = d.cells[c]
  BY <1>1 DEF Put
<1>5. BlocksOK(x)
  <2>1. /\ \A j \in DOMAIN x.ptr : \A p \in DOMAIN x.ptr[j] :
              j \in DOMAIN d.ptr /\ p \in DOMAIN d.ptr[j] /\ x.ptr[j][p] = d.ptr[j][p]
    BY <1>3
  <2>2. \A b \in x.used : \E j \in DOMAIN x.ptr : \E p \in DOMAIN x.ptr[j] : x.ptr[j][p] = b
    <3> TAKE b \in x.used
    <3>1. PICK j \in DOMAIN d.ptr : \E p \in DOMAIN d.ptr[j] : d.ptr[j][p] = b
      BY <1>1 DEF WF, BlocksOK
    <3> QED  BY <3>1, <1>3
  <2>3. x.used \subseteq Nat /\ IsFiniteSet(x.used)
    BY <1>1 DEF WF, BlocksOK
  <2>4. \A j \in DOMAIN x.ptr : \A p \in DOMAIN x.ptr[j] : x.ptr[j][p] \in x.used
    BY <2>1, <1>1 DEF WF, BlocksOK
  <2>5. \A j, k \in DOMAIN x.ptr : \A p \in DOMAIN x.ptr[j], q \in DOMAIN x.ptr[k] :
          x.ptr[j][p] = x.ptr[k][q] => j = k /\ p = q
    BY <2>1 DEF WF, BlocksOK
  <2> QED  BY <2>2, <2>3, <2>4, <2>5 DEF BlocksOK
<1>6. IsFiniteSet(DOMAIN x.cells) /\ Cardinality(DOMAIN x.cells) = Cardinality(DOMAIN d.cells) + 1
  <2>1. IsFiniteSet(DOMAIN d.cells)
    BY DEF WF, InodesOK
  <2> DEFINE C == DOMAIN d.cells
  <2> HIDE DEF C
  <2>2. IsFiniteSet(C) /\ cell \notin C /\ DOMAIN x.cells = C \cup {cell}
    BY <2>1, <1>4 DEF C
  <2>3. IsFiniteSet(C \cup {cell}) /\ Cardinality(C \cup {cell}) = Cardinality(C) + 1
    BY <2>2, FS_AddElement
  <2> QED  BY <2>2, <2>3 DEF C
<1>7. InodesOK(x)
  <2> DEFINE I == d.inodes
  <2>8. I \subseteq Nat /\ IsFiniteSet(I) /\ \A j \in I : j > Root
    BY DEF WF, InodesOK
  <2>1. x.inodes \subseteq Nat /\ IsFiniteSet(x.inodes) /\ \A j \in x.inodes : j > Root
    <3> HIDE DEF I
    <3>1. IsFiniteSet(I \cup {i})
      BY <2>8, FS_AddElement
    <3>2. x.inodes = I \cup {i}
      BY <1>1 DEF I
    <3> QED  BY <2>8, <3>1, <3>2
  <2>2. DOMAIN x.ptr = {Root} \cup x.inodes
    BY <1>1, <1>3 DEF WF, InodesOK
  <2>3. \A c \in DOMAIN x.cells : c[1] \in x.used /\ x.cells[c].inode \in x.inodes
    BY <1>1, <1>4 DEF WF, InodesOK
  <2>4. \A j \in x.inodes : \E c \in DOMAIN x.cells : x.cells[c].inode = j
    BY <1>1, <1>4 DEF WF, InodesOK
  <2>5. \A c \in DOMAIN d.cells : d.cells[c].inode # i
    BY DEF WF, InodesOK
  <2>6. \A c, e \in DOMAIN x.cells : x.cells[c].inode = x.cells[e].inode => c = e
    BY <1>4, <2>5 DEF WF, InodesOK
  <2> QED  BY <1>6, <2>1, <2>2, <2>3, <2>4, <2>6 DEF InodesOK
<1>8. NamesOK(x)
  BY <1>4 DEF WF, NamesOK
<1> QED  BY <1>1, <1>3, <1>5, <1>6, <1>7, <1>8 DEF WF, x

\* The entry that CreateFile makes.
NewEntry(w, path, called, type) ==
  [name |-> path[w.missing], type |-> type, inode |-> FirstFree(w.disk.inodes, 3),
   called |-> called[w.missing]]
Made(w, path, called, type) ==
  WithEntry(w.disk, FirstFree(w.disk.inodes, 3),
            <<w.disk.ptr[w.inode][EntryPtr(FirstEmpty(w.disk, w.inode))],
              FirstEmpty(w.disk, w.inode) % PerBlock>>,
            NewEntry(w, path, called, type))

LEMMA CreateFileFacts ==
  ASSUME NEW w, WF(w.disk), Room(w.disk), w.inode \in DOMAIN w.disk.ptr,
         EntryPtr(FirstEmpty(w.disk, w.inode)) \in DOMAIN w.disk.ptr[w.inode],
         NEW path, NEW called, <<called[w.missing], path[w.missing]>> \in Prefix,
         NEW type, NEW n \in Nat
  PROVE  LET m == Made(w, path, called, type)
             x == CreateFile(w, path, called, type, n)
         IN /\ WF(m) /\ WF(x) /\ Grown(m, x)
            /\ Cardinality(DOMAIN x.cells) = Cardinality(DOMAIN w.disk.cells) + 1
<1> DEFINE d == w.disk
           e == FirstEmpty(d, w.inode)
           i == FirstFree(d.inodes, 3)
           cell == <<d.ptr[w.inode][EntryPtr(e)], e % PerBlock>>
           entry == NewEntry(w, path, called, type)
           m == Made(w, path, called, type)
           x == CreateFile(w, path, called, type, n)
<1>1. i \in Nat /\ i > Root /\ i \notin d.inodes
  BY FirstFreeFacts DEF WF, InodesOK, Root
<1>2. cell \notin DOMAIN d.cells
  <2>1. ~HasEntry(d, w.inode, e)
    BY FirstEmptyFacts
  <2> QED  BY <2>1 DEF HasEntry
<1>3. cell[1] \in d.used
  BY DEF WF, BlocksOK
<1>4. entry.inode = i /\ <<entry.called, entry.name>> \in Prefix
  BY DEF NewEntry
<1>5. m = WithEntry(d, i, cell, entry)
  BY DEF Made
<1>6. WF(m) /\ i \in DOMAIN m.ptr /\ Cardinality(DOMAIN m.cells) = Cardinality(DOMAIN d.cells) + 1
  <2> HIDE DEF i, cell, entry, m
  <2> QED  BY <1>1, <1>2, <1>3, <1>4, <1>5, WithEntryFacts
<1>7. m = [d EXCEPT !.inodes = @ \cup {i}, !.ptr = Put(@, i, <<>>), !.size = Put(@, i, 0),
                    !.cells = Put(@, cell, entry)]
  <2> HIDE DEF i, cell, entry, m
  <2> DEFINE P == Put(d.ptr, i, <<>>)
             Z == Put(d.size, i, 0)
             C == Put(d.cells, cell, entry)
             m1 == [d EXCEPT !.inodes = d.inodes \cup {i}]
             m2 == [m1 EXCEPT !.ptr = P]
             m3 == [m2 EXCEPT !.size = Z]
             m4 == [m3 EXCEPT !.cells = C]
  <2> HIDE DEF P, Z, C
  <2>1. m1 = [used |-> d.used, inodes |-> d.inodes \cup {i}, ptr |-> d.ptr, size |-> d.size,
              cells |-> d.cells, bytes |-> d.bytes]
    BY DEF WF, IsDisk
  <2> HIDE DEF m1
  <2>2. m2 = [used |-> d.used, inodes |-> d.inodes \cup {i}, ptr |-> P, size |-> d.size,
              cells |-> d.cells, bytes |-> d.bytes]
    BY <2>1
  <2> HIDE DEF m2
  <2>3. m3 = [used |-> d.used, inodes |-> d.inodes \cup {i}, ptr |-> P, size |-> Z,
              cells |-> d.cells, bytes |-> d.bytes]
    BY <2>2
  <2> HIDE DEF m3
  <2>4. m4 = [used |-> d.used, inodes |-> d.inodes \cup {i}, ptr |-> P, size |-> Z,
              cells |-> C, bytes |-> d.bytes]
    BY <2>3
  <2>5. m = m4
    <3> HIDE DEF m4
    <3> QED  BY <2>4, <1>5 DEF WithEntry, P, Z, C
  <2>6. m4 = [d EXCEPT !.inodes = d.inodes \cup {i}, !.ptr = P, !.size = Z, !.cells = C]
    BY DEF m1, m2, m3
  <2>7. [d EXCEPT !.inodes = d.inodes \cup {i}, !.ptr = P, !.size = Z, !.cells = C] =
        [d EXCEPT !.inodes = @ \cup {i}, !.ptr = Put(@, i, <<>>), !.size = Put(@, i, 0),
                  !.cells = Put(@, cell, entry)]
    BY DEF P, Z, C
  <2> HIDE DEF m4
  <2> QED  BY <2>5, <2>6, <2>7
<1>8. x = IF type = REG THEN AllocateBlocks(m, i, n) ELSE m
  BY <1>7 DEF CreateFile, NewEntry
<1> HIDE DEF m, x, i
<1>9. WF(x) /\ Grown(m, x)
  <2>1. WF(AllocateBlocks(m, i, n)) /\ Grown(m, AllocateBlocks(m, i, n))
    BY <1>6, AllocateBlocksFacts
  <2> QED  BY <1>6, <1>8, <2>1, GrownSame
<1>10. x.cells = m.cells
  BY <1>9 DEF Grown
<1> QED  BY <1>6, <1>9, <1>10 DEF m, x

--------------------------------------------------------------------------------
(* Calls                                                                   *)

SizesOK(d) == DOMAIN d.size = DOMAIN d.ptr /\ \A i \in DOMAIN d.ptr : d.size[i] \in Nat

Good(d) == WF(d) /\ SizesOK(d)

LEMMA GrownSizes ==
  ASSUME NEW d, NEW x, Grown(d, x), SizesOK(d)
  PROVE  SizesOK(x)
BY DEF Grown, SizesOK

LEMMA GrownCells ==
  ASSUME NEW d, NEW x, Grown(d, x)
  PROVE  DOMAIN x.cells = DOMAIN d.cells /\ (Room(d) => Room(x))
BY DEF Grown, Room

LEMMA Lookup ==
  ASSUME NEW d, Good(d), Room(d), NEW path, NEW called, Len(path) \in Nat
  PROVE  LET w == GetFile(d, path, called)
         IN /\ GoodWalk(d, w, Len(path)) /\ Good(w.disk) /\ Room(w.disk) /\ Grown(d, w.disk)
            /\ DOMAIN w.disk.cells = DOMAIN d.cells /\ w.inode \in DOMAIN w.disk.ptr
<1> DEFINE w == GetFile(d, path, called)
<1>1. WF(d)
  BY DEF Good
<1>2. GoodWalk(d, w, Len(path))
  <2>1. PICK a : /\ GetFile(d, path, called) = a[Len(path)]
                 /\ \A k \in 0 .. Len(path) : GoodWalk(d, a[k], k)
    BY <1>1, GetFileFacts
  <2> QED  BY <2>1
<1> HIDE DEF w
<1>3. Grown(d, w.disk) /\ WF(w.disk) /\ w.inode \in DOMAIN w.disk.ptr
  BY <1>2 DEF GoodWalk, Grown
<1> QED  BY <1>2, <1>3, GrownSizes, GrownCells DEF Good, w

\* path is what MakeDir may make of called.
StandsFor(path, called) ==
  Len(path) \in Nat /\ \A k \in 1 .. Len(path) : <<called[k], path[k]>> \in Prefix

LEMMA Creation ==
  ASSUME NEW d, Good(d), Room(d), NEW path, NEW called, StandsFor(path, called),
         NEW w, GoodWalk(d, w, Len(path)), w.missing # 0, NEW type, NEW n \in Nat
  PROVE  LET m == Made(w, path, called, type)
             x == CreateFile(w, path, called, type, n)
         IN /\ Good(m) /\ Good(x) /\ Grown(m, x)
            /\ Cardinality(DOMAIN x.cells) = Cardinality(DOMAIN d.cells) + 1
<1> DEFINE m == Made(w, path, called, type)
           x == CreateFile(w, path, called, type, n)
<1>1. /\ WF(w.disk) /\ SizesOK(w.disk) /\ Room(w.disk) /\ w.inode \in DOMAIN w.disk.ptr
      /\ DOMAIN w.disk.cells = DOMAIN d.cells
      /\ EntryPtr(FirstEmpty(w.disk, w.inode)) \in DOMAIN w.disk.ptr[w.inode]
      /\ <<called[w.missing], path[w.missing]>> \in Prefix
  BY GrownSizes, GrownCells DEF GoodWalk, Good, Grown, StandsFor
<1>2. /\ WF(m) /\ WF(x) /\ Grown(m, x)
      /\ Cardinality(DOMAIN x.cells) = Cardinality(DOMAIN d.cells) + 1
  BY <1>1, CreateFileFacts
<1>3. SizesOK(m)
  <2> DEFINE i == FirstFree(w.disk.inodes, 3)
  <2> HIDE DEF i
  <2>1. m.ptr = Put(w.disk.ptr, i, <<>>) /\ m.size = Put(w.disk.size, i, 0)
    BY DEF Made, WithEntry, i
  <2> HIDE DEF m
  <2> QED  BY <2>1, <1>1 DEF SizesOK, Put
<1>4. SizesOK(x)
  <2> HIDE DEF m, x
  <2> QED  BY <1>2, <1>3, GrownSizes
<1> QED  BY <1>2, <1>3, <1>4 DEF Good

LEMMA WrittenFacts ==
  ASSUME NEW d, Good(d), NEW i \in DOMAIN d.ptr, NEW content, Len(content) \in Nat
  PROVE  LET x == Written(d, i, content)
         IN Good(x) /\ DOMAIN x.cells = DOMAIN d.cells
<1> DEFINE x == Written(d, i, content)
           full == EnsureAll(d, i, Len(content))
           block(k) == full.ptr[i][FilePtr(k - 1)]
           new == {block(k) : k \in DOMAIN content}
           bytes == [b \in DOMAIN full.bytes \cup new |->
                       IF b \in new THEN content[Min({k \in DOMAIN content : block(k) = b})]
                       ELSE full.bytes[b]]
           size == [full.size EXCEPT ![i] = Len(content)]
<1>1. WF(full) /\ Grown(d, full) /\ SizesOK(full) /\ i \in DOMAIN full.ptr
  BY EnsureAllFacts, GrownSizes DEF Good, Grown
<1>2. x = [full EXCEPT !.size[i] = Len(content), !.bytes = bytes]
  BY DEF Written
<1> HIDE DEF bytes, full
<1>3. x = [used |-> full.used, inodes |-> full.inodes, ptr |-> full.ptr, size |-> size,
           cells |-> full.cells, bytes |-> bytes]
  BY <1>1, <1>2 DEF WF, IsDisk
<1> HIDE DEF x
<1>4. /\ x.used = full.used /\ x.inodes = full.inodes /\ x.ptr = full.ptr /\ x.size = size
      /\ x.cells = full.cells /\ IsDisk(x)
  BY <1>3 DEF IsDisk
<1>5. BlocksOK(x)
  BY <1>1, <1>4 DEF WF, BlocksOK
<1>6. InodesOK(x)
  BY <1>1, <1>4 DEF WF, InodesOK
<1>7. NamesOK(x)
  BY <1>1, <1>4 DEF WF, NamesOK
<1>8. SizesOK(x)
  BY <1>1, <1>4 DEF SizesOK
<1>9. x.cells = d.cells
  BY <1>1, <1>4 DEF Grown
<1> QED  BY <1>4, <1>5, <1>6, <1>7, <1>8, <1>9 DEF Good, WF, x

IInv ==
  /\ Good(disk) /\ calls \in 0 .. MaxCalls
  /\ Cardinality(DOMAIN disk.cells) \in 0 .. calls

LEMMA Initially == Init => IInv
<1> SUFFICES ASSUME Init PROVE IInv
  OBVIOUS
<1> DEFINE d == disk
<1>1. /\ IsDisk(d) /\ d.used = {} /\ d.inodes = {} /\ d.ptr = [i \in {Root} |-> <<>>]
      /\ d.size = [i \in {Root} |-> 0] /\ d.cells = <<>>
  BY DEF Init, IsDisk
<1> HIDE DEF d
<1>2. DOMAIN d.cells = {} /\ DOMAIN d.ptr = {Root} /\ DOMAIN d.ptr[Root] = {}
  BY <1>1
<1>3. IsFiniteSet({}) /\ Cardinality({}) = 0
  BY FS_EmptySet
<1>4. BlocksOK(d)
  BY <1>1, <1>2, <1>3 DEF BlocksOK
<1>5. InodesOK(d)
  BY <1>1, <1>2, <1>3 DEF InodesOK
<1>6. NamesOK(d) /\ SizesOK(d)
  BY <1>1, <1>2 DEF NamesOK, SizesOK
<1>7. calls = 0 /\ 0 \in 0 .. MaxCalls /\ 0 \in 0 .. 0
  BY RamDiskAssumption DEF Init
<1> QED  BY <1>1, <1>2, <1>3, <1>4, <1>5, <1>6, <1>7 DEF IInv, Good, WF, d

LEMMA Paths ==
  ASSUME NEW path \in Path
  PROVE  /\ Len(path) \in Nat /\ path \in Seq(Name)
         /\ StandsFor(path, path)
<1>1. path \in Seq(Name) /\ \A n \in Name : <<n, n>> \in Prefix
  BY RamDiskAssumption
<1>2. \A k \in 1 .. Len(path) : path[k] \in Name
  BY <1>1
<1> QED  BY <1>1, <1>2 DEF StandsFor

\* The path that MakeDir makes.
LEMMA MadePaths ==
  ASSUME NEW path \in Path, NEW stray \in Stray, NEW n \in Name, <<path[Len(path)], n>> \in Prefix
  PROVE  LET called == path \o stray
             made == [called EXCEPT ![Len(path)] = n]
         IN Len(made) \in Nat /\ StandsFor(made, called)
<1> DEFINE called == path \o stray
           m == Len(called)
           g(k) == IF k = Len(path) THEN n ELSE called[k]
           made == [called EXCEPT ![Len(path)] = n]
<1>1. path \in Seq(Name) /\ stray \in Seq(Name) /\ Len(path) \in Nat
  BY Paths, RamDiskAssumption
<1>2. called \in Seq(Name) /\ m \in Nat /\ DOMAIN called = 1 .. m
  BY <1>1, ConcatProperties
<1>3. Len(path) \in 1 .. m => called[Len(path)] = path[Len(path)]
  BY <1>1, ConcatProperties
<1> HIDE DEF called, m
<1>4. made = [k \in 1 .. m |-> g(k)]
  BY <1>2
<1> HIDE DEF g, made
<1>5. Len([k \in 1 .. m |-> g(k)]) = m
  BY <1>2
<1>6. Len(made) = m
  BY <1>4, <1>5
<1>7. ASSUME NEW k \in 1 .. m PROVE <<called[k], made[k]>> \in Prefix
  <2>1. called[k] \in Name /\ <<called[k], called[k]>> \in Prefix
    BY <1>2, RamDiskAssumption
  <2>2. made[k] = IF k = Len(path) THEN n ELSE called[k]
    BY <1>4 DEF g
  <2> QED  BY <1>3, <2>1, <2>2
<1> QED  BY <1>2, <1>6, <1>7 DEF StandsFor, made, called

LEMMA MakeDirKeeps ==
  ASSUME IInv, NEW path \in Path, MakeDir(path)
  PROVE  IInv'
<1>1. PICK n \in Name, stray \in Stray :
        LET called == path \o stray
            made == [called EXCEPT ![Len(path)] = n]
            w == GetFile(disk, made, called)
        IN /\ <<path[Len(path)], n>> \in Prefix /\ calls' = calls + 1 /\ calls < MaxCalls
           /\ disk' = IF w.missing = 0 THEN w.disk ELSE CreateFile(w, made, called, DIR, 0)
  BY DEF MakeDir, Running, Count
<1> DEFINE called == path \o stray
           made == [called EXCEPT ![Len(path)] = n]
           w == GetFile(disk, made, called)
           x == CreateFile(w, made, called, DIR, 0)
<1>2. Len(made) \in Nat /\ StandsFor(made, called)
  BY <1>1, MadePaths
<1>3. /\ calls < MaxCalls /\ calls' = calls + 1
      /\ disk' = IF w.missing = 0 THEN w.disk ELSE x
  BY <1>1
<1> HIDE DEF made, called
<1>4. Good(disk) /\ Room(disk) /\ Cardinality(DOMAIN disk.cells) \in 0 .. calls /\ calls \in Nat
  BY RamDiskAssumption DEF IInv, Room
<1>5. /\ GoodWalk(disk, w, Len(made)) /\ Good(w.disk)
      /\ DOMAIN w.disk.cells = DOMAIN disk.cells
  BY <1>2, <1>4, Lookup
<1> HIDE DEF w
<1>6. ASSUME w.missing # 0
      PROVE  Good(x) /\ Cardinality(DOMAIN x.cells) = Cardinality(DOMAIN disk.cells) + 1
  <2> DEFINE z == 0
             type == DIR
             y == CreateFile(w, made, called, type, z)
  <2>1. z \in Nat /\ x = y
    OBVIOUS
  <2> HIDE DEF x, y, z, type
  <2>2. Good(y) /\ Cardinality(DOMAIN y.cells) = Cardinality(DOMAIN disk.cells) + 1
    BY <2>1, <1>2, <1>4, <1>5, <1>6, Creation DEF y
  <2> QED  BY <2>1, <2>2
<1> HIDE DEF x
<1>7. Good(disk') /\ Cardinality(DOMAIN (disk').cells) \in 0 .. calls + 1
  <2>1. CASE w.missing = 0
    BY <2>1, <1>3, <1>4, <1>5
  <2>2. CASE w.missing # 0
    <3>1. disk' = x
      BY <2>2, <1>3
    <3> QED  BY <2>2, <3>1, <1>4, <1>6
  <2> QED  BY <2>1, <2>2
<1>8. calls + 1 \in 0 .. MaxCalls
  BY <1>3, <1>4, RamDiskAssumption
<1> QED  BY <1>3, <1>7, <1>8 DEF IInv

LEMMA ReadFileKeeps ==
  ASSUME IInv, NEW path \in Path, ReadFile(path)
  PROVE  IInv'
<1> DEFINE w == GetFile(disk, path, path)
           full == EnsureAll(w.disk, w.inode, w.disk.size[w.inode])
<1>1. /\ calls < MaxCalls /\ calls' = calls + 1
      /\ disk' = IF w.missing = 0 THEN full ELSE w.disk
  BY DEF ReadFile, Running, Count
<1>2. Good(disk) /\ Room(disk) /\ Cardinality(DOMAIN disk.cells) \in 0 .. calls /\ calls \in Nat
  BY RamDiskAssumption DEF IInv, Room
<1>3. /\ Good(w.disk) /\ DOMAIN w.disk.cells = DOMAIN disk.cells /\ w.inode \in DOMAIN w.disk.ptr
  BY <1>2, Paths, Lookup
<1> HIDE DEF w
<1>4. w.disk.size[w.inode] \in Nat
  BY <1>3 DEF Good, SizesOK
<1>5. Good(full) /\ DOMAIN full.cells = DOMAIN w.disk.cells
  BY <1>3, <1>4, EnsureAllFacts, GrownSizes, GrownCells DEF Good
<1> HIDE DEF full
<1>6. Good(disk') /\ Cardinality(DOMAIN (disk').cells) \in 0 .. calls + 1
  BY <1>1, <1>2, <1>3, <1>5
<1>7. calls + 1 \in 0 .. MaxCalls
  BY <1>1, <1>2, RamDiskAssumption
<1> QED  BY <1>1, <1>6, <1>7 DEF IInv

LEMMA WriteFileKeeps ==
  ASSUME IInv, NEW path \in Path, NEW content \in Content, WriteFile(path, content)
  PROVE  IInv'
<1> DEFINE first == GetFile(disk, path, path)
           made == CreateFile(first, path, path, REG, Len(content))
           again == GetFile(made, path, path)
           second == IF first.missing = 0 THEN first ELSE again
           full == Written(second.disk, second.inode, content)
<1>1. /\ calls < MaxCalls /\ calls' = calls + 1
      /\ disk' = IF second.missing = 0 THEN full ELSE second.disk
  BY DEF WriteFile, Running, Count
<1>2. Good(disk) /\ Room(disk) /\ Cardinality(DOMAIN disk.cells) \in 0 .. calls /\ calls \in Nat
  BY RamDiskAssumption DEF IInv, Room
<1>3. Len(content) \in Nat
  BY RamDiskAssumption
<1>4. /\ GoodWalk(disk, first, Len(path)) /\ Good(first.disk)
      /\ DOMAIN first.disk.cells = DOMAIN disk.cells /\ first.inode \in DOMAIN first.disk.ptr
  BY <1>2, Paths, Lookup
<1> HIDE DEF first
<1>5. ASSUME first.missing # 0
      PROVE  Good(made) /\ Cardinality(DOMAIN made.cells) = Cardinality(DOMAIN disk.cells) + 1
  BY <1>2, <1>3, <1>4, <1>5, Paths, Creation
<1> HIDE DEF made
<1>6. ASSUME first.missing # 0
      PROVE  /\ Good(again.disk) /\ again.inode \in DOMAIN again.disk.ptr
             /\ DOMAIN again.disk.cells = DOMAIN made.cells
  <2>1. Room(made)
    BY <1>1, <1>2, <1>5, <1>6, RamDiskAssumption DEF Room
  <2> QED  BY <2>1, <1>5, <1>6, Paths, Lookup
<1> HIDE DEF again
<1>7. /\ Good(second.disk) /\ second.inode \in DOMAIN second.disk.ptr
      /\ Cardinality(DOMAIN second.disk.cells) \in 0 .. calls + 1
  <2>1. CASE first.missing = 0
    BY <2>1, <1>2, <1>4
  <2>2. CASE first.missing # 0
    <3>1. second = again
      BY <2>2
    <3> QED  BY <2>2, <3>1, <1>2, <1>5, <1>6
  <2> QED  BY <2>1, <2>2
<1> HIDE DEF second
<1>8. Good(full) /\ DOMAIN full.cells = DOMAIN second.disk.cells
  BY <1>3, <1>7, WrittenFacts
<1> HIDE DEF full
<1>9. Good(disk') /\ Cardinality(DOMAIN (disk').cells) \in 0 .. calls + 1
  BY <1>1, <1>7, <1>8
<1>10. calls + 1 \in 0 .. MaxCalls
  BY <1>1, <1>2, RamDiskAssumption
<1> QED  BY <1>1, <1>9, <1>10 DEF IInv

LEMMA Invariant == Spec => []IInv
<1>1. IInv /\ [Next]_vars => IInv'
  <2> SUFFICES ASSUME IInv, [Next]_vars PROVE IInv'
    OBVIOUS
  <2>1. ASSUME NEW path \in Path, MakeDir(path) PROVE IInv'
    BY <2>1, MakeDirKeeps
  <2>2. ASSUME NEW path \in Path, ReadFile(path) PROVE IInv'
    BY <2>2, ReadFileKeeps
  <2>3. ASSUME NEW path \in Path, NEW content \in Content, WriteFile(path, content) PROVE IInv'
    BY <2>3, WriteFileKeeps
  <2>4. CASE UNCHANGED vars
    BY <2>4 DEF IInv, vars
  <2> QED  BY <2>1, <2>2, <2>3, <2>4 DEF Next
<1> QED  BY <1>1, Initially, PTL DEF Spec

--------------------------------------------------------------------------------
(* Ownership                                                               *)

\* T has as many elements as the finite set S when f is a bijection from T to S.
LEMMA SameSize ==
  ASSUME NEW S, NEW T, IsFiniteSet(S), NEW f \in [T -> S], \A s \in S : \E t \in T : f[t] = s,
         \A t, u \in T : f[t] = f[u] => t = u
  PROVE  Cardinality(S) = Cardinality(T)
<1> DEFINE g == [s \in S |-> CHOOSE t \in T : f[t] = s]
<1>1. \A s \in S : g[s] \in T /\ f[g[s]] = s
  OBVIOUS
<1>2. g \in [S -> T]
  BY <1>1
<1>3. \A t \in T : f[t] \in S /\ g[f[t]] = t
  BY <1>1
<1> HIDE DEF g
<1>4. g \in Bijection(S, T)
  BY <1>1, <1>2, <1>3 DEF Bijection, Injection, Surjection, IsInjective
<1>5. Cardinality(T) = Cardinality(S)
  BY <1>4, FS_Bijection DEF ExistsBijection
<1> QED  BY <1>5

LEMMA Owned == IInv => OwnedOnce
<1> SUFFICES ASSUME IInv PROVE OwnedOnce
  OBVIOUS
<1>1. WF(disk)
  BY DEF IInv, Good
<1>2. \A x : x \in Pointers <=> \E i \in DOMAIN disk.ptr : \E p \in DOMAIN disk.ptr[i] : x = <<i, p>>
  BY DEF Pointers
<1> DEFINE P == Pointers
           f == [x \in P |-> disk.ptr[x[1]][x[2]]]
<1>3. \A x \in P : /\ x[1] \in DOMAIN disk.ptr /\ x[2] \in DOMAIN disk.ptr[x[1]]
                   /\ x = <<x[1], x[2]>> /\ disk.ptr[x[1]][x[2]] \in disk.used
  <2> TAKE x \in P
  <2>1. PICK i \in DOMAIN disk.ptr : \E p \in DOMAIN disk.ptr[i] : x = <<i, p>>
    BY <1>2
  <2>2. PICK p \in DOMAIN disk.ptr[i] : x = <<i, p>>
    BY <2>1
  <2>3. disk.ptr[i][p] \in disk.used
    BY <1>1 DEF WF, BlocksOK
  <2> QED  BY <2>2, <2>3
<1>4. \A b \in disk.used : \E x \in P : disk.ptr[x[1]][x[2]] = b
  <2> TAKE b \in disk.used
  <2>1. PICK i \in DOMAIN disk.ptr : \E p \in DOMAIN disk.ptr[i] : disk.ptr[i][p] = b
    BY <1>1 DEF WF, BlocksOK
  <2>2. PICK p \in DOMAIN disk.ptr[i] : disk.ptr[i][p] = b
    BY <2>1
  <2>3. <<i, p>> \in P /\ <<i, p>>[1] = i /\ <<i, p>>[2] = p
    BY <1>2
  <2> QED  BY <2>2, <2>3
<1> HIDE DEF P
<1>5. disk.used = {disk.ptr[x[1]][x[2]] : x \in P}
  BY <1>3, <1>4
<1>6. \A x, y \in P : f[x] = f[y] => x = y
  <2> SUFFICES ASSUME NEW x \in P, NEW y \in P, f[x] = f[y] PROVE x = y
    OBVIOUS
  <2>1. disk.ptr[x[1]][x[2]] = disk.ptr[y[1]][y[2]]
    OBVIOUS
  <2>2. x[1] = y[1] /\ x[2] = y[2]
    BY <2>1, <1>1, <1>3 DEF WF, BlocksOK
  <2>3. x = <<x[1], x[2]>> /\ y = <<y[1], y[2]>>
    BY <1>3
  <2> QED  BY <2>2, <2>3
<1>7. Cardinality(disk.used) = Cardinality(P)
  <2>1. f \in [P -> disk.used] /\ \A b \in disk.used : \E x \in P : f[x] = b
    BY <1>3, <1>4
  <2>2. IsFiniteSet(disk.used)
    BY <1>1 DEF WF, BlocksOK
  <2> HIDE DEF f
  <2> QED  BY <1>6, <2>1, <2>2, SameSize
<1> DEFINE C == DOMAIN disk.cells
           I == disk.inodes
           h == [c \in C |-> disk.cells[c].inode]
<1>8. /\ IsFiniteSet(I) /\ h \in [C -> I] /\ \A i \in I : \E c \in C : h[c] = i
      /\ \A c, e \in C : h[c] = h[e] => c = e
  BY <1>1, FS_Subset DEF WF, InodesOK
<1>9. I = {disk.cells[c].inode : c \in C}
  BY <1>1 DEF WF, InodesOK
<1>10. Cardinality(I) = Cardinality(C)
  <2> HIDE DEF h, I, C
  <2> QED  BY <1>8, SameSize
<1> QED  BY <1>5, <1>7, <1>9, <1>10 DEF OwnedOnce, P

\* Whatever is written, read and looked up, each marked block is held by one pointer and each
\* marked inode is named by one entry: AllocateBlock, AllocateBlocks and CreateFile never give
\* out twice what is in use, and never lose what they have marked.
THEOREM BlocksAndInodesOwnedOnce == Spec => []OwnedOnce
BY Invariant, Owned, PTL

--------------------------------------------------------------------------------
(* Paths and inodes                                                        *)

Kids(d, i, n) == {f \in 0 .. FirstEmpty(d, i) - 1 : Entry(d, i, f).called = n}

LEMMA ChildDef ==
  ASSUME NEW d, NEW i, NEW n
  PROVE  Child(d, i, n) = IF i = 0 \/ Kids(d, i, n) = {} THEN 0
                          ELSE Entry(d, i, Min(Kids(d, i, n))).inode
<1> DEFINE kids == Kids(d, i, n)
           same == IF i = 0 THEN {} ELSE kids
<1>1. Child(d, i, n) = IF same = {} THEN 0 ELSE Entry(d, i, Min(same)).inode
  BY DEF Child, Kids
<1> HIDE DEF kids
<1> QED  BY <1>1 DEF kids

LEMMA InodeNumbers ==
  ASSUME NEW d, WF(d)
  PROVE  0 \notin DOMAIN d.ptr /\ d.inodes \subseteq DOMAIN d.ptr /\ Root \in DOMAIN d.ptr
         /\ Root \notin d.inodes
BY DEF WF, InodesOK, Root

LEMMA ChildFacts ==
  ASSUME NEW d, WF(d), Room(d), NEW i \in {0} \cup DOMAIN d.ptr, NEW n
  PROVE  /\ Child(d, i, n) \in {0} \cup d.inodes
         /\ Child(d, i, n) # 0 =>
              /\ i # 0
              /\ \E f \in Nat : /\ HasEntry(d, i, f) /\ Entry(d, i, f).called = n
                                /\ Entry(d, i, f).inode = Child(d, i, n)
<1> DEFINE kids == Kids(d, i, n)
<1>1. CASE i = 0 \/ kids = {}
  BY <1>1, ChildDef
<1>2. CASE i # 0 /\ kids # {}
  <2>1. FirstEmpty(d, i) \in Nat /\ \A f \in 0 .. FirstEmpty(d, i) - 1 : HasEntry(d, i, f)
    BY <1>2, FirstEmptyFacts, RamDiskAssumption
  <2>2. kids \in SUBSET Nat /\ \A f \in kids : HasEntry(d, i, f) /\ Entry(d, i, f).called = n
    BY <2>1 DEF Kids
  <2> DEFINE m == Min(kids)
  <2>3. m \in kids
    BY <1>2, <2>2, MinFacts
  <2>4. Child(d, i, n) = Entry(d, i, m).inode
    BY <1>2, ChildDef
  <2> HIDE DEF kids, m
  <2>5. Entry(d, i, m).inode \in d.inodes
    BY <2>2, <2>3 DEF HasEntry, Entry, WF, InodesOK
  <2> QED  BY <1>2, <2>2, <2>3, <2>4, <2>5
<1> QED  BY <1>1, <1>2

LEMMA ChildGrown ==
  ASSUME NEW d, NEW x, WF(d), WF(x), Room(d), Grown(d, x), NEW i \in {0} \cup DOMAIN d.ptr, NEW n
  PROVE  Child(x, i, n) = Child(d, i, n)
<1>1. CASE i = 0
  BY <1>1, ChildDef
<1>2. CASE i \in DOMAIN d.ptr
  <2> DEFINE e == FirstEmpty(d, i)
  <2>1. FirstEmpty(x, i) = e
    BY <1>2, GrownFirstEmpty
  <2>2. e \in Nat /\ \A f \in 0 .. e - 1 : HasEntry(d, i, f)
    BY <1>2, FirstEmptyFacts, RamDiskAssumption
  <2>3. \A f \in 0 .. e - 1 : Entry(x, i, f) = Entry(d, i, f)
    BY <1>2, <2>2, GrownEntries
  <2> HIDE DEF e
  <2>4. Kids(x, i, n) = Kids(d, i, n)
    BY <2>1, <2>3 DEF Kids, e
  <2>5. Kids(d, i, n) # {} => Min(Kids(d, i, n)) \in 0 .. e - 1
    <3>1. Kids(d, i, n) \in SUBSET Nat /\ Kids(d, i, n) \subseteq 0 .. e - 1
      BY <2>2 DEF Kids, e
    <3> QED  BY <3>1, MinFacts
  <2> QED  BY <2>3, <2>4, <2>5, ChildDef
<1> QED  BY <1>1, <1>2

INodeOfRun(f, d, path) ==
  f = [k \in 0 .. Len(path) |-> IF k = 0 THEN Root ELSE Child(d, f[k - 1], path[k])]

LEMMA INodeOfDef ==
  ASSUME NEW d, NEW path, Len(path) \in Nat
  PROVE  \E f : INodeOfRun(f, d, path) /\ INodeOf(d, path) = f[Len(path)]
<1> DEFINE Eq(f, m) == f = [k \in 0 .. m |-> IF k = 0 THEN Root ELSE Child(d, f[k - 1], path[k])]
           S == {m \in Nat : \E f : Eq(f, m)}
<1>1. 0 \in S
  <2>1. Eq([k \in 0 .. 0 |-> Root], 0)
    OBVIOUS
  <2> QED  BY <2>1
<1>2. ASSUME NEW m \in Nat, m \in S PROVE m + 1 \in S
  <2>1. PICK g : Eq(g, m)
    BY <1>2
  <2> DEFINE h == [k \in 0 .. m + 1 |-> IF k = 0 THEN Root ELSE Child(d, g[k - 1], path[k])]
  <2>2. \A k \in 0 .. m : h[k] = g[k]
    BY <2>1
  <2>3. \A k \in 0 .. m + 1 : k # 0 => k - 1 \in 0 .. m
    OBVIOUS
  <2>4. Eq(h, m + 1)
    BY <2>2, <2>3
  <2> HIDE DEF h
  <2> QED  BY <2>4
<1> HIDE DEF S
<1>3. \A m \in Nat : m \in S
  BY <1>1, <1>2, Induction
<1> DEFINE after == CHOOSE f : Eq(f, Len(path))
<1>4. Eq(after, Len(path))
  BY <1>3 DEF S
<1>5. INodeOf(d, path) = after[Len(path)]
  BY DEF INodeOf
<1>6. INodeOfRun(after, d, path)
  BY <1>4 DEF INodeOfRun
<1> QED  BY <1>5, <1>6

LEMMA INodeOfFacts ==
  ASSUME NEW d, WF(d), Room(d), NEW path, Len(path) \in Nat
  PROVE  \E a : /\ INodeOfRun(a, d, path) /\ INodeOf(d, path) = a[Len(path)]
                /\ \A k \in 0 .. Len(path) : a[k] \in {0} \cup DOMAIN d.ptr
<1> DEFINE n == Len(path)
<1>1. PICK a : INodeOfRun(a, d, path) /\ INodeOf(d, path) = a[n]
  BY INodeOfDef
<1> DEFINE S == {k \in Nat : k <= n => a[k] \in {0} \cup DOMAIN d.ptr}
<1>2. 0 \in S
  <2>1. a[0] = Root
    BY <1>1 DEF INodeOfRun
  <2> QED  BY <2>1, InodeNumbers
<1>3. ASSUME NEW k \in Nat, k \in S PROVE k + 1 \in S
  <2> SUFFICES ASSUME k + 1 <= n PROVE a[k + 1] \in {0} \cup DOMAIN d.ptr
    OBVIOUS
  <2>1. a[k + 1] = Child(d, a[k], path[k + 1])
    <3>1. k + 1 \in 0 .. n /\ k + 1 # 0 /\ (k + 1) - 1 = k
      OBVIOUS
    <3> QED  BY <1>1, <3>1 DEF INodeOfRun
  <2>2. a[k] \in {0} \cup DOMAIN d.ptr
    BY <1>3
  <2> QED  BY <2>1, <2>2, ChildFacts, InodeNumbers
<1> HIDE DEF S
<1>4. \A k \in Nat : k \in S
  BY <1>2, <1>3, Induction
<1>5. \A k \in 0 .. n : a[k] \in {0} \cup DOMAIN d.ptr
  BY <1>4 DEF S
<1> QED  BY <1>1, <1>5

LEMMA INodeOfGrown ==
  ASSUME NEW d, NEW x, WF(d), WF(x), Room(d), Grown(d, x), NEW path, Len(path) \in Nat
  PROVE  INodeOf(x, path) = INodeOf(d, path)
<1> DEFINE n == Len(path)
<1>1. PICK a : /\ INodeOfRun(a, d, path) /\ INodeOf(d, path) = a[n]
               /\ \A k \in 0 .. n : a[k] \in {0} \cup DOMAIN d.ptr
  BY INodeOfFacts
<1>2. PICK b : INodeOfRun(b, x, path) /\ INodeOf(x, path) = b[n]
  BY INodeOfDef
<1> DEFINE S == {k \in Nat : k <= n => b[k] = a[k]}
<1>3. 0 \in S
  BY <1>1, <1>2 DEF INodeOfRun
<1>4. ASSUME NEW k \in Nat, k \in S PROVE k + 1 \in S
  <2> SUFFICES ASSUME k + 1 <= n PROVE b[k + 1] = a[k + 1]
    OBVIOUS
  <2>1. k + 1 \in 0 .. n /\ k + 1 # 0 /\ (k + 1) - 1 = k /\ k \in 0 .. n
    OBVIOUS
  <2>2. a[k + 1] = Child(d, a[k], path[k + 1]) /\ b[k + 1] = Child(x, b[k], path[k + 1])
    BY <1>1, <1>2, <2>1 DEF INodeOfRun
  <2>3. b[k] = a[k] /\ a[k] \in {0} \cup DOMAIN d.ptr
    BY <1>1, <1>4, <2>1
  <2> DEFINE i == a[k]
             c == path[k + 1]
  <2> HIDE DEF i, c
  <2>4. Child(x, i, c) = Child(d, i, c)
    BY <2>3, ChildGrown DEF i
  <2> QED  BY <2>2, <2>3, <2>4 DEF i, c
<1> HIDE DEF S
<1>5. n \in S
  BY <1>3, <1>4, Induction
<1> QED  BY <1>1, <1>2, <1>5 DEF S

\* A lookup that takes no name for another gives the inode of the path, or none.
LEMMA FollowsPath ==
  ASSUME NEW d, WF(d), Room(d), NEW path, Len(path) \in Nat,
         ~GetFile(d, path, path).confused
  PROVE  LET w == GetFile(d, path, path)
         IN INodeOf(d, path) = IF w.missing = 0 THEN w.inode ELSE 0
<1> DEFINE n == Len(path)
           IsAt(i, w) == i = IF w.missing = 0 THEN w.inode ELSE 0
<1>1. PICK a : /\ GetFileRun(a, d, path, path) /\ GetFile(d, path, path) = a[n]
               /\ \A k \in 0 .. n : GoodWalk(d, a[k], k)
  BY GetFileFacts
<1>2. PICK b : INodeOfRun(b, d, path) /\ INodeOf(d, path) = b[n]
  BY INodeOfDef
<1> DEFINE S == {k \in Nat : k <= n => (~a[k].confused => IsAt(b[k], a[k]))}
<1>3. 0 \in S
  <2>1. a[0] = Start(d) /\ b[0] = Root
    BY <1>1, <1>2 DEF GetFileRun, INodeOfRun
  <2> QED  BY <2>1 DEF Start
<1>4. ASSUME NEW k \in Nat, k \in S PROVE k + 1 \in S
  <2> SUFFICES ASSUME k + 1 <= n, ~a[k + 1].confused PROVE IsAt(b[k + 1], a[k + 1])
    OBVIOUS
  <2>1. k + 1 \in 0 .. n /\ k + 1 # 0 /\ (k + 1) - 1 = k /\ k \in 0 .. n
    OBVIOUS
  <2> DEFINE w == a[k]
             v == a[k + 1]
             c == path[k + 1]
             i == b[k]
             j == b[k + 1]
             same == Same(w.disk, w.inode, c)
             entry == Entry(w.disk, w.inode, Min(same))
  <2>2. v = Descend(w, c, c) /\ j = Child(d, i, c)
    BY <1>1, <1>2, <2>1 DEF GetFileRun, INodeOfRun
  <2>3. GoodWalk(d, w, k)
    BY <1>1, <2>1
  <2>4. (~w.confused => IsAt(i, w)) /\ ~v.confused
    BY <1>4, <2>1
  <2> HIDE DEF w, v, c, i, j
  <2>5. /\ IsWalk(w) /\ WF(w.disk) /\ Grown(d, w.disk) /\ w.inode \in DOMAIN d.ptr
        /\ Room(w.disk) /\ w.inode \in DOMAIN w.disk.ptr /\ w.inode # 0
        /\ w.missing = 0 => w.at = k + 1
    <3>1. /\ IsWalk(w) /\ WF(w.disk) /\ Grown(d, w.disk) /\ w.inode \in DOMAIN d.ptr
          /\ w.missing = 0 => w.at = k + 1
      BY <2>3 DEF GoodWalk
    <3>2. DOMAIN w.disk.ptr = DOMAIN d.ptr /\ Room(w.disk)
      BY <3>1 DEF Grown, Room
    <3> QED  BY <3>1, <3>2, InodeNumbers
  <2>6. Child(d, w.inode, c) = Child(w.disk, w.inode, c)
    <3> DEFINE x == w.disk
               u == w.inode
    <3>1. WF(x) /\ Grown(d, x) /\ u \in {0} \cup DOMAIN d.ptr
      BY <2>5
    <3> HIDE DEF x, u
    <3>2. Child(x, u, c) = Child(d, u, c)
      BY <3>1, ChildGrown
    <3> QED  BY <3>2 DEF x, u
  <2> DEFINE kids == Kids(w.disk, w.inode, c)
             e == FirstEmpty(w.disk, w.inode)
  <2>7. /\ e \in Nat /\ \A f \in 0 .. e - 1 : HasEntry(w.disk, w.inode, f)
    BY <2>5, FirstEmptyFacts, RamDiskAssumption
  <2>8. kids \subseteq same /\ same \in SUBSET Nat
    <3>1. \A f \in 0 .. e - 1 : <<Entry(w.disk, w.inode, f).called,
                                  Entry(w.disk, w.inode, f).name>> \in Prefix
      BY <2>5, <2>7 DEF WF, NamesOK, HasEntry, Entry
    <3> QED  BY <2>7, <3>1 DEF Kids, Same
  <2>9. ASSUME Stays(w, v) PROVE IsAt(j, v)
    <3>1. i = 0 /\ v.missing # 0
      BY <2>4, <2>9 DEF Stays
    <3> QED  BY <2>2, <3>1, ChildDef
  <2>10. ASSUME Misses(w, c, v) PROVE IsAt(j, v)
    <3>1. w.missing = 0 /\ same = {} /\ v.missing = w.at /\ v.confused = w.confused
      BY <2>10 DEF Misses
    <3>2. i = w.inode
      BY <2>4, <3>1
    <3>3. Child(d, i, c) = 0
      BY <2>6, <2>8, <3>1, <3>2, ChildDef
    <3> QED  BY <2>2, <2>5, <3>1, <3>3
  <2>11. ASSUME Finds(w, c, c, v) PROVE IsAt(j, v)
    <3>6. w.missing = 0 /\ same # {} /\ v.missing = 0 /\ v.inode = entry.inode
      BY <2>11 DEF Finds
    <3>7. v.confused <=> w.confused \/ entry.called # c
      BY <2>11 DEF Finds
    <3>1. i = w.inode /\ entry.called = c
      BY <2>4, <3>6, <3>7
    <3> DEFINE m == Min(same)
    <3>2. m \in same /\ \A f \in same : m <= f
      BY <2>8, <3>6, MinFacts
    <3>3. m \in kids
      <4> HIDE DEF m
      <4> QED  BY <3>1, <3>2 DEF Kids, Same, m
    <3>4. Min(kids) = m
      <4> DEFINE q == Min(kids)
      <4>1. q \in kids /\ \A f \in kids : q <= f
        BY <2>8, <3>3, MinFacts
      <4> HIDE DEF m, kids, same, q
      <4>2. q \in Nat /\ m \in Nat /\ q <= m /\ m <= q
        BY <2>8, <3>2, <3>3, <4>1
      <4>3. q = m
        BY <4>2
      <4> QED  BY <4>3 DEF q
    <3>5. Child(w.disk, w.inode, c) = entry.inode
      BY <2>5, <3>3, <3>4, ChildDef
    <3> QED  BY <2>2, <2>6, <3>1, <3>5, <3>6
  <2> HIDE DEF same, entry, kids, e
  <2>12. IsAt(j, v)
    <3>1. Stays(w, v) \/ Misses(w, c, v) \/ Finds(w, c, c, v)
      BY <2>2, <2>5, DescendCases
    <3> QED  BY <3>1, <2>9, <2>10, <2>11
  <2> QED  BY <2>12 DEF j, v
<1> HIDE DEF S
<1>5. n \in S
  BY <1>3, <1>4, Induction
<1> QED  BY <1>1, <1>2, <1>5 DEF S

LEMMA ReadFileReads ==
  ASSUME IInv, NEW path \in Path, ReadFile(path), ~confused'
  PROVE  done'.content = ContentOf(disk', path)
<1> DEFINE w == GetFile(disk, path, path)
           full == EnsureAll(w.disk, w.inode, w.disk.size[w.inode])
           x == IF w.missing = 0 THEN full ELSE w.disk
           i == w.inode
<1>1. /\ disk' = x
      /\ done'.content = IF w.missing # 0 THEN <<>>
                         ELSE [k \in 1 .. full.size[i] |-> full.bytes[full.ptr[i][FilePtr(k - 1)]]]
  BY DEF ReadFile, Called
<1>2. ~w.confused
  BY DEF ReadFile, Count
<1>3. Good(disk) /\ Room(disk) /\ Len(path) \in Nat
  BY Paths, RamDiskAssumption DEF IInv, Room
<1>4. INodeOf(disk, path) = IF w.missing = 0 THEN i ELSE 0
  BY <1>2, <1>3, FollowsPath DEF Good
<1>5. Good(w.disk) /\ Grown(disk, w.disk) /\ i \in DOMAIN w.disk.ptr
  BY <1>3, Lookup
<1> HIDE DEF w
<1>6. WF(full) /\ Grown(w.disk, full)
  BY <1>5, EnsureAllFacts DEF Good, SizesOK
<1>7. WF(x) /\ Grown(disk, x)
  BY <1>5, <1>6, GrownTrans DEF Good
<1> HIDE DEF full
<1>8. INodeOf(x, path) = INodeOf(disk, path)
  <2> HIDE DEF x
  <2> QED  BY <1>3, <1>7, INodeOfGrown DEF Good
<1>9. CASE w.missing = 0
  <2>1. i # 0
    BY <1>5, InodeNumbers DEF Good
  <2>2. x = full /\ INodeOf(full, path) = i
    BY <1>4, <1>8, <1>9
  <2> HIDE DEF i, x
  <2>3. ContentOf(full, path) =
          [k \in 1 .. full.size[i] |-> full.bytes[full.ptr[i][FilePtr(k - 1)]]]
    BY <2>1, <2>2 DEF ContentOf
  <2> QED  BY <1>1, <1>9, <2>2, <2>3
<1>10. CASE w.missing # 0
  <2>1. INodeOf(x, path) = 0
    BY <1>4, <1>8, <1>10
  <2> HIDE DEF x
  <2>2. ContentOf(x, path) = <<>>
    BY <2>1 DEF ContentOf
  <2> QED  BY <1>1, <1>10, <2>2
<1> QED  BY <1>9, <1>10

\* As long as no lookup takes one name for another, ReadFile returns exactly what the file of
\* that path holds, whatever calls came before and whatever blocks its own lookup has added.
THEOREM ReadsWhatTheFileHolds == Spec => []ReadsContent
<1>1. Init => ReadsContent
  BY DEF Init, ReadsContent
<1>2. IInv /\ ReadsContent /\ [Next]_vars => ReadsContent'
  <2> SUFFICES ASSUME IInv, ReadsContent, [Next]_vars PROVE ReadsContent'
    OBVIOUS
  <2>1. ASSUME NEW path \in Path, MakeDir(path) PROVE ReadsContent'
    <3>1. done'.op = "MakeDir"
      BY <2>1 DEF MakeDir, Called
    <3> QED  BY <3>1 DEF ReadsContent
  <2>2. ASSUME NEW path \in Path, ReadFile(path) PROVE ReadsContent'
    <3>1. done'.path = path
      BY <2>2 DEF ReadFile, Called
    <3>2. ~confused' => done'.content = ContentOf(disk', path)
      BY <2>2, ReadFileReads
    <3> QED  BY <3>1, <3>2 DEF ReadsContent
  <2>3. ASSUME NEW path \in Path, NEW content \in Content, WriteFile(path, content)
        PROVE  ReadsContent'
    <3>1. done'.op = "WriteFile"
      BY <2>3 DEF WriteFile, Called
    <3> QED  BY <3>1 DEF ReadsContent
  <2>4. CASE UNCHANGED vars
    BY <2>4 DEF ReadsContent, vars
  <2> QED  BY <2>1, <2>2, <2>3, <2>4 DEF Next
<1> QED  BY <1>1, <1>2, Invariant, PTL DEF Spec

--------------------------------------------------------------------------------
(* The last name of a path                                                 *)

LEMMA FrontFacts ==
  ASSUME NEW path \in Seq(Name), path # <<>>
  PROVE  /\ Len(path) \in Nat \ {0} /\ Front(path) \in Seq(Name)
         /\ Len(Front(path)) = Len(path) - 1
         /\ \A k \in 1 .. Len(path) - 1 : Front(path)[k] = path[k]
<1> DEFINE n == Len(path)
<1>1. n \in Nat \ {0} /\ \A k \in 1 .. n : path[k] \in Name
  OBVIOUS
<1>2. Front(path) = SubSeq(path, 1, n - 1)
  BY DEF Front
<1>3. SubSeq(path, 1, n - 1) \in Seq(Name)
  BY <1>1
<1>4. Len(SubSeq(path, 1, n - 1)) = n - 1
  <2> DEFINE e == n - 1
  <2>1. e \in Nat /\ e <= Len(path)
    BY <1>1
  <2> HIDE DEF e, n
  <2>2. CASE e = 0
    <3>1. Len(SubSeq(path, 1, 0)) = 0
      OBVIOUS
    <3> QED  BY <2>2, <3>1 DEF e
  <2>3. CASE e # 0
    <3>1. Len(SubSeq(path, 1, e)) = e
      BY <2>1, <2>3
    <3> QED  BY <3>1 DEF e
  <2> QED  BY <2>2, <2>3
<1>5. \A k \in 1 .. n - 1 : SubSeq(path, 1, n - 1)[k] = path[k]
  BY <1>1
<1> QED  BY <1>1, <1>2, <1>3, <1>4, <1>5

LEMMA GetFileStep ==
  ASSUME NEW d, NEW path \in Seq(Name), path # <<>>
  PROVE  GetFile(d, path, path) = Descend(GetFile(d, Front(path), Front(path)), path[Len(path)], path[Len(path)])
<1> DEFINE n == Len(path)
           front == Front(path)
<1>1. n \in Nat \ {0} /\ Len(front) = n - 1 /\ \A k \in 1 .. n - 1 : front[k] = path[k]
  BY FrontFacts
<1> HIDE DEF front, n
<1>2. Len(path) \in Nat /\ Len(path) = n /\ Len(front) \in Nat
  BY <1>1 DEF n
<1>3. PICK a : GetFileRun(a, d, path, path) /\ GetFile(d, path, path) = a[n]
  BY <1>2, GetFileDef
<1>4. PICK b : GetFileRun(b, d, front, front) /\ GetFile(d, front, front) = b[n - 1]
  BY <1>1, <1>2, GetFileDef
<1> DEFINE S == {k \in Nat : k <= n - 1 => a[k] = b[k]}
<1>5. 0 \in S
  BY <1>1, <1>2, <1>3, <1>4 DEF GetFileRun
<1>6. ASSUME NEW k \in Nat, k \in S PROVE k + 1 \in S
  <2> SUFFICES ASSUME k + 1 <= n - 1 PROVE a[k + 1] = b[k + 1]
    OBVIOUS
  <2>1. /\ k + 1 \in 0 .. n - 1 /\ k + 1 \in 0 .. n /\ k + 1 # 0 /\ (k + 1) - 1 = k
        /\ k + 1 \in 1 .. n - 1
    BY <1>1
  <2>2. a[k + 1] = Descend(a[k], path[k + 1], path[k + 1]) /\ b[k + 1] = Descend(b[k], front[k + 1], front[k + 1])
    BY <1>1, <1>2, <1>3, <1>4, <2>1 DEF GetFileRun
  <2>3. a[k] = b[k] /\ front[k + 1] = path[k + 1]
    BY <1>1, <1>6, <2>1
  <2> QED  BY <2>2, <2>3
<1> HIDE DEF S
<1>7. a[n - 1] = b[n - 1]
  <2>1. n - 1 \in S
    BY <1>1, <1>5, <1>6, Induction
  <2> QED  BY <2>1, <1>1 DEF S
<1>8. a[n] = Descend(a[n - 1], path[n], path[n])
  <2>1. n \in 0 .. n /\ n # 0
    BY <1>1
  <2> QED  BY <1>2, <1>3, <2>1 DEF GetFileRun
<1> QED  BY <1>3, <1>4, <1>7, <1>8 DEF n, front

LEMMA INodeOfStep ==
  ASSUME NEW d, NEW path \in Seq(Name), path # <<>>
  PROVE  INodeOf(d, path) = Child(d, INodeOf(d, Front(path)), path[Len(path)])
<1> DEFINE n == Len(path)
           front == Front(path)
<1>1. n \in Nat \ {0} /\ Len(front) = n - 1 /\ \A k \in 1 .. n - 1 : front[k] = path[k]
  BY FrontFacts
<1> HIDE DEF front, n
<1>2. Len(path) \in Nat /\ Len(path) = n /\ Len(front) \in Nat
  BY <1>1 DEF n
<1>3. PICK a : INodeOfRun(a, d, path) /\ INodeOf(d, path) = a[n]
  BY <1>2, INodeOfDef
<1>4. PICK b : INodeOfRun(b, d, front) /\ INodeOf(d, front) = b[n - 1]
  BY <1>1, <1>2, INodeOfDef
<1> DEFINE S == {k \in Nat : k <= n - 1 => a[k] = b[k]}
<1>5. 0 \in S
  BY <1>1, <1>2, <1>3, <1>4 DEF INodeOfRun
<1>6. ASSUME NEW k \in Nat, k \in S PROVE k + 1 \in S
  <2> SUFFICES ASSUME k + 1 <= n - 1 PROVE a[k + 1] = b[k + 1]
    OBVIOUS
  <2>1. /\ k + 1 \in 0 .. n - 1 /\ k + 1 \in 0 .. n /\ k + 1 # 0 /\ (k + 1) - 1 = k
        /\ k + 1 \in 1 .. n - 1
    BY <1>1
  <2>2. a[k + 1] = Child(d, a[k], path[k + 1]) /\ b[k + 1] = Child(d, b[k], front[k + 1])
    BY <1>1, <1>2, <1>3, <1>4, <2>1 DEF INodeOfRun
  <2>3. a[k] = b[k] /\ front[k + 1] = path[k + 1]
    BY <1>1, <1>6, <2>1
  <2> QED  BY <2>2, <2>3
<1> HIDE DEF S
<1>7. a[n - 1] = b[n - 1]
  <2>1. n - 1 \in S
    BY <1>1, <1>5, <1>6, Induction
  <2> QED  BY <2>1, <1>1 DEF S
<1>8. a[n] = Child(d, a[n - 1], path[n])
  <2>1. n \in 0 .. n /\ n # 0
    BY <1>1
  <2> QED  BY <1>2, <1>3, <2>1 DEF INodeOfRun
<1> QED  BY <1>3, <1>4, <1>7, <1>8 DEF n, front

\* No two paths lead to one inode.
LEMMA OnePath ==
  ASSUME NEW d, WF(d), Room(d)
  PROVE  \A p, q \in Seq(Name) : INodeOf(d, p) = INodeOf(d, q) /\ INodeOf(d, p) # 0 => p = q
<1> DEFINE S == {k \in Nat : \A p, q \in Seq(Name) :
                   Len(p) = k /\ INodeOf(d, p) = INodeOf(d, q) /\ INodeOf(d, p) # 0 => p = q}
<1>1. INodeOf(d, <<>>) = Root
  <2>1. Len(<<>>) = 0 /\ Len(<<>>) \in Nat
    OBVIOUS
  <2>2. PICK a : INodeOfRun(a, d, <<>>) /\ INodeOf(d, <<>>) = a[Len(<<>>)]
    BY <2>1, INodeOfDef
  <2> QED  BY <2>1, <2>2 DEF INodeOfRun
<1>2. ASSUME NEW p \in Seq(Name), p # <<>>, INodeOf(d, p) # 0
      PROVE  /\ INodeOf(d, p) # Root /\ INodeOf(d, Front(p)) \in DOMAIN d.ptr
             /\ \E f \in Nat : LET i == INodeOf(d, Front(p))
                               IN /\ HasEntry(d, i, f) /\ Entry(d, i, f).called = p[Len(p)]
                                  /\ Entry(d, i, f).inode = INodeOf(d, p)
  <2> DEFINE i == INodeOf(d, Front(p))
             n == p[Len(p)]
  <2>1. INodeOf(d, p) = Child(d, i, n)
    BY <1>2, INodeOfStep
  <2>2. i \in {0} \cup DOMAIN d.ptr
    <3>1. Len(Front(p)) \in Nat /\ Len(Front(p)) \in 0 .. Len(Front(p))
      BY <1>2, FrontFacts
    <3> QED  BY <3>1, INodeOfFacts
  <2> HIDE DEF i, n
  <2>3. /\ Child(d, i, n) \in {0} \cup d.inodes
        /\ i # 0 /\ \E f \in Nat : /\ HasEntry(d, i, f) /\ Entry(d, i, f).called = n
                                   /\ Entry(d, i, f).inode = Child(d, i, n)
    BY <1>2, <2>1, <2>2, ChildFacts
  <2> QED  BY <1>2, <2>1, <2>2, <2>3, InodeNumbers DEF i, n
<1>3. 0 \in S
  <2> SUFFICES ASSUME NEW p \in Seq(Name), NEW q \in Seq(Name), Len(p) = 0,
                      INodeOf(d, p) = INodeOf(d, q), INodeOf(d, p) # 0
               PROVE  p = q
    OBVIOUS
  <2>1. p = <<>>
    OBVIOUS
  <2> QED  BY <1>1, <1>2, <2>1
<1>4. ASSUME NEW k \in Nat, k \in S PROVE k + 1 \in S
  <2> SUFFICES ASSUME NEW p \in Seq(Name), NEW q \in Seq(Name), Len(p) = k + 1,
                      INodeOf(d, p) = INodeOf(d, q), INodeOf(d, p) # 0
               PROVE  p = q
    OBVIOUS
  <2>1. p # <<>> /\ q # <<>>
    <3>1. p # <<>>
      OBVIOUS
    <3> QED  BY <3>1, <1>1, <1>2
  <2> DEFINE i == INodeOf(d, Front(p))
             j == INodeOf(d, Front(q))
             m == p[Len(p)]
             n == q[Len(q)]
  <2>2. i \in DOMAIN d.ptr /\ j \in DOMAIN d.ptr
    BY <1>2, <2>1
  <2>3. PICK f \in Nat : HasEntry(d, i, f) /\ Entry(d, i, f).called = m
                         /\ Entry(d, i, f).inode = INodeOf(d, p)
    BY <1>2, <2>1
  <2>4. PICK g \in Nat : HasEntry(d, j, g) /\ Entry(d, j, g).called = n
                         /\ Entry(d, j, g).inode = INodeOf(d, p)
    BY <1>2, <2>1
  <2> HIDE DEF i, j, m, n
  <2>5. <<d.ptr[i][EntryPtr(f)], f % PerBlock>> = <<d.ptr[j][EntryPtr(g)], g % PerBlock>>
    BY <2>3, <2>4 DEF HasEntry, Entry, WF, InodesOK
  <2>6. d.ptr[i][EntryPtr(f)] = d.ptr[j][EntryPtr(g)]
    BY <2>5
  <2>7. i = j /\ m = n
    BY <2>2, <2>3, <2>4, <2>5, <2>6 DEF HasEntry, Entry, WF, BlocksOK
  <2>8. Front(p) \in Seq(Name) /\ Front(q) \in Seq(Name) /\ Len(Front(p)) = k
    BY <2>1, FrontFacts
  <2>9. INodeOf(d, Front(p)) = INodeOf(d, Front(q)) /\ INodeOf(d, Front(p)) # 0
    BY <2>2, <2>7, InodeNumbers DEF i, j
  <2>10. Front(p) = Front(q)
    BY <1>4, <2>8, <2>9
  <2>11. Len(q) = k + 1 /\ p[k + 1] = q[k + 1] /\ \A l \in 1 .. k : p[l] = q[l]
    <3>1. Len(q) = k + 1
      BY <2>1, <2>8, <2>10, FrontFacts
    <3>2. \A l \in 1 .. k : p[l] = q[l]
      <4>1. \A l \in 1 .. k : Front(p)[l] = p[l]
        <5>1. Len(p) - 1 = k
          OBVIOUS
        <5>2. \A l \in 1 .. Len(p) - 1 : Front(p)[l] = p[l]
          BY <2>1, FrontFacts
        <5> QED  BY <5>1, <5>2
      <4>2. \A l \in 1 .. k : Front(q)[l] = q[l]
        BY <2>1, <3>1, FrontFacts
      <4> QED  BY <2>10, <4>1, <4>2
    <3> QED  BY <2>7, <3>1, <3>2 DEF m, n
  <2>12. \A l \in 1 .. k + 1 : p[l] = q[l]
    BY <2>11
  <2> QED  BY <2>11, <2>12
<1> HIDE DEF S
<1>5. \A k \in Nat : k \in S
  BY <1>3, <1>4, Induction
<1> QED
  <2> SUFFICES ASSUME NEW p \in Seq(Name), NEW q \in Seq(Name), INodeOf(d, p) = INodeOf(d, q),
                      INodeOf(d, p) # 0
               PROVE  p = q
    OBVIOUS
  <2>1. Len(p) \in S
    BY <1>5
  <2> QED  BY <2>1 DEF S

--------------------------------------------------------------------------------
(* A new entry in a directory                                              *)

\* x is d with an entry e in directory h for the new inode i; other entries are kept.
Added(d, x, h, e, i, entry) ==
  /\ i \notin DOMAIN d.ptr /\ DOMAIN x.ptr = DOMAIN d.ptr \cup {i}
  /\ HasEntry(x, h, e) /\ Entry(x, h, e) = entry
  /\ \A j \in DOMAIN d.ptr : \A f \in Nat :
       HasEntry(d, j, f) => HasEntry(x, j, f) /\ Entry(x, j, f) = Entry(d, j, f)
  /\ \A j \in DOMAIN d.ptr : \A f \in Nat : HasEntry(x, j, f) => HasEntry(d, j, f) \/ (j = h /\ f = e)
  /\ \A f \in Nat : ~HasEntry(x, i, f)

LEMMA WithEntryAdded ==
  ASSUME NEW d, WF(d), NEW i, i \notin DOMAIN d.ptr, NEW h \in DOMAIN d.ptr, NEW e \in Nat,
         EntryPtr(e) \in DOMAIN d.ptr[h], ~HasEntry(d, h, e), NEW entry,
         NEW m, m = WithEntry(d, i, <<d.ptr[h][EntryPtr(e)], e % PerBlock>>, entry)
  PROVE  Added(d, m, h, e, i, entry)
<1> DEFINE cell == <<d.ptr[h][EntryPtr(e)], e % PerBlock>>
<1>1. m.ptr = Put(d.ptr, i, <<>>) /\ m.cells = Put(d.cells, cell, entry)
  BY DEF WithEntry
<1>2. cell \notin DOMAIN d.cells
  BY DEF HasEntry
<1>3. \A j \in DOMAIN d.ptr : \A f \in Nat :
        EntryPtr(f) \in DOMAIN d.ptr[j] /\ <<d.ptr[j][EntryPtr(f)], f % PerBlock>> = cell => j = h /\ f = e
  <2> SUFFICES ASSUME NEW j \in DOMAIN d.ptr, NEW f \in Nat, EntryPtr(f) \in DOMAIN d.ptr[j],
                      <<d.ptr[j][EntryPtr(f)], f % PerBlock>> = cell
               PROVE  j = h /\ f = e
    OBVIOUS
  <2>1. d.ptr[j][EntryPtr(f)] = d.ptr[h][EntryPtr(e)] /\ f % PerBlock = e % PerBlock
    OBVIOUS
  <2>2. j = h /\ EntryPtr(f) = EntryPtr(e)
    BY <2>1 DEF WF, BlocksOK
  <2> QED  BY <2>1, <2>2, EntryInjective
<1> HIDE DEF cell
<1>4. /\ DOMAIN m.ptr = DOMAIN d.ptr \cup {i} /\ DOMAIN m.ptr[i] = {}
      /\ \A j \in DOMAIN d.ptr : m.ptr[j] = d.ptr[j]
  BY <1>1 DEF Put
<1>5. /\ DOMAIN m.cells = DOMAIN d.cells \cup {cell} /\ m.cells[cell] = entry
      /\ \A c \in DOMAIN d.cells : m.cells[c] = d.cells[c]
  BY <1>1, <1>2 DEF Put
<1>6. HasEntry(m, h, e) /\ Entry(m, h, e) = entry
  BY <1>4, <1>5 DEF HasEntry, Entry, cell
<1>7. \A j \in DOMAIN d.ptr : \A f \in Nat :
        HasEntry(d, j, f) => HasEntry(m, j, f) /\ Entry(m, j, f) = Entry(d, j, f)
  BY <1>4, <1>5 DEF HasEntry, Entry
<1>8. \A j \in DOMAIN d.ptr : \A f \in Nat : HasEntry(m, j, f) => HasEntry(d, j, f) \/ (j = h /\ f = e)
  BY <1>3, <1>4, <1>5 DEF HasEntry
<1>9. \A f \in Nat : ~HasEntry(m, i, f)
  BY <1>4 DEF HasEntry
<1> QED  BY <1>4, <1>6, <1>7, <1>8, <1>9 DEF Added

\* Blocks that d or x get without entries change nothing about that.
LEMMA AddedGrown ==
  ASSUME NEW d, NEW c, NEW m, NEW x, WF(d), WF(m), Grown(d, c), Grown(m, x),
         NEW h \in DOMAIN d.ptr, NEW e \in Nat, NEW i, NEW entry, Added(c, m, h, e, i, entry)
  PROVE  Added(d, x, h, e, i, entry)
<1>1. DOMAIN c.ptr = DOMAIN d.ptr /\ DOMAIN x.ptr = DOMAIN m.ptr /\ DOMAIN m.ptr = DOMAIN d.ptr \cup {i}
  BY DEF Grown, Added
<1>2. \A j \in DOMAIN d.ptr : \A f : /\ HasEntry(c, j, f) <=> HasEntry(d, j, f)
                                     /\ HasEntry(d, j, f) => Entry(c, j, f) = Entry(d, j, f)
  BY GrownEntries
<1>3. \A j \in DOMAIN m.ptr : \A f : /\ HasEntry(x, j, f) <=> HasEntry(m, j, f)
                                     /\ HasEntry(m, j, f) => Entry(x, j, f) = Entry(m, j, f)
  BY GrownEntries
<1>4. i \notin DOMAIN d.ptr /\ HasEntry(x, h, e) /\ Entry(x, h, e) = entry /\ \A f \in Nat : ~HasEntry(x, i, f)
  BY <1>1, <1>3 DEF Added
<1>5. \A j \in DOMAIN d.ptr : \A f \in Nat :
        HasEntry(d, j, f) => HasEntry(x, j, f) /\ Entry(x, j, f) = Entry(d, j, f)
  BY <1>1, <1>2, <1>3 DEF Added
<1>6. \A j \in DOMAIN d.ptr : \A f \in Nat : HasEntry(x, j, f) => HasEntry(d, j, f) \/ (j = h /\ f = e)
  BY <1>1, <1>2, <1>3 DEF Added
<1> QED  BY <1>1, <1>4, <1>5, <1>6 DEF Added

\* Directories have no holes.
Packed(d) ==
  \A j \in DOMAIN d.ptr : \A f \in Nat : HasEntry(d, j, f) => \A g \in 0 .. f - 1 : HasEntry(d, j, g)

LEMMA PackedFacts ==
  ASSUME NEW d, WF(d), Room(d), Packed(d), NEW j \in DOMAIN d.ptr
  PROVE  /\ FirstEmpty(d, j) \in Nat
         /\ \A f \in Nat : HasEntry(d, j, f) <=> f < FirstEmpty(d, j)
<1> DEFINE e == FirstEmpty(d, j)
<1>1. e \in Nat /\ ~HasEntry(d, j, e) /\ \A f \in 0 .. e - 1 : HasEntry(d, j, f)
  BY FirstEmptyFacts, RamDiskAssumption
<1> HIDE DEF e
<1>2. ASSUME NEW f \in Nat, HasEntry(d, j, f) PROVE f < e
  <2>1. \A g \in 0 .. f - 1 : HasEntry(d, j, g)
    BY <1>2 DEF Packed
  <2>2. f # e /\ ~(e < f)
    BY <1>1, <1>2, <2>1
  <2> QED  BY <1>1, <2>2
<1>3. \A f \in Nat : f < e => HasEntry(d, j, f)
  BY <1>1
<1> QED  BY <1>1, <1>2, <1>3 DEF e

LEMMA PackedGrown ==
  ASSUME NEW d, NEW x, WF(d), Grown(d, x), Packed(d)
  PROVE  Packed(x)
<1>1. DOMAIN x.ptr = DOMAIN d.ptr
  BY DEF Grown
<1>2. \A j \in DOMAIN d.ptr : \A f : HasEntry(x, j, f) <=> HasEntry(d, j, f)
  BY GrownEntries
<1> QED  BY <1>1, <1>2 DEF Packed

LEMMA PackedAdded ==
  ASSUME NEW d, NEW x, WF(d), Room(d), Packed(d), NEW h \in DOMAIN d.ptr, NEW e, e = FirstEmpty(d, h),
         NEW i, NEW entry, Added(d, x, h, e, i, entry)
  PROVE  Packed(x)
<1>1. e \in Nat /\ \A f \in Nat : HasEntry(d, h, f) <=> f < e
  BY PackedFacts
<1>2. ASSUME NEW j \in DOMAIN x.ptr, NEW f \in Nat, HasEntry(x, j, f), NEW g \in 0 .. f - 1
      PROVE  HasEntry(x, j, g)
  <2>1. j \in DOMAIN d.ptr
    BY <1>2 DEF Added
  <2>2. HasEntry(d, j, g)
    <3>1. CASE HasEntry(d, j, f)
      BY <2>1, <3>1 DEF Packed
    <3>2. CASE j = h /\ f = e
      BY <1>1, <3>2
    <3> QED  BY <1>2, <2>1, <3>1, <3>2 DEF Added
  <2> QED  BY <2>1, <2>2 DEF Added
<1> QED  BY <1>2 DEF Packed

LEMMA MinAdded ==
  ASSUME NEW K \in SUBSET Nat, NEW L \in SUBSET Nat, K # {}, K \subseteq L, NEW e,
         L \subseteq K \cup {e}, \A f \in K : e \in L => f < e
  PROVE  Min(L) = Min(K)
<1> DEFINE m == Min(K)
           q == Min(L)
<1>1. m \in K /\ (\A f \in K : m <= f) /\ q \in L /\ \A f \in L : q <= f
  BY MinFacts
<1> HIDE DEF m, q
<1>2. q <= m /\ m \in Nat /\ q \in Nat
  BY <1>1
<1>3. m <= q
  BY <1>1, <1>2
<1>4. q = m
  BY <1>2, <1>3
<1> QED  BY <1>4 DEF m, q

\* An entry that is found is still found, and the new one is the only one that can be new.
LEMMA EntriesAdded ==
  ASSUME NEW d, NEW x, WF(d), Room(d), Packed(d), WF(x), Room(x), Packed(x),
         NEW h \in DOMAIN d.ptr, NEW e, e = FirstEmpty(d, h), NEW i, NEW entry,
         Added(d, x, h, e, i, entry), NEW j \in DOMAIN d.ptr
  PROVE  /\ 0 .. FirstEmpty(d, j) - 1 \subseteq 0 .. FirstEmpty(x, j) - 1
         /\ \A f \in 0 .. FirstEmpty(d, j) - 1 : Entry(x, j, f) = Entry(d, j, f)
         /\ \A f \in 0 .. FirstEmpty(x, j) - 1 :
              f \in 0 .. FirstEmpty(d, j) - 1 \/ (j = h /\ f = e /\ Entry(x, j, f) = entry)
         /\ j = h => /\ e \in 0 .. FirstEmpty(x, j) - 1 /\ \A f \in 0 .. FirstEmpty(d, j) - 1 : f < e
         /\ 0 .. FirstEmpty(d, j) - 1 \in SUBSET Nat /\ 0 .. FirstEmpty(x, j) - 1 \in SUBSET Nat
<1> DEFINE a == FirstEmpty(d, j)
           b == FirstEmpty(x, j)
<1>1. a \in Nat /\ \A f \in Nat : HasEntry(d, j, f) <=> f < a
  BY PackedFacts
<1>2. j \in DOMAIN x.ptr
  BY DEF Added
<1>3. b \in Nat /\ \A f \in Nat : HasEntry(x, j, f) <=> f < b
  BY <1>2, PackedFacts
<1>4. j = h => a = e
  OBVIOUS
<1> HIDE DEF a, b
<1>5. \A f \in Nat : HasEntry(d, j, f) => HasEntry(x, j, f) /\ Entry(x, j, f) = Entry(d, j, f)
  BY DEF Added
<1>6. \A f \in Nat : HasEntry(x, j, f) => HasEntry(d, j, f) \/ (j = h /\ f = e)
  BY DEF Added
<1>7. \A f \in 0 .. a - 1 : f < b /\ Entry(x, j, f) = Entry(d, j, f)
  BY <1>1, <1>3, <1>5
<1>8. \A f \in 0 .. b - 1 : f \in 0 .. a - 1 \/ (j = h /\ f = e /\ Entry(x, j, f) = entry)
  <2> TAKE f \in 0 .. b - 1
  <2>1. HasEntry(d, j, f) \/ (j = h /\ f = e)
    BY <1>3, <1>6
  <2>2. HasEntry(d, j, f) => f \in 0 .. a - 1
    BY <1>1, <1>3
  <2> QED  BY <2>1, <2>2 DEF Added
<1>9. j = h => e \in 0 .. b - 1
  BY <1>1, <1>3, <1>4 DEF Added
<1>10. j = h => \A f \in 0 .. a - 1 : f < e
  BY <1>1, <1>4
<1>11. 0 .. a - 1 \subseteq 0 .. b - 1 /\ 0 .. a - 1 \in SUBSET Nat /\ 0 .. b - 1 \in SUBSET Nat
  BY <1>1, <1>3, <1>7
<1> QED  BY <1>7, <1>8, <1>9, <1>10, <1>11 DEF a, b

SameKept(d, x, j, n) ==
  Same(d, j, n) # {} =>
    /\ Same(x, j, n) # {}
    /\ Entry(x, j, Min(Same(x, j, n))) = Entry(d, j, Min(Same(d, j, n)))
SameNew(d, x, h, entry, j, n) ==
  Same(d, j, n) = {} /\ j = h /\ <<n, entry.name>> \in Prefix =>
    Same(x, j, n) # {} /\ Entry(x, j, Min(Same(x, j, n))) = entry

LEMMA SameAdded ==
  ASSUME NEW d, NEW x, WF(d), Room(d), Packed(d), WF(x), Room(x), Packed(x),
         NEW h \in DOMAIN d.ptr, NEW e, e = FirstEmpty(d, h), NEW i, NEW entry,
         Added(d, x, h, e, i, entry), NEW j \in DOMAIN d.ptr, NEW n
  PROVE  SameKept(d, x, j, n) /\ SameNew(d, x, h, entry, j, n)
<1> DEFINE A == 0 .. FirstEmpty(d, j) - 1
           B == 0 .. FirstEmpty(x, j) - 1
           K == Same(d, j, n)
           L == Same(x, j, n)
<1>1. /\ A \subseteq B /\ \A f \in A : Entry(x, j, f) = Entry(d, j, f)
      /\ \A f \in B : f \in A \/ (j = h /\ f = e /\ Entry(x, j, f) = entry)
      /\ j = h => e \in B /\ \A f \in A : f < e
      /\ A \in SUBSET Nat /\ B \in SUBSET Nat
  BY EntriesAdded
<1>2. /\ K = {f \in A : <<n, Entry(d, j, f).name>> \in Prefix}
      /\ L = {f \in B : <<n, Entry(x, j, f).name>> \in Prefix}
  BY DEF Same
<1> HIDE DEF A, B, K, L
<1>3. K \subseteq L /\ L \subseteq K \cup {e} /\ K \subseteq A /\ L \subseteq B
      /\ \A f \in L : f \notin K => j = h /\ f = e /\ Entry(x, j, f) = entry
  BY <1>1, <1>2
<1>4. ASSUME K # {} PROVE L # {} /\ Entry(x, j, Min(L)) = Entry(d, j, Min(K))
  <2>1. e \in L /\ e \notin A => j = h
    BY <1>3
  <2>2. Min(L) = Min(K)
    <3>1. CASE j = h
      <4>1. K \in SUBSET Nat /\ L \in SUBSET Nat /\ \A f \in K : e \in L => f < e
        BY <3>1, <1>1, <1>3
      <4> QED  BY <4>1, <1>3, <1>4, MinAdded
    <3>2. CASE j # h
      <4>1. K = L
        BY <3>2, <1>3
      <4> QED  BY <4>1
    <3> QED  BY <3>1, <3>2
  <2>3. Min(K) \in K
    BY <1>1, <1>3, <1>4, MinFacts
  <2> QED  BY <1>1, <1>3, <1>4, <2>2, <2>3
<1>5. ASSUME K = {}, j = h, <<n, entry.name>> \in Prefix
      PROVE  L # {} /\ Entry(x, j, Min(L)) = entry
  <2>1. e \in B /\ e \notin A
    <3>1. e \in B /\ e \in Nat
      BY <1>1, <1>5
    <3>2. \A f \in A : f < e
      BY <1>1, <1>5
    <3> QED  BY <3>1, <3>2
  <2>2. Entry(x, j, e) = entry
    BY <1>1, <2>1
  <2>3. e \in L
    BY <1>2, <1>5, <2>1, <2>2
  <2>4. Min(L) \in L
    BY <1>1, <1>3, <2>3, MinFacts
  <2> QED  BY <1>3, <1>5, <2>3, <2>4
<1> QED  BY <1>4, <1>5 DEF K, L, SameKept, SameNew

LEMMA ChildNew ==
  ASSUME NEW d, NEW x, WF(x), Room(x), Packed(x), NEW h, NEW e, NEW i, NEW entry,
         Added(d, x, h, e, i, entry), NEW n
  PROVE  FirstEmpty(x, i) = 0 /\ Child(x, i, n) = 0
<1>1. i \in DOMAIN x.ptr /\ \A f \in Nat : ~HasEntry(x, i, f)
  BY DEF Added
<1>2. FirstEmpty(x, i) = 0
  <2>1. FirstEmpty(x, i) \in Nat /\ \A f \in Nat : HasEntry(x, i, f) <=> f < FirstEmpty(x, i)
    BY <1>1, PackedFacts
  <2>2. ~(0 < FirstEmpty(x, i))
    BY <1>1, <2>1
  <2> QED  BY <2>1, <2>2
<1>3. Kids(x, i, n) = {}
  BY <1>2 DEF Kids
<1> QED  BY <1>2, <1>3, ChildDef

LEMMA ChildAdded ==
  ASSUME NEW d, NEW x, WF(d), Room(d), Packed(d), WF(x), Room(x), Packed(x),
         NEW h \in DOMAIN d.ptr, NEW e, e = FirstEmpty(d, h), NEW i, NEW entry, entry.inode = i,
         Added(d, x, h, e, i, entry), NEW n
  PROVE  \A j \in {0} \cup DOMAIN d.ptr :
           Child(x, j, n) = Child(d, j, n) \/ (Child(d, j, n) = 0 /\ Child(x, j, n) = i)
<1>2. ASSUME NEW j \in DOMAIN d.ptr
      PROVE  Child(x, j, n) = Child(d, j, n) \/ (Child(d, j, n) = 0 /\ Child(x, j, n) = i)
  <2> DEFINE A == 0 .. FirstEmpty(d, j) - 1
             B == 0 .. FirstEmpty(x, j) - 1
             K == Kids(d, j, n)
             L == Kids(x, j, n)
  <2>1. /\ A \subseteq B /\ \A f \in A : Entry(x, j, f) = Entry(d, j, f)
        /\ \A f \in B : f \in A \/ (j = h /\ f = e /\ Entry(x, j, f) = entry)
        /\ j = h => e \in B /\ \A f \in A : f < e
        /\ A \in SUBSET Nat /\ B \in SUBSET Nat
    BY EntriesAdded
  <2>2. K = {f \in A : Entry(d, j, f).called = n} /\ L = {f \in B : Entry(x, j, f).called = n}
    BY DEF Kids
  <2>3. j # 0
    BY InodeNumbers
  <2>4. /\ Child(d, j, n) = IF K = {} THEN 0 ELSE Entry(d, j, Min(K)).inode
        /\ Child(x, j, n) = IF L = {} THEN 0 ELSE Entry(x, j, Min(L)).inode
    BY <2>3, ChildDef
  <2> HIDE DEF A, B, K, L
  <2>5. K \subseteq L /\ L \subseteq K \cup {e} /\ K \subseteq A /\ L \subseteq B
        /\ \A f \in L : f \notin K => j = h /\ f = e /\ Entry(x, j, f) = entry
    BY <2>1, <2>2
  <2>6. CASE K # {}
    <3>1. Min(L) = Min(K)
      <4>1. CASE j = h
        <5>1. K \in SUBSET Nat /\ L \in SUBSET Nat /\ \A f \in K : e \in L => f < e
          BY <4>1, <2>1, <2>5
        <5> QED  BY <5>1, <2>5, <2>6, MinAdded
      <4>2. CASE j # h
        <5>1. K = L
          BY <4>2, <2>5
        <5> QED  BY <5>1
      <4> QED  BY <4>1, <4>2
    <3>2. Min(K) \in K
      BY <2>1, <2>5, <2>6, MinFacts
    <3>3. L # {} /\ Entry(x, j, Min(L)) = Entry(d, j, Min(K))
      BY <2>1, <2>5, <3>1, <3>2
    <3> QED  BY <2>4, <2>6, <3>3
  <2>7. CASE K = {} /\ L # {}
    <3>1. Min(L) \in L
      BY <2>1, <2>5, <2>7, MinFacts
    <3>2. Entry(x, j, Min(L)) = entry
      BY <2>5, <2>7, <3>1
    <3> QED  BY <2>4, <2>7, <3>2
  <2>8. CASE K = {} /\ L = {}
    BY <2>4, <2>8
  <2> QED  BY <2>6, <2>7, <2>8
<1>3. Child(x, 0, n) = 0 /\ Child(d, 0, n) = 0
  BY ChildDef
<1> QED  BY <1>2, <1>3

LEMMA INodeOfAdded ==
  ASSUME NEW d, NEW x, WF(d), Room(d), Packed(d), WF(x), Room(x), Packed(x),
         NEW h \in DOMAIN d.ptr, NEW e, e = FirstEmpty(d, h), NEW i, NEW entry, entry.inode = i,
         Added(d, x, h, e, i, entry), NEW path, Len(path) \in Nat
  PROVE  INodeOf(x, path) = INodeOf(d, path) \/ (INodeOf(d, path) = 0 /\ INodeOf(x, path) = i)
<1> DEFINE n == Len(path)
           Fits(u, v) == v = u \/ (u = 0 /\ v = i)
<1>1. PICK a : /\ INodeOfRun(a, d, path) /\ INodeOf(d, path) = a[n]
               /\ \A k \in 0 .. n : a[k] \in {0} \cup DOMAIN d.ptr
  BY INodeOfFacts
<1>2. PICK b : INodeOfRun(b, x, path) /\ INodeOf(x, path) = b[n]
  BY INodeOfDef
<1>6. \A c : Child(x, i, c) = 0
  BY ChildNew
<1> DEFINE S == {k \in Nat : k <= n => Fits(a[k], b[k])}
<1>3. 0 \in S
  BY <1>1, <1>2 DEF INodeOfRun
<1>4. ASSUME NEW k \in Nat, k \in S PROVE k + 1 \in S
  <2> SUFFICES ASSUME k + 1 <= n PROVE Fits(a[k + 1], b[k + 1])
    OBVIOUS
  <2>1. k + 1 \in 0 .. n /\ k + 1 # 0 /\ (k + 1) - 1 = k /\ k \in 0 .. n
    OBVIOUS
  <2> DEFINE u == a[k]
             v == b[k]
             c == path[k + 1]
  <2>2. a[k + 1] = Child(d, u, c) /\ b[k + 1] = Child(x, v, c)
    BY <1>1, <1>2, <2>1 DEF INodeOfRun
  <2>3. Fits(u, v) /\ u \in {0} \cup DOMAIN d.ptr
    BY <1>1, <1>4, <2>1
  <2> HIDE DEF u, v, c
  <2>4. CASE v = u
    <3>1. Child(x, u, c) = Child(d, u, c) \/ (Child(d, u, c) = 0 /\ Child(x, u, c) = i)
      BY <2>3, ChildAdded
    <3> QED  BY <2>2, <2>4, <3>1
  <2>5. CASE u = 0 /\ v = i
    <3>1. Child(d, 0, c) = 0
      BY ChildDef
    <3> QED  BY <1>6, <2>2, <2>5, <3>1
  <2> QED  BY <2>3, <2>4, <2>5
<1> HIDE DEF S
<1>5. n \in S
  BY <1>3, <1>4, Induction
<1> QED  BY <1>1, <1>2, <1>5 DEF S

LEMMA CreationAdds ==
  ASSUME NEW d, Good(d), Room(d), NEW path, NEW called, StandsFor(path, called),
         NEW w, GoodWalk(d, w, Len(path)), w.missing # 0, NEW type, NEW n \in Nat,
         NEW x, x = CreateFile(w, path, called, type, n)
  PROVE  LET i == FirstFree(w.disk.inodes, 3)
         IN /\ w.inode \in DOMAIN d.ptr /\ i \in Nat \ {0} /\ NewEntry(w, path, called, type).inode = i
            /\ Added(d, x, w.inode, FirstEmpty(d, w.inode), i, NewEntry(w, path, called, type))
<1> DEFINE c == w.disk
           h == w.inode
           e == FirstEmpty(d, h)
           i == FirstFree(c.inodes, 3)
           entry == NewEntry(w, path, called, type)
           m == Made(w, path, called, type)
<1>1. /\ WF(c) /\ Grown(d, c) /\ h \in DOMAIN d.ptr /\ h \in DOMAIN c.ptr /\ Room(c) /\ WF(d)
      /\ EntryPtr(FirstEmpty(c, h)) \in DOMAIN c.ptr[h]
  <2>1. /\ WF(c) /\ Grown(d, c) /\ h \in DOMAIN d.ptr /\ WF(d)
        /\ EntryPtr(FirstEmpty(c, h)) \in DOMAIN c.ptr[h]
    BY DEF GoodWalk, Good
  <2>2. DOMAIN c.ptr = DOMAIN d.ptr /\ Room(c)
    BY <2>1 DEF Grown, Room
  <2> QED  BY <2>1, <2>2
<1>2. i \in Nat \ {0} /\ i \notin DOMAIN c.ptr
  <2>1. i \in Nat /\ i >= 3 /\ i \notin c.inodes
    BY <1>1, FirstFreeFacts DEF WF, InodesOK
  <2> QED  BY <1>1, <2>1 DEF WF, InodesOK, Root
<1>3. WF(m) /\ Grown(m, x)
  <2>1. LET y == CreateFile(w, path, called, type, n) IN Good(m) /\ Grown(m, y)
    BY Creation
  <2> QED  BY <2>1 DEF Good
<1>4. m = WithEntry(c, i, <<c.ptr[h][EntryPtr(FirstEmpty(c, h))], FirstEmpty(c, h) % PerBlock>>, entry)
  BY DEF Made
<1>5. entry.inode = i
  BY DEF NewEntry
<1> HIDE DEF c, h, i, entry, m
<1>6. FirstEmpty(c, h) = e /\ e \in Nat /\ ~HasEntry(c, h, FirstEmpty(c, h))
  BY <1>1, GrownFirstEmpty, FirstEmptyFacts, RamDiskAssumption DEF Good
<1> HIDE DEF e
<1>7. Added(c, m, h, e, i, entry)
  BY <1>1, <1>2, <1>4, <1>6, WithEntryAdded
<1>8. Added(d, x, h, e, i, entry)
  BY <1>1, <1>3, <1>6, <1>7, AddedGrown
<1> QED  BY <1>1, <1>2, <1>5, <1>8 DEF h, e, i, entry, c

\* The lookup of a path whose m-th name is the first that is missing.
Failed(a, d, path, m) ==
  /\ \A j \in 0 .. m - 1 : a[j].missing = 0 /\ a[j].disk = d
  /\ a[m].missing = m /\ a[m].inode = a[m - 1].inode /\ a[m].confused = a[m - 1].confused
  /\ Same(d, a[m - 1].inode, path[m]) = {}

LEMMA FailedLookup ==
  ASSUME NEW d, WF(d), Room(d), NEW path, Len(path) \in Nat, NEW a, GetFileRun(a, d, path, path),
         \A k \in 0 .. Len(path) : GoodWalk(d, a[k], k), a[Len(path)].missing # 0
  PROVE  LET m == a[Len(path)].missing
         IN m \in 1 .. Len(path) /\ a[m] = a[Len(path)] /\ Failed(a, d, path, m)
<1> DEFINE n == Len(path)
           H(k) == \/ \A j \in 0 .. k : a[j].missing = 0 /\ a[j].disk = d
                   \/ \E m \in 1 .. k : a[k] = a[m] /\ Failed(a, d, path, m)
           S == {k \in Nat : k <= n => H(k)}
<1>1. 0 \in S
  <2>1. a[0] = Start(d)
    BY DEF GetFileRun
  <2> QED  BY <2>1 DEF Start
<1>2. ASSUME NEW k \in Nat, k \in S PROVE k + 1 \in S
  <2> SUFFICES ASSUME k + 1 <= n PROVE H(k + 1)
    OBVIOUS
  <2>1. k + 1 \in 0 .. n /\ k + 1 # 0 /\ (k + 1) - 1 = k /\ k \in 0 .. n
    OBVIOUS
  <2> DEFINE w == a[k]
             v == a[k + 1]
             c == path[k + 1]
  <2>2. v = Descend(w, c, c) /\ GoodWalk(d, w, k) /\ H(k)
    <3>1. v = Descend(w, c, c)
      BY <2>1 DEF GetFileRun
    <3>2. GoodWalk(d, w, k)
      BY <2>1
    <3>3. H(k)
      <4> HIDE DEF H
      <4> QED  BY <1>2
    <3> QED  BY <3>1, <3>2, <3>3
  <2>3. IsWalk(w) /\ (w.missing = 0 => w.at = k + 1)
    BY <2>2 DEF GoodWalk
  <2>4. Stays(w, v) \/ Misses(w, c, v) \/ Finds(w, c, c, v)
    BY <2>2, <2>3, DescendCases
  <2>5. CASE \E m \in 1 .. k : a[k] = a[m] /\ Failed(a, d, path, m)
    <3>1. PICK m \in 1 .. k : a[k] = a[m] /\ Failed(a, d, path, m)
      BY <2>5
    <3>2. w.missing # 0
      BY <3>1 DEF Failed
    <3>3. v = w
      <4> HIDE DEF w, v
      <4> QED  BY <2>4, <3>2 DEF Stays, Misses, Finds
    <3>4. m \in 1 .. k + 1 /\ a[k + 1] = a[m]
      BY <3>1, <3>3
    <3> QED  BY <3>1, <3>4
  <2>6. CASE \A j \in 0 .. k : a[j].missing = 0 /\ a[j].disk = d
    <3>1. w.missing = 0 /\ w.disk = d /\ w.at = k + 1
      BY <2>1, <2>3, <2>6
    <3>2. CASE Finds(w, c, c, v)
      <4>1. v.missing = 0 /\ v.disk = d
        <5> HIDE DEF w, v
        <5> QED  BY <3>1, <3>2 DEF Finds
      <4>2. \A j \in 0 .. k + 1 : j = k + 1 \/ j \in 0 .. k
        OBVIOUS
      <4> QED  BY <2>6, <4>1, <4>2
    <3>3. CASE Misses(w, c, v)
      <4>1. /\ v.missing = k + 1 /\ v.inode = w.inode /\ v.confused = w.confused
            /\ Same(d, w.inode, c) = {}
        <5> HIDE DEF w, v
        <5> QED  BY <3>1, <3>3 DEF Misses
      <4>2. Failed(a, d, path, k + 1)
        BY <2>1, <2>6, <4>1 DEF Failed
      <4>3. k + 1 \in 1 .. k + 1
        OBVIOUS
      <4> QED  BY <4>2, <4>3
    <3>4. ~Stays(w, v)
      BY <3>1 DEF Stays
    <3> QED  BY <2>4, <3>2, <3>3, <3>4
  <2> QED  BY <2>2, <2>5, <2>6
<1>3. H(n)
  <2> HIDE DEF H
  <2>1. n \in S
    <3> HIDE DEF S
    <3> QED  BY <1>1, <1>2, Induction
  <2> QED  BY <2>1
<1>4. PICK m \in 1 .. n : a[n] = a[m] /\ Failed(a, d, path, m)
  <2>1. n \in 0 .. n
    OBVIOUS
  <2> QED  BY <1>3, <2>1
<1>5. a[n].missing = m
  BY <1>4 DEF Failed
<1> QED  BY <1>4, <1>5

\* When the first missing name has been given to a new file, it is found; what would come
\* below it is not.
LEMMA Again ==
  ASSUME NEW d, Good(d), Room(d), Packed(d), NEW path \in Path,
         LET w == GetFile(d, path, path) IN w.missing # 0 /\ ~w.confused,
         NEW type, NEW l \in Nat,
         NEW x, x = CreateFile(GetFile(d, path, path), path, path, type, l),
         Good(x), Room(x), Packed(x)
  PROVE  LET v == GetFile(x, path, path)
         IN ~v.confused /\ (v.missing = 0 <=> GetFile(d, path, path).missing = Len(path))
<1> DEFINE n == Len(path)
           w == GetFile(d, path, path)
           m == w.missing
           h == w.inode
           e == FirstEmpty(d, h)
           i == FirstFree(w.disk.inodes, 3)
           entry == NewEntry(w, path, path, type)
<1>1. n \in Nat /\ StandsFor(path, path) /\ \A k \in 1 .. n : <<path[k], path[k]>> \in Prefix
  <2>1. path \in Seq(Name) /\ \A b \in Name : <<b, b>> \in Prefix
    BY RamDiskAssumption
  <2>2. \A k \in 1 .. n : path[k] \in Name
    BY <2>1
  <2> QED  BY <2>1, <2>2, Paths
<1>2. WF(d) /\ WF(x)
  BY DEF Good
<1>3. PICK a : /\ GetFileRun(a, d, path, path) /\ w = a[n]
               /\ \A k \in 0 .. n : GoodWalk(d, a[k], k)
  BY <1>1, <1>2, GetFileFacts
<1>4. PICK b : /\ GetFileRun(b, x, path, path) /\ GetFile(x, path, path) = b[n]
               /\ \A k \in 0 .. n : GoodWalk(x, b[k], k)
  BY <1>1, <1>2, GetFileFacts
<1>5. m \in 1 .. n /\ w = a[m] /\ Failed(a, d, path, m) /\ ~w.confused
  BY <1>1, <1>2, <1>3, FailedLookup
<1>6. GoodWalk(d, w, n)
  BY <1>1, <1>3
<1>7. h \in DOMAIN d.ptr /\ i \in Nat \ {0} /\ Added(d, x, h, e, i, entry)
  BY <1>1, <1>5, <1>6, CreationAdds
<1>8. entry.inode = i /\ entry.name = path[m] /\ entry.called = path[m]
  BY DEF NewEntry
<1>9. a[m - 1].inode = h /\ Same(d, h, path[m]) = {} /\ ~a[m - 1].confused
  <2>1. a[m].inode = a[m - 1].inode /\ a[m].confused = a[m - 1].confused /\ Same(d, a[m - 1].inode, path[m]) = {}
    BY <1>5 DEF Failed
  <2> HIDE DEF w
  <2> QED  BY <1>5, <2>1
<1> HIDE DEF i, entry, e, h
<1> DEFINE Before(u, v) == /\ v.missing = 0 /\ v.disk = x /\ v.inode = u.inode
                           /\ v.confused <=> u.confused
           At(v) == v.missing = 0 /\ v.disk = x /\ v.inode = i /\ ~v.confused
           After(v) == v.missing # 0 /\ ~v.confused
           H(k) == \/ k < m /\ Before(a[k], b[k])
                   \/ k = m /\ At(b[k])
                   \/ k > m /\ After(b[k])
           S == {k \in Nat : k <= n => H(k)}
<1> HIDE DEF w, m
<1>10. 0 \in S
  <2>1. a[0] = Start(d) /\ b[0] = Start(x)
    BY <1>1, <1>3, <1>4 DEF GetFileRun
  <2>2. 0 < m
    BY <1>5
  <2> QED  BY <2>1, <2>2 DEF Start
<1>11. ASSUME NEW k \in Nat, k \in S PROVE k + 1 \in S
  <2> SUFFICES ASSUME k + 1 <= n PROVE H(k + 1)
    OBVIOUS
  <2>1. /\ k + 1 \in 0 .. n /\ k + 1 # 0 /\ (k + 1) - 1 = k /\ k \in 0 .. n /\ m \in Nat
        /\ k + 1 \in 1 .. n
    BY <1>1, <1>5
  <2> DEFINE u == a[k]
             v == b[k]
             p == a[k + 1]
             q == b[k + 1]
             c == path[k + 1]
  <2>2. p = Descend(u, c, c) /\ q = Descend(v, c, c)
    BY <1>3, <1>4, <2>1 DEF GetFileRun
  <2>3. GoodWalk(d, u, k) /\ GoodWalk(x, v, k)
    BY <1>3, <1>4, <2>1
  <2>4. IsWalk(u) /\ IsWalk(v) /\ u.inode \in DOMAIN d.ptr /\ (v.missing = 0 => v.at = k + 1)
    BY <2>3 DEF GoodWalk
  <2>5. Stays(u, p) \/ Misses(u, c, p) \/ Finds(u, c, c, p)
    BY <2>2, <2>4, DescendCases
  <2>6. Stays(v, q) \/ Misses(v, c, q) \/ Finds(v, c, c, q)
    BY <2>2, <2>4, DescendCases
  <2>7. H(k)
    <3> HIDE DEF H
    <3> QED  BY <1>11, <2>1
  <2> HIDE DEF u, v, p, q, c
  <2>8. CASE k + 1 < m
    <3>1. u.missing = 0 /\ u.disk = d /\ p.missing = 0 /\ u.at = k + 1
      <4>1. a[k].missing = 0 /\ a[k].disk = d /\ a[k + 1].missing = 0
        BY <1>5, <2>1, <2>8 DEF Failed
      <4> QED  BY <4>1, <2>3 DEF u, p, GoodWalk
    <3>2. Before(u, v)
      BY <2>1, <2>7, <2>8 DEF u, v
    <3>3. Finds(u, c, c, p)
      BY <2>5, <3>1 DEF Stays, Misses
    <3> DEFINE old == Entry(d, u.inode, Min(Same(d, u.inode, c)))
               new == Entry(x, v.inode, Min(Same(x, v.inode, c)))
    <3>4. Same(d, u.inode, c) # {} /\ p.inode = old.inode /\ (p.confused <=> u.confused \/ old.called # c)
      BY <3>1, <3>3 DEF Finds
    <3>5. Same(x, v.inode, c) # {} /\ new = old
      <4> DEFINE j == u.inode
      <4>1. j \in DOMAIN d.ptr /\ Same(d, j, c) # {}
        BY <2>4, <3>4
      <4>2. v.inode = j
        BY <3>2
      <4> HIDE DEF j
      <4>3. Same(x, j, c) # {} /\ Entry(x, j, Min(Same(x, j, c))) = Entry(d, j, Min(Same(d, j, c)))
        <5>1. SameKept(d, x, j, c)
          BY <1>2, <1>7, <4>1, SameAdded DEF e
        <5> QED  BY <4>1, <5>1 DEF SameKept
      <4> QED  BY <4>2, <4>3 DEF j
    <3> HIDE DEF old
    <3>6. Finds(v, c, c, q)
      BY <2>6, <3>2, <3>5 DEF Stays, Misses
    <3>7. q.missing = 0 /\ q.disk = x /\ q.inode = new.inode /\ (q.confused <=> v.confused \/ new.called # c)
      BY <3>2, <3>6 DEF Finds
    <3> HIDE DEF new
    <3>8. Before(p, q)
      BY <3>2, <3>4, <3>5, <3>7
    <3> QED  BY <2>8, <3>8 DEF p, q
  <2>9. CASE k + 1 = m
    <3>1. Before(u, v) /\ u.inode = h /\ ~u.confused /\ c = path[m] /\ Same(d, h, c) = {}
      <4>1. k < m /\ k = m - 1
        BY <2>1, <2>9
      <4>2. Before(u, v)
        BY <2>1, <2>7, <4>1 DEF u, v
      <4> QED  BY <1>9, <2>9, <4>1, <4>2 DEF u, c
    <3>2. Same(x, h, c) # {} /\ Entry(x, h, Min(Same(x, h, c))) = entry
      <4>1. <<c, entry.name>> \in Prefix
        BY <1>1, <1>8, <2>1, <3>1 DEF c
      <4>2. SameNew(d, x, h, entry, h, c)
        BY <1>2, <1>7, SameAdded DEF e
      <4> QED  BY <3>1, <4>1, <4>2 DEF SameNew
    <3>3. v.missing = 0 /\ v.disk = x /\ v.inode = h /\ ~v.confused
      BY <3>1
    <3>4. Finds(v, c, c, q)
      BY <2>6, <3>2, <3>3 DEF Stays, Misses
    <3>5. q.missing = 0 /\ q.disk = x /\ q.inode = entry.inode /\ (q.confused <=> v.confused \/ entry.called # c)
      BY <3>2, <3>3, <3>4 DEF Finds
    <3>6. At(q)
      BY <1>8, <3>1, <3>3, <3>5
    <3> QED  BY <2>9, <3>6 DEF q
  <2>10. CASE k = m
    <3>1. At(v)
      BY <2>1, <2>7, <2>10 DEF v
    <3>2. Same(x, i, c) = {}
      <4>1. FirstEmpty(x, i) = 0
        BY <1>2, <1>7, ChildNew
      <4> QED  BY <4>1 DEF Same
    <3>3. Misses(v, c, q)
      BY <2>6, <3>1, <3>2 DEF Stays, Finds
    <3>4. q.missing = k + 1 /\ q.confused = v.confused
      BY <2>4, <3>1, <3>3 DEF Misses
    <3>5. After(q)
      BY <2>1, <3>1, <3>4
    <3> QED  BY <2>1, <2>10, <3>5 DEF q
  <2>11. CASE k > m
    <3>1. After(v)
      BY <2>1, <2>7, <2>11 DEF v
    <3>2. q = v
      BY <2>6, <3>1 DEF Stays, Misses, Finds
    <3> QED  BY <2>1, <2>11, <3>1, <3>2 DEF q
  <2>12. k + 1 < m \/ k + 1 = m \/ k = m \/ k > m
    BY <2>1
  <2> QED  BY <2>8, <2>9, <2>10, <2>11, <2>12
<1>12. H(n)
  <2> HIDE DEF H
  <2>1. n \in S
    <3> HIDE DEF S, n
    <3> QED  BY <1>1, <1>10, <1>11, Induction
  <2> QED  BY <2>1
<1>13. ~b[n].confused /\ (b[n].missing = 0 <=> m = n)
  BY <1>1, <1>5, <1>12
<1> QED  BY <1>4, <1>13 DEF m, w

--------------------------------------------------------------------------------
(* What files hold                                                         *)

\* The blocks of a file that its size counts are there, and have been written.
Filled(d) ==
  \A j \in DOMAIN d.ptr : \A k \in 1 .. d.size[j] :
    FilePtr(k - 1) \in DOMAIN d.ptr[j] /\ d.ptr[j][FilePtr(k - 1)] \in DOMAIN d.bytes

ContentAt(d, j) ==
  IF j = 0 THEN <<>> ELSE [k \in 1 .. d.size[j] |-> d.bytes[d.ptr[j][FilePtr(k - 1)]]]

LEMMA ContentIsAt == \A d, path : ContentOf(d, path) = ContentAt(d, INodeOf(d, path))
BY DEF ContentOf, ContentAt

LEMMA FilePtrInjective ==
  ASSUME NEW k \in Nat, NEW l \in Nat, FilePtr(k) = FilePtr(l)
  PROVE  k = l
<1>1. NDirect \in Nat
  BY RamDiskAssumption
<1>2. \A x, y : DirectPtr(x) # IndirectPtr(y)
  BY DEF DirectPtr, IndirectPtr
<1>3. CASE k < NDirect /\ l < NDirect
  BY <1>3 DEF FilePtr, DirectPtr
<1>4. CASE ~(k < NDirect) /\ ~(l < NDirect)
  <2>1. k - NDirect \in Nat /\ l - NDirect \in Nat
    BY <1>1, <1>4
  <2>2. IndirectPtr(k - NDirect) = IndirectPtr(l - NDirect)
    BY <1>4 DEF FilePtr
  <2>3. k - NDirect = l - NDirect
    BY <2>1, <2>2, IndirectInjective
  <2> QED  BY <1>1, <2>3
<1> QED  BY <1>2, <1>3, <1>4 DEF FilePtr

LEMMA ContentGrown ==
  ASSUME NEW d, NEW x, Grown(d, x), Filled(d)
  PROVE  Filled(x) /\ \A j \in {0} \cup DOMAIN d.ptr : ContentAt(x, j) = ContentAt(d, j)
<1>1. /\ x.size = d.size /\ x.bytes = d.bytes /\ DOMAIN x.ptr = DOMAIN d.ptr
      /\ \A j \in DOMAIN d.ptr : /\ DOMAIN d.ptr[j] \subseteq DOMAIN x.ptr[j]
                                 /\ \A p \in DOMAIN d.ptr[j] : x.ptr[j][p] = d.ptr[j][p]
  BY DEF Grown
<1>2. \A j \in DOMAIN d.ptr : \A k \in 1 .. d.size[j] :
        /\ FilePtr(k - 1) \in DOMAIN x.ptr[j]
        /\ x.ptr[j][FilePtr(k - 1)] = d.ptr[j][FilePtr(k - 1)]
        /\ x.ptr[j][FilePtr(k - 1)] \in DOMAIN d.bytes
  BY <1>1 DEF Filled
<1>3. Filled(x)
  BY <1>1, <1>2 DEF Filled
<1>4. ASSUME NEW j \in DOMAIN d.ptr
      PROVE  [k \in 1 .. x.size[j] |-> x.bytes[x.ptr[j][FilePtr(k - 1)]]] =
             [k \in 1 .. d.size[j] |-> d.bytes[d.ptr[j][FilePtr(k - 1)]]]
  BY <1>1, <1>2
<1> QED  BY <1>3, <1>4 DEF ContentAt

LEMMA ContentMade ==
  ASSUME NEW d, Good(d), Filled(d), NEW i, i \notin DOMAIN d.ptr, i # 0, NEW cell, NEW entry,
         NEW m, m = WithEntry(d, i, cell, entry)
  PROVE  /\ Filled(m) /\ ContentAt(m, i) = <<>>
         /\ \A j \in {0} \cup DOMAIN d.ptr : ContentAt(m, j) = ContentAt(d, j)
<1>1. m.ptr = Put(d.ptr, i, <<>>) /\ m.size = Put(d.size, i, 0) /\ m.bytes = d.bytes
  BY DEF WithEntry
<1>2. DOMAIN d.size = DOMAIN d.ptr
  BY DEF Good, SizesOK
<1>3. /\ DOMAIN m.ptr = DOMAIN d.ptr \cup {i} /\ m.size[i] = 0
      /\ \A j \in DOMAIN d.ptr : m.ptr[j] = d.ptr[j] /\ m.size[j] = d.size[j]
  BY <1>1, <1>2 DEF Put
<1>4. Filled(m)
  BY <1>1, <1>3 DEF Filled
<1>5. ContentAt(m, i) = <<>>
  <2>1. ContentAt(m, i) = [k \in 1 .. 0 |-> m.bytes[m.ptr[i][FilePtr(k - 1)]]]
    BY <1>3 DEF ContentAt
  <2>2. 1 .. 0 = {}
    OBVIOUS
  <2> QED  BY <2>1, <2>2
<1>6. ASSUME NEW j \in DOMAIN d.ptr
      PROVE  [k \in 1 .. m.size[j] |-> m.bytes[m.ptr[j][FilePtr(k - 1)]]] =
             [k \in 1 .. d.size[j] |-> d.bytes[d.ptr[j][FilePtr(k - 1)]]]
  BY <1>1, <1>3
<1> QED  BY <1>4, <1>5, <1>6 DEF ContentAt

LEMMA SameTree ==
  ASSUME NEW d, NEW x, x.ptr = d.ptr, x.cells = d.cells
  PROVE  /\ Packed(d) => Packed(x)
         /\ \A path : INodeOf(x, path) = INodeOf(d, path)
<1>1. \A i, e : (HasEntry(x, i, e) <=> HasEntry(d, i, e)) /\ Entry(x, i, e) = Entry(d, i, e)
  BY DEF HasEntry, Entry
<1>2. \A i : FirstEmpty(x, i) = FirstEmpty(d, i)
  BY <1>1 DEF FirstEmpty
<1>3. \A i, n : Child(x, i, n) = Child(d, i, n)
  <2>1. \A i, n : Kids(x, i, n) = Kids(d, i, n)
    BY <1>1, <1>2 DEF Kids
  <2> QED  BY <1>1, <2>1, ChildDef
<1>4. \A path : INodeOf(x, path) = INodeOf(d, path)
  <2> TAKE path
  <2> DEFINE X(f) == [k \in 0 .. Len(path) |-> IF k = 0 THEN Root ELSE Child(x, f[k - 1], path[k])]
             D(f) == [k \in 0 .. Len(path) |-> IF k = 0 THEN Root ELSE Child(d, f[k - 1], path[k])]
  <2>1. \A f : X(f) = D(f)
    BY <1>3
  <2>2. INodeOf(x, path) = (CHOOSE f : f = X(f))[Len(path)]
    BY DEF INodeOf
  <2>3. INodeOf(d, path) = (CHOOSE f : f = D(f))[Len(path)]
    BY DEF INodeOf
  <2> HIDE DEF X, D
  <2>4. (CHOOSE f : f = X(f)) = (CHOOSE f : f = D(f))
    BY <2>1
  <2> QED  BY <2>2, <2>3, <2>4
<1>5. Packed(d) => Packed(x)
  BY <1>1 DEF Packed
<1> QED  BY <1>4, <1>5

LEMMA Contents ==
  ASSUME NEW content \in Content
  PROVE  /\ Len(content) \in Nat /\ DOMAIN content = 1 .. Len(content)
         /\ content = [k \in 1 .. Len(content) |-> content[k]]
<1>1. content \in Seq(Range(content))
  BY RamDiskAssumption
<1> QED  BY <1>1

\* Written gives inode i the content, whatever it held, and leaves all other inodes alone.
LEMMA WrittenContent ==
  ASSUME NEW d, Good(d), Room(d), Packed(d), Filled(d), NEW i \in DOMAIN d.ptr,
         NEW content \in Content, NEW x, x = Written(d, i, content)
  PROVE  /\ Packed(x) /\ Filled(x) /\ ContentAt(x, i) = content
         /\ \A j \in {0} \cup DOMAIN d.ptr : j # i => ContentAt(x, j) = ContentAt(d, j)
         /\ \A path : Len(path) \in Nat => INodeOf(x, path) = INodeOf(d, path)
<1> DEFINE n == Len(content)
           full == EnsureAll(d, i, n)
           block(k) == full.ptr[i][FilePtr(k - 1)]
           new == {block(k) : k \in DOMAIN content}
           bytes == [b \in DOMAIN full.bytes \cup new |->
                       IF b \in new THEN content[Min({k \in DOMAIN content : block(k) = b})]
                       ELSE full.bytes[b]]
           size == [full.size EXCEPT ![i] = n]
<1>1. n \in Nat /\ DOMAIN content = 1 .. n /\ content = [k \in 1 .. n |-> content[k]]
  BY Contents
<1>2. WF(d) /\ WF(full) /\ Grown(d, full) /\ \A k \in 1 .. n : FilePtr(k - 1) \in DOMAIN full.ptr[i]
  BY <1>1, EnsureAllFacts DEF Good
<1>3. x = [full EXCEPT !.size[i] = n, !.bytes = bytes]
  BY DEF Written
<1> HIDE DEF n, bytes, full
<1>4. x = [used |-> full.used, inodes |-> full.inodes, ptr |-> full.ptr, size |-> size,
           cells |-> full.cells, bytes |-> bytes]
  BY <1>2, <1>3 DEF WF, IsDisk
<1>5. x.ptr = full.ptr /\ x.size = size /\ x.cells = full.cells /\ x.bytes = bytes
  BY <1>4
<1> HIDE <1>3, <1>4
<1>6. SizesOK(full) /\ i \in DOMAIN full.ptr /\ DOMAIN full.ptr = DOMAIN d.ptr
  BY <1>2, GrownSizes DEF Good, Grown
<1>7. Filled(full) /\ \A j \in {0} \cup DOMAIN d.ptr : ContentAt(full, j) = ContentAt(d, j)
  BY <1>2, ContentGrown
<1>8. \A k, l \in 1 .. n : block(k) = block(l) => k = l
  <2> SUFFICES ASSUME NEW k \in 1 .. n, NEW l \in 1 .. n, block(k) = block(l) PROVE k = l
    OBVIOUS
  <2>1. FilePtr(k - 1) = FilePtr(l - 1)
    BY <1>2, <1>6 DEF WF, BlocksOK
  <2>2. k - 1 \in Nat /\ l - 1 \in Nat
    BY <1>1
  <2>3. k - 1 = l - 1
    BY <2>1, <2>2, FilePtrInjective
  <2> QED  BY <1>1, <2>3
<1>9. \A k \in 1 .. n : block(k) \in DOMAIN bytes /\ bytes[block(k)] = content[k]
  <2> TAKE k \in 1 .. n
  <2> DEFINE K == {l \in DOMAIN content : block(l) = block(k)}
  <2>1. block(k) \in new /\ K = {k}
    BY <1>1, <1>8
  <2>2. Min(K) = k
    <3>1. {k} \in SUBSET Nat
      BY <1>1
    <3>2. Min({k}) \in {k}
      BY <3>1, MinFacts
    <3> QED  BY <2>1, <3>2
  <2>3. block(k) \in DOMAIN bytes /\ bytes[block(k)] = content[Min(K)]
    BY <2>1 DEF bytes
  <2> QED  BY <2>2, <2>3
<1>10. ASSUME NEW j \in DOMAIN full.ptr, j # i, NEW k \in 1 .. full.size[j]
       PROVE  /\ full.ptr[j][FilePtr(k - 1)] \in DOMAIN bytes
              /\ bytes[full.ptr[j][FilePtr(k - 1)]] = full.bytes[full.ptr[j][FilePtr(k - 1)]]
  <2> DEFINE b == full.ptr[j][FilePtr(k - 1)]
  <2>1. FilePtr(k - 1) \in DOMAIN full.ptr[j] /\ b \in DOMAIN full.bytes
    BY <1>7 DEF Filled
  <2>2. b \notin new
    <3> SUFFICES ASSUME NEW l \in 1 .. n, block(l) = b PROVE FALSE
      BY <1>1
    <3> QED  BY <1>2, <1>6, <1>10, <2>1 DEF WF, BlocksOK
  <2> HIDE DEF b, new
  <2> QED  BY <2>1, <2>2 DEF bytes, b
<1> HIDE DEF block, new
<1>11. size[i] = n /\ \A j \in DOMAIN full.ptr : j # i => size[j] = full.size[j]
  BY <1>6 DEF SizesOK
<1> HIDE DEF size
<1>12. Filled(x)
  <2> SUFFICES ASSUME NEW j \in DOMAIN full.ptr, NEW k \in 1 .. size[j]
               PROVE  /\ FilePtr(k - 1) \in DOMAIN full.ptr[j]
                      /\ full.ptr[j][FilePtr(k - 1)] \in DOMAIN bytes
    BY <1>5 DEF Filled
  <2>1. CASE j = i
    BY <1>2, <1>9, <1>11, <2>1 DEF block
  <2>2. CASE j # i
    BY <1>7, <1>10, <1>11, <2>2 DEF Filled
  <2> QED  BY <2>1, <2>2
<1>13. ContentAt(x, i) = content
  <2>1. i # 0
    BY <1>2, InodeNumbers
  <2>2. ContentAt(x, i) = [k \in 1 .. n |-> bytes[full.ptr[i][FilePtr(k - 1)]]]
    BY <1>5, <1>11, <2>1 DEF ContentAt
  <2>3. \A k \in 1 .. n : bytes[full.ptr[i][FilePtr(k - 1)]] = content[k]
    BY <1>9 DEF block
  <2>4. ContentAt(x, i) = [k \in 1 .. n |-> content[k]]
    BY <2>2, <2>3
  <2> QED  BY <1>1, <2>4
<1>14. ASSUME NEW j \in DOMAIN d.ptr, j # i
       PROVE  ContentAt(x, j) = ContentAt(d, j)
  <2>1. j \in DOMAIN full.ptr /\ j # 0
    BY <1>2, <1>6, InodeNumbers
  <2>2. ContentAt(x, j) = [k \in 1 .. full.size[j] |-> bytes[full.ptr[j][FilePtr(k - 1)]]]
    BY <1>5, <1>11, <1>14, <2>1 DEF ContentAt
  <2>3. \A k \in 1 .. full.size[j] :
          bytes[full.ptr[j][FilePtr(k - 1)]] = full.bytes[full.ptr[j][FilePtr(k - 1)]]
    BY <1>10, <1>14, <2>1
  <2>4. ContentAt(full, j) = [k \in 1 .. full.size[j] |-> full.bytes[full.ptr[j][FilePtr(k - 1)]]]
    BY <2>1 DEF ContentAt
  <2>5. ContentAt(x, j) = ContentAt(full, j)
    BY <2>2, <2>3, <2>4
  <2> QED  BY <1>7, <2>5
<1>15. ContentAt(x, 0) = <<>> /\ ContentAt(d, 0) = <<>>
  BY DEF ContentAt
<1>16. Packed(x) /\ \A path : Len(path) \in Nat => INodeOf(x, path) = INodeOf(d, path)
  <2>1. Packed(full)
    BY <1>2, PackedGrown
  <2>2. Packed(x) /\ \A path : INodeOf(x, path) = INodeOf(full, path)
    BY <1>5, <2>1, SameTree
  <2>3. \A path : Len(path) \in Nat => INodeOf(full, path) = INodeOf(d, path)
    BY <1>2, INodeOfGrown
  <2> QED  BY <2>2, <2>3
<1> QED  BY <1>12, <1>13, <1>14, <1>15, <1>16

Whole(d) == Good(d) /\ Packed(d) /\ Filled(d)

\* x holds in its files what d holds.
Unchanged(d, x) == \A q : Len(q) \in Nat => ContentOf(x, q) = ContentOf(d, q)

LEMMA GrownContent ==
  ASSUME NEW d, NEW x, Whole(d), Room(d), Grown(d, x), WF(x)
  PROVE  Whole(x) /\ Unchanged(d, x)
<1>1. Whole(x)
  BY GrownSizes, PackedGrown, ContentGrown DEF Whole, Good
<1>2. ASSUME NEW q, Len(q) \in Nat PROVE ContentOf(x, q) = ContentOf(d, q)
  <2>1. INodeOf(x, q) = INodeOf(d, q)
    BY <1>2, INodeOfGrown DEF Whole, Good
  <2>2. INodeOf(d, q) \in {0} \cup DOMAIN d.ptr
    BY <1>2, INodeOfFacts DEF Whole, Good
  <2>3. \A j \in {0} \cup DOMAIN d.ptr : ContentAt(x, j) = ContentAt(d, j)
    BY ContentGrown DEF Whole
  <2> QED  BY <2>1, <2>2, <2>3, ContentIsAt
<1> QED  BY <1>1, <1>2 DEF Unchanged

LEMMA CreationContent ==
  ASSUME NEW d, Whole(d), Room(d), NEW path, NEW called, StandsFor(path, called),
         NEW w, GoodWalk(d, w, Len(path)), w.missing # 0, NEW type, NEW n \in Nat,
         NEW x, x = CreateFile(w, path, called, type, n), Room(x)
  PROVE  Whole(x) /\ Unchanged(d, x)
<1> DEFINE c == w.disk
           h == w.inode
           e == FirstEmpty(d, h)
           i == FirstFree(c.inodes, 3)
           entry == NewEntry(w, path, called, type)
           m == Made(w, path, called, type)
<1>1. Good(d) /\ WF(d) /\ Packed(d) /\ Filled(d)
  BY DEF Whole, Good
<1>2. /\ h \in DOMAIN d.ptr /\ i \in Nat \ {0} /\ entry.inode = i
      /\ Added(d, x, h, e, i, entry)
  BY <1>1, CreationAdds
<1>3. Good(m) /\ Good(x) /\ Grown(m, x)
  <2>1. LET y == CreateFile(w, path, called, type, n) IN Good(m) /\ Good(y) /\ Grown(m, y)
    BY <1>1, Creation
  <2> QED  BY <2>1
<1>4. WF(c) /\ Grown(d, c)
  BY DEF GoodWalk
<1>5. Whole(c) /\ DOMAIN c.ptr = DOMAIN d.ptr
  BY <1>4, GrownContent DEF Grown
<1>6. i \notin DOMAIN c.ptr
  BY <1>2, <1>5 DEF Added
<1>7. \E cell : m = WithEntry(c, i, cell, entry)
  BY DEF Made
<1> HIDE DEF c, h, e, i, entry, m
<1>8. /\ Filled(m) /\ ContentAt(m, i) = <<>>
      /\ \A j \in {0} \cup DOMAIN c.ptr : ContentAt(m, j) = ContentAt(c, j)
  BY <1>2, <1>5, <1>6, <1>7, ContentMade DEF Whole
<1>9. \A j \in {0} \cup DOMAIN d.ptr : ContentAt(c, j) = ContentAt(d, j)
  BY <1>1, <1>4, ContentGrown
<1>10. Filled(x) /\ \A j \in {0} \cup DOMAIN m.ptr : ContentAt(x, j) = ContentAt(m, j)
  BY <1>3, <1>8, ContentGrown
<1>11. DOMAIN m.ptr = DOMAIN d.ptr \cup {i}
  BY <1>2, <1>3 DEF Added, Grown
<1>12. Packed(x)
  BY <1>1, <1>2, PackedAdded DEF e
<1>13. ASSUME NEW q, Len(q) \in Nat PROVE ContentOf(x, q) = ContentOf(d, q)
  <2>1. INodeOf(x, q) = INodeOf(d, q) \/ (INodeOf(d, q) = 0 /\ INodeOf(x, q) = i)
    BY <1>1, <1>2, <1>3, <1>12, <1>13, INodeOfAdded DEF e, Good
  <2>2. INodeOf(d, q) \in {0} \cup DOMAIN d.ptr
    BY <1>1, <1>13, INodeOfFacts
  <2>3. ContentAt(x, i) = <<>> /\ ContentAt(d, 0) = <<>>
    BY <1>8, <1>10, <1>11 DEF ContentAt
  <2>4. \A j \in {0} \cup DOMAIN d.ptr : ContentAt(x, j) = ContentAt(d, j)
    BY <1>5, <1>8, <1>9, <1>10, <1>11
  <2> QED  BY <2>1, <2>2, <2>3, <2>4, ContentIsAt
<1> QED  BY <1>3, <1>10, <1>12, <1>13 DEF Whole, Unchanged

LEMMA WrittenIsolated ==
  ASSUME NEW d, Whole(d), Room(d), NEW path \in Path, NEW i, i = INodeOf(d, path),
         i \in DOMAIN d.ptr, NEW content \in Content, NEW x, x = Written(d, i, content)
  PROVE  \A p \in Path : ContentOf(x, p) = IF p = path THEN content ELSE ContentOf(d, p)
<1> TAKE p \in Path
<1>1. WF(d) /\ Good(d) /\ Packed(d) /\ Filled(d)
  BY DEF Whole, Good
<1>2. /\ ContentAt(x, i) = content
      /\ \A j \in {0} \cup DOMAIN d.ptr : j # i => ContentAt(x, j) = ContentAt(d, j)
      /\ INodeOf(x, p) = INodeOf(d, p)
  BY <1>1, WrittenContent, Paths
<1>3. INodeOf(d, p) \in {0} \cup DOMAIN d.ptr
  BY <1>1, INodeOfFacts, Paths
<1>4. INodeOf(d, p) = i => p = path
  <2>1. i # 0
    BY <1>1, InodeNumbers
  <2>2. p \in Seq(Name) /\ path \in Seq(Name)
    BY Paths
  <2> QED  BY <1>1, <2>1, <2>2, OnePath
<1> QED  BY <1>2, <1>3, <1>4, ContentIsAt

\* A file is written if and only if there is a directory for it.
LEMMA WrittenIff ==
  ASSUME NEW d, Good(d), Room(d), NEW path \in Path, path # <<>>,
         ~GetFile(d, path, path).confused
  PROVE  LET w == GetFile(d, path, path)
         IN w.missing \in {0, Len(path)} <=> INodeOf(d, Front(path)) # 0
<1> DEFINE front == Front(path)
           n == Len(path)
           c == path[n]
           w == GetFile(d, path, path)
           u == GetFile(d, front, front)
<1>1. WF(d) /\ path \in Seq(Name) /\ n \in Nat \ {0} /\ Len(front) = n - 1 /\ n - 1 \in Nat
  BY Paths, FrontFacts DEF Good
<1>2. w = Descend(u, c, c)
  BY <1>1, GetFileStep
<1>3. GoodWalk(d, u, n - 1)
  BY <1>1, Lookup
<1> HIDE DEF front, n, c, w, u
<1>4. IsWalk(u) /\ (u.missing = 0 => u.at = n) /\ (u.missing # 0 => u.missing \in 1 .. n - 1) /\ u.inode # 0
  BY <1>1, <1>3, InodeNumbers DEF GoodWalk
<1>5. Stays(u, w) \/ Misses(u, c, w) \/ Finds(u, c, c, w)
  BY <1>2, <1>4, DescendCases
<1>6. ~u.confused
  <2>1. ~w.confused
    BY DEF w
  <2> QED  BY <1>5, <2>1 DEF Stays, Misses, Finds
<1>7. INodeOf(d, front) = IF u.missing = 0 THEN u.inode ELSE 0
  <2>1. ~GetFile(d, front, front).confused
    BY <1>6 DEF u
  <2> QED  BY <1>1, <2>1, FollowsPath DEF u
<1>8. w.missing \in {0, n} <=> u.missing = 0
  <2>1. Stays(u, w) => w.missing = u.missing
    BY DEF Stays
  <2>2. Misses(u, c, w) => w.missing = n /\ u.missing = 0
    BY <1>4 DEF Misses
  <2>3. Finds(u, c, c, w) => w.missing = 0 /\ u.missing = 0
    BY DEF Finds
  <2>4. Stays(u, w) => u.missing # 0
    BY DEF Stays
  <2> QED  BY <1>1, <1>4, <1>5, <2>1, <2>2, <2>3, <2>4
<1> QED  BY <1>4, <1>7, <1>8 DEF w, n, front

\* Writing to what a lookup has found.
LEMMA Stores ==
  ASSUME NEW d, Whole(d), Room(d), NEW path \in Path, NEW content \in Content,
         NEW v, v = GetFile(d, path, path),
         NEW x, x = IF v.missing = 0 THEN Written(v.disk, v.inode, content) ELSE v.disk
  PROVE  /\ Packed(x) /\ Filled(x)
         /\ ~v.confused =>
              \A p \in Path : ContentOf(x, p) = IF v.missing = 0 /\ p = path THEN content
                                                ELSE ContentOf(d, p)
<1> DEFINE c == v.disk
           i == v.inode
<1>1. Good(d) /\ WF(d) /\ Len(path) \in Nat
  BY Paths DEF Whole, Good
<1>2. Good(c) /\ Room(c) /\ Grown(d, c) /\ i \in DOMAIN c.ptr /\ WF(c)
  BY <1>1, Lookup DEF Good
<1>3. Whole(c) /\ Unchanged(d, c)
  BY <1>2, GrownContent
<1>4. CASE v.missing # 0
  <2>1. x = c
    BY <1>4
  <2> HIDE DEF c
  <2>2. \A p \in Path : ContentOf(x, p) = ContentOf(d, p)
    BY <1>3, <2>1, Paths DEF Unchanged
  <2> QED  BY <1>3, <1>4, <2>1, <2>2 DEF Whole
<1>5. CASE v.missing = 0
  <2>1. x = Written(c, i, content)
    BY <1>5
  <2>2. ASSUME ~v.confused PROVE i = INodeOf(c, path)
    <3>1. INodeOf(d, path) = i
      BY <1>1, <1>5, <2>2, FollowsPath
    <3>2. INodeOf(c, path) = INodeOf(d, path)
      BY <1>1, <1>2, INodeOfGrown
    <3> QED  BY <3>1, <3>2
  <2> HIDE DEF c, i
  <2>3. Packed(x) /\ Filled(x)
    BY <1>2, <1>3, <2>1, WrittenContent DEF Whole
  <2>4. ASSUME ~v.confused
        PROVE  \A p \in Path : ContentOf(x, p) = IF p = path THEN content ELSE ContentOf(c, p)
    BY <1>2, <1>3, <2>1, <2>2, <2>4, WrittenIsolated
  <2>5. \A p \in Path : ContentOf(c, p) = ContentOf(d, p)
    BY <1>3, Paths DEF Unchanged
  <2> QED  BY <1>5, <2>3, <2>4, <2>5
<1> QED  BY <1>4, <1>5

LEMMA WriteFileResult ==
  ASSUME NEW d, Whole(d), Room(d), NEW path \in Path, NEW content \in Content,
         \A x : Cardinality(DOMAIN x.cells) = Cardinality(DOMAIN d.cells) + 1 => Room(x),
         NEW first, first = GetFile(d, path, path), first.missing = 0 => first.type = REG,
         NEW made, made = CreateFile(first, path, path, REG, Len(content)),
         NEW second, second = IF first.missing = 0 THEN first ELSE GetFile(made, path, path),
         NEW x, x = IF second.missing = 0 THEN Written(second.disk, second.inode, content)
                    ELSE second.disk
  PROVE  /\ Packed(x) /\ Filled(x)
         /\ ~first.confused =>
              /\ \A p \in Path : ContentOf(x, p) = IF second.missing = 0 /\ p = path THEN content
                                                   ELSE ContentOf(d, p)
              /\ second.missing = 0 <=> INodeOf(d, Front(path)) # 0
<1>1. Good(d) /\ WF(d) /\ Packed(d) /\ Len(path) \in Nat /\ StandsFor(path, path) /\ path \in Seq(Name)
  BY Paths DEF Whole, Good
<1>2. Len(content) \in Nat
  BY Contents
<1>3. GoodWalk(d, first, Len(path))
  BY <1>1, Lookup
<1>4. path # <<>>
  <2> SUFFICES ASSUME path = <<>> PROVE FALSE
    OBVIOUS
  <2>1. PICK a : GetFileRun(a, d, path, path) /\ first = a[Len(path)]
    BY <1>1, GetFileFacts
  <2>2. first = Start(d)
    BY <2>1 DEF GetFileRun
  <2>3. Start(d).missing = 0 /\ Start(d).type = DIR
    BY DEF Start
  <2> QED  BY <2>2, <2>3 DEF REG, DIR
<1>5. ~first.confused => (first.missing \in {0, Len(path)} <=> INodeOf(d, Front(path)) # 0)
  BY <1>1, <1>4, WrittenIff
<1>6. CASE first.missing = 0
  <2>1. second = first
    BY <1>6
  <2>2. x = IF first.missing = 0 THEN Written(first.disk, first.inode, content) ELSE first.disk
    BY <2>1
  <2>3. /\ Packed(x) /\ Filled(x)
        /\ ~first.confused =>
             \A p \in Path : ContentOf(x, p) = IF first.missing = 0 /\ p = path THEN content
                                               ELSE ContentOf(d, p)
    BY <2>2, Stores
  <2> QED  BY <1>5, <1>6, <2>1, <2>3
<1>7. CASE first.missing # 0
  <2>1. Good(made) /\ Cardinality(DOMAIN made.cells) = Cardinality(DOMAIN d.cells) + 1
    <3>1. LET y == CreateFile(first, path, path, REG, Len(content))
          IN Good(y) /\ Cardinality(DOMAIN y.cells) = Cardinality(DOMAIN d.cells) + 1
      BY <1>1, <1>2, <1>3, <1>7, Creation
    <3> QED  BY <3>1
  <2>2. Room(made)
    BY <2>1
  <2>3. Whole(made) /\ Unchanged(d, made)
    BY <1>1, <1>2, <1>3, <1>7, <2>2, CreationContent
  <2>4. second = GetFile(made, path, path)
    BY <1>7
  <2>5. /\ Packed(x) /\ Filled(x)
        /\ ~second.confused =>
             \A p \in Path : ContentOf(x, p) = IF second.missing = 0 /\ p = path THEN content
                                               ELSE ContentOf(made, p)
    BY <2>2, <2>3, <2>4, Stores
  <2>6. \A p \in Path : ContentOf(made, p) = ContentOf(d, p)
    BY <2>3, Paths DEF Unchanged
  <2>7. ASSUME ~first.confused
        PROVE  ~second.confused /\ (second.missing = 0 <=> first.missing = Len(path))
    <3>1. Packed(made)
      BY <2>3 DEF Whole
    <3> QED  BY <1>1, <1>2, <1>7, <2>1, <2>2, <2>4, <2>7, <3>1, Again
  <2> QED  BY <1>5, <1>7, <2>5, <2>6, <2>7
<1> QED  BY <1>6, <1>7

--------------------------------------------------------------------------------
(* What the calls do to files                                              *)

Stored == Packed(disk) /\ Filled(disk)

LEMMA MakeDirKeepsFiles ==
  ASSUME IInv, Stored, NEW path \in Path, MakeDir(path)
  PROVE  Stored' /\ Unchanged(disk, disk')
<1>1. PICK n \in Name, stray \in Stray :
        LET called == path \o stray
            made == [called EXCEPT ![Len(path)] = n]
            w == GetFile(disk, made, called)
        IN /\ <<path[Len(path)], n>> \in Prefix /\ calls' = calls + 1 /\ calls < MaxCalls
           /\ disk' = IF w.missing = 0 THEN w.disk ELSE CreateFile(w, made, called, DIR, 0)
  BY DEF MakeDir, Running, Count
<1> DEFINE called == path \o stray
           made == [called EXCEPT ![Len(path)] = n]
           w == GetFile(disk, made, called)
           zero == 0
           type == DIR
           x == CreateFile(w, made, called, type, zero)
<1>2. Len(made) \in Nat /\ StandsFor(made, called)
  BY <1>1, MadePaths
<1>3. disk' = (IF w.missing = 0 THEN w.disk ELSE x) /\ zero \in Nat /\ calls < MaxCalls
  BY <1>1
<1> HIDE DEF made, called, zero, type
<1>4. Whole(disk) /\ Good(disk) /\ WF(disk) /\ Room(disk) /\ Cardinality(DOMAIN disk.cells) \in 0 .. calls
  BY RamDiskAssumption DEF IInv, Room, Stored, Whole, Good
<1>5. GoodWalk(disk, w, Len(made)) /\ Good(w.disk) /\ Grown(disk, w.disk)
  BY <1>2, <1>4, Lookup
<1> HIDE DEF w
<1>6. CASE w.missing = 0
  <2>1. Whole(w.disk) /\ Unchanged(disk, w.disk)
    BY <1>4, <1>5, GrownContent DEF Good
  <2> QED  BY <1>3, <1>6, <2>1 DEF Whole, Stored
<1>7. CASE w.missing # 0
  <2>1. Cardinality(DOMAIN x.cells) = Cardinality(DOMAIN disk.cells) + 1
    <3>1. LET y == CreateFile(w, made, called, type, zero)
          IN Cardinality(DOMAIN y.cells) = Cardinality(DOMAIN disk.cells) + 1
      BY <1>2, <1>3, <1>4, <1>5, <1>7, Creation
    <3> QED  BY <3>1
  <2>2. Room(x)
    BY <1>3, <1>4, <2>1, RamDiskAssumption DEF Room, IInv
  <2>3. Whole(x) /\ Unchanged(disk, x)
    BY <1>2, <1>3, <1>4, <1>5, <1>7, <2>2, CreationContent
  <2> HIDE DEF x
  <2> QED  BY <1>3, <1>7, <2>3 DEF Whole, Stored
<1> QED  BY <1>6, <1>7

LEMMA ReadFileKeepsFiles ==
  ASSUME IInv, Stored, NEW path \in Path, ReadFile(path)
  PROVE  Stored' /\ Unchanged(disk, disk')
<1> DEFINE w == GetFile(disk, path, path)
           full == EnsureAll(w.disk, w.inode, w.disk.size[w.inode])
           x == IF w.missing = 0 THEN full ELSE w.disk
<1>1. disk' = x
  BY DEF ReadFile
<1>2. Whole(disk) /\ Good(disk) /\ Room(disk) /\ Len(path) \in Nat
  BY Paths, RamDiskAssumption DEF IInv, Room, Stored, Whole
<1>3. Good(w.disk) /\ Grown(disk, w.disk) /\ w.inode \in DOMAIN w.disk.ptr
  BY <1>2, Lookup
<1> HIDE DEF w
<1>4. WF(full) /\ Grown(w.disk, full)
  BY <1>3, EnsureAllFacts DEF Good, SizesOK
<1>5. WF(x) /\ Grown(disk, x)
  BY <1>3, <1>4, GrownTrans DEF Good
<1> HIDE DEF x
<1>6. Whole(x) /\ Unchanged(disk, x)
  BY <1>2, <1>5, GrownContent
<1> QED  BY <1>1, <1>6 DEF Whole, Stored

LEMMA WriteFileStores ==
  ASSUME IInv, Stored, NEW path \in Path, NEW content \in Content, WriteFile(path, content)
  PROVE  /\ Stored' /\ done'.path = path /\ done'.content = content /\ done'.op = "WriteFile"
         /\ ~confused' =>
              /\ \A p \in Path : ContentOf(disk', p) = IF done'.ok /\ p = path THEN content
                                                       ELSE ContentOf(disk, p)
              /\ done'.ok <=> INodeOf(disk, Front(path)) # 0
<1> DEFINE first == GetFile(disk, path, path)
           made == CreateFile(first, path, path, REG, Len(content))
           second == IF first.missing = 0 THEN first ELSE GetFile(made, path, path)
           x == IF second.missing = 0 THEN Written(second.disk, second.inode, content)
                ELSE second.disk
<1>1. /\ calls < MaxCalls /\ disk' = x /\ (first.missing = 0 => first.type = REG)
      /\ confused' = (confused \/ first.confused)
      /\ done' = [op |-> "WriteFile", path |-> path, content |-> content, ok |-> second.missing = 0]
  BY DEF WriteFile, Running, Count, Called
<1>2. ~confused' => ~first.confused
  BY <1>1
<1>3. /\ done'.path = path /\ done'.content = content /\ done'.op = "WriteFile"
      /\ done'.ok = (second.missing = 0)
  BY <1>1
<1>4. Whole(disk) /\ Room(disk)
  BY RamDiskAssumption DEF IInv, Room, Stored, Whole
<1>5. \A y : Cardinality(DOMAIN y.cells) = Cardinality(DOMAIN disk.cells) + 1 => Room(y)
  BY <1>1, RamDiskAssumption DEF IInv, Room
<1> HIDE DEF first, made, second, x
<1>6. /\ Packed(x) /\ Filled(x)
      /\ ~first.confused =>
           /\ \A p \in Path : ContentOf(x, p) = IF second.missing = 0 /\ p = path THEN content
                                                ELSE ContentOf(disk, p)
           /\ second.missing = 0 <=> INodeOf(disk, Front(path)) # 0
  BY <1>1, <1>4, <1>5, WriteFileResult DEF first, made, second, x
<1>7. Stored'
  BY <1>1, <1>6 DEF Stored
<1> QED  BY <1>1, <1>2, <1>3, <1>6, <1>7

LEMMA FilesInvariant == Spec => [](IInv /\ Stored)
<1>1. Init => Stored
  <2> SUFFICES ASSUME Init PROVE Stored
    OBVIOUS
  <2> DEFINE d == disk
  <2>1. d.ptr = [i \in {Root} |-> <<>>] /\ d.size = [i \in {Root} |-> 0] /\ d.cells = <<>>
    BY DEF Init
  <2> HIDE DEF d
  <2>2. DOMAIN d.ptr = {Root} /\ DOMAIN d.ptr[Root] = {} /\ d.size[Root] = 0
    BY <2>1
  <2>3. Packed(d)
    BY <2>2 DEF Packed, HasEntry
  <2>4. Filled(d)
    BY <2>2 DEF Filled
  <2> QED  BY <2>3, <2>4 DEF Stored, d
<1>2. IInv /\ Stored /\ [Next]_vars => Stored'
  <2> SUFFICES ASSUME IInv, Stored, [Next]_vars PROVE Stored'
    OBVIOUS
  <2>1. ASSUME NEW path \in Path, MakeDir(path) PROVE Stored'
    BY <2>1, MakeDirKeepsFiles
  <2>2. ASSUME NEW path \in Path, ReadFile(path) PROVE Stored'
    BY <2>2, ReadFileKeepsFiles
  <2>3. ASSUME NEW path \in Path, NEW content \in Content, WriteFile(path, content) PROVE Stored'
    BY <2>3, WriteFileStores
  <2>4. CASE UNCHANGED vars
    BY <2>4 DEF Stored, vars
  <2> QED  BY <2>1, <2>2, <2>3, <2>4 DEF Next
<1> QED  BY <1>1, <1>2, Invariant, PTL DEF Spec

\* As long as no lookup takes one name for another, a call of WriteFile that succeeds gives its
\* file exactly the content of the buffer, longer or shorter than the old one, and no call
\* changes what any other file holds, also when it creates entries, blocks or files on the way.
THEOREM WritesStayInTheirFile == Spec => WriteIsolated
<1> DEFINE A == ~confused' => \A p \in Path :
                  ContentOf(disk', p) = IF done'.op = "WriteFile" /\ done'.ok /\ done'.path = p
                                        THEN done'.content ELSE ContentOf(disk, p)
<1>1. IInv /\ Stored /\ [Next]_vars => [A]_vars
  <2> SUFFICES ASSUME IInv, Stored, Next PROVE A
    OBVIOUS
  <2>1. ASSUME NEW path \in Path, MakeDir(path) PROVE A
    <3>1. done'.op # "WriteFile"
      BY <2>1 DEF MakeDir, Called
    <3>2. \A p \in Path : ContentOf(disk', p) = ContentOf(disk, p)
      BY <2>1, MakeDirKeepsFiles, Paths DEF Unchanged
    <3> QED  BY <3>1, <3>2
  <2>2. ASSUME NEW path \in Path, ReadFile(path) PROVE A
    <3>1. done'.op # "WriteFile"
      BY <2>2 DEF ReadFile, Called
    <3>2. \A p \in Path : ContentOf(disk', p) = ContentOf(disk, p)
      BY <2>2, ReadFileKeepsFiles, Paths DEF Unchanged
    <3> QED  BY <3>1, <3>2
  <2>3. ASSUME NEW path \in Path, NEW content \in Content, WriteFile(path, content) PROVE A
    BY <2>3, WriteFileStores
  <2> QED  BY <2>1, <2>2, <2>3 DEF Next
<1> QED  BY <1>1, FilesInvariant, PTL DEF Spec, WriteIsolated

\* As long as no lookup takes one name for another, WriteFile uses a null pointer if and only if
\* there was no directory for the file: what CreateFile has made under the last name of the path
\* is found by the second lookup, and what it has made under an earlier name never is enough.
THEOREM WritesFailWithoutDirectory == Spec => WriteFaults
<1> DEFINE A == ~confused' /\ done'.op = "WriteFile" =>
                  (done'.ok <=> INodeOf(disk, Front(done'.path)) # 0)
<1>1. IInv /\ Stored /\ [Next]_vars => [A]_vars
  <2> SUFFICES ASSUME IInv, Stored, Next PROVE A
    OBVIOUS
  <2>1. ASSUME NEW path \in Path, MakeDir(path) PROVE A
    BY <2>1 DEF MakeDir, Called
  <2>2. ASSUME NEW path \in Path, ReadFile(path) PROVE A
    BY <2>2 DEF ReadFile, Called
  <2>3. ASSUME NEW path \in Path, NEW content \in Content, WriteFile(path, content) PROVE A
    BY <2>3, WriteFileStores
  <2> QED  BY <2>1, <2>2, <2>3 DEF Next
<1> QED  BY <1>1, FilesInvariant, PTL DEF Spec, WriteFaults
================================================================================
