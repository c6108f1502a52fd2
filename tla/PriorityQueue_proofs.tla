-------------------------- MODULE PriorityQueue_proofs --------------------------
(***************************************************************************)
(* The priority queue is correct for any tasks, start times and initial    *)
(* size.  The property that is inductive is about a node and all of its    *)
(* ancestors rather than a node and its children.                          *)
(***************************************************************************)
EXTENDS PriorityQueue, TLAPS

\* Queued tasks are tasks, and no task is queued twice.
Filled ==
  /\ \A i \in Slots : heap[i] \in Task
  /\ \A i, j \in Slots : heap[i] = heap[j] => i = j

\* No node starts before an ancestor that is in place.
AncestorsOrdered == \A i \in Slots : \A a \in Path(i) \ OutOfPlace : Start(a) <= Start(i)

\* The top of the heap is an ancestor of every node.
Rooted == \A i \in Slots : 1 \in Path(i)

PQInv ==
  /\ PQTypeOK
  /\ BoundsRespected
  /\ maxSize >= 2
  /\ index # 0 => parent < index
  /\ Filled /\ AncestorsOrdered /\ Rooted

--------------------------------------------------------------------------------
(* Paths to the root                                                       *)

LEMMA PathBounds ==
  ASSUME NEW p \in Nat
  PROVE  /\ Path(p) \subseteq 1 .. p
         /\ p # 0 => p \in Path(p)
BY DEF Path

LEMMA PathUp ==
  ASSUME NEW p \in Nat, p > 1
  PROVE  Path(p) = {p} \cup Path(p \div 2)
<1> DEFINE q == p \div 2
<1>1. q \in 1 .. p - 1
  OBVIOUS
<1>2. ASSUME NEW i \in Path(p), i # p PROVE i \in Path(q)
  <2>1. ASSUME NEW S \in SUBSET (1 .. q), q \in S, \A j \in S \ {1} : j \div 2 \in S
        PROVE  i \in S
    <3>1. S \cup {p} \in SUBSET (1 .. p)
      BY <1>1
    <3>2. \A j \in (S \cup {p}) \ {1} : j \div 2 \in S \cup {p}
      BY <2>1
    <3> QED  BY <1>2, <3>1, <3>2 DEF Path
  <2>2. i \in 1 .. q
    <3>1. (1 .. q) \cup {p} \in SUBSET (1 .. p)
      BY <1>1
    <3>2. \A j \in ((1 .. q) \cup {p}) \ {1} : j \div 2 \in (1 .. q) \cup {p}
      BY <1>1
    <3>3. p \in (1 .. q) \cup {p}
      OBVIOUS
    <3>4. i \in (1 .. q) \cup {p}
      BY <3>1, <3>2, <3>3 DEF Path
    <3> QED  BY <1>2, <3>4
  <2> QED  BY <2>1, <2>2 DEF Path
<1>3. ASSUME NEW i \in Path(q) PROVE i \in Path(p)
  <2>1. ASSUME NEW S \in SUBSET (1 .. p), p \in S, \A j \in S \ {1} : j \div 2 \in S
        PROVE  i \in S
    <3> DEFINE T == S \cap (1 .. q)
    <3>1. q \in T
      BY <1>1, <2>1
    <3>2. \A j \in T \ {1} : j \div 2 \in T
      <4> SUFFICES ASSUME NEW j \in T \ {1} PROVE j \div 2 \in T
        OBVIOUS
      <4>1. j \in 2 .. q /\ j \div 2 \in S
        BY <2>1
      <4> QED  BY <1>1, <4>1
    <3>3. T \in SUBSET (1 .. q)
      OBVIOUS
    <3> QED  BY <3>1, <3>2, <3>3 DEF Path
  <2>2. i \in 1 .. p
    BY <1>1 DEF Path
  <2> QED  BY <2>1, <2>2 DEF Path
<1>4. p \in Path(p)
  BY PathBounds
<1> QED  BY <1>2, <1>3, <1>4

LEMMA PathTop == Path(0) = {} /\ Path(1) = {1}
<1>1. Path(0) \subseteq 1 .. 0 /\ Path(1) \subseteq 1 .. 1 /\ 1 \in Path(1)
  BY PathBounds
<1> QED  BY <1>1

\* The path from a proper descendant to a node comes through a child of the node.
LEMMA PathThroughChild ==
  ASSUME NEW p \in Nat, NEW a \in Path(p), a # p
  PROVE  Left(a) \in Path(p) \/ Right(a) \in Path(p)
<1> SUFFICES ASSUME Left(a) \notin Path(p), Right(a) \notin Path(p) PROVE FALSE
  OBVIOUS
<1> DEFINE S == Path(p) \ {a}
<1>1. S \in SUBSET (1 .. p) /\ a \in 1 .. p /\ p \in S
  BY PathBounds
<1>2. \A j \in S \ {1} : j \div 2 \in S
  <2> SUFFICES ASSUME NEW j \in S, j # 1 PROVE j \div 2 \in S
    OBVIOUS
  <2>1. j \in 2 .. p
    BY <1>1
  <2>2. j \div 2 \in Path(p)
    <3>1. j \div 2 \in 1 .. p
      BY <2>1
    <3> QED  BY <2>1, <3>1 DEF Path
  <2>3. j \div 2 # a
    BY <1>1, <2>1 DEF Left, Right
  <2> QED  BY <2>2, <2>3
<1> HIDE DEF S
<1>3. a \in S
  BY <1>1, <1>2 DEF Path
<1> QED  BY <1>3 DEF S

--------------------------------------------------------------------------------
(* The invariant                                                           *)

LEMMA StartType ==
  ASSUME Filled, NEW i \in Slots
  PROVE  Start(i) \in Nat
BY QueueNames DEF Filled, Start

LEMMA InitLemma == PQInit => PQInv
<1> SUFFICES ASSUME PQInit PROVE PQInv
  OBVIOUS
<1>1. Slots = {}
  BY DEF PQInit, Slots
<1>2. PQTypeOK /\ BoundsRespected /\ maxSize >= 2 /\ index = 0
  BY SizeAssumption DEF PQInit, PQTypeOK, BoundsRespected
<1> QED  BY <1>1, <1>2 DEF PQInv, Filled, AncestorsOrdered, Rooted

LEMMA InsertLemma == ASSUME PQInv, NEW t \in Task, Insert(t) PROVE PQInv'
<1>0. PICK n : n = size + 1
  OBVIOUS
<1>1. /\ size \in Nat /\ maxSize \in Nat /\ maxSize >= 2 /\ size <= maxSize - 1
      /\ index = 0 /\ parent = 0 /\ size' = n /\ parent' = n \div 2 /\ index' = 0
      /\ taken' = taken /\ n \in Nat \ {0}
  BY <1>0 DEF PQInv, PQTypeOK, BoundsRespected, Insert, Quiet
<1>2. /\ maxSize' \in Nat /\ maxSize' >= 2 /\ n <= maxSize' - 1
      /\ heap' \in [0 .. maxSize' - 1 -> Task \cup {NoTask}]
      /\ heap'[n] = t /\ \A i \in Slots : heap'[i] = heap[i]
  <2>1. heap \in [0 .. maxSize - 1 -> Task \cup {NoTask}]
    BY DEF PQInv, PQTypeOK
  <2>2. CASE n > maxSize - 1
    BY <1>0, <1>1, <2>1, <2>2 DEF Insert, Grown, Slots
  <2>3. CASE ~(n > maxSize - 1)
    BY <1>0, <1>1, <2>1, <2>3 DEF Insert, Slots
  <2> QED  BY <2>2, <2>3
<1>3. n \div 2 \in 0 .. n
  BY <1>1
<1>4. PQTypeOK' /\ BoundsRespected'
  <2>1. taken' \in Task \cup {NoTask} /\ n \in Nat /\ parent' \in 0 .. n
    BY <1>1, <1>3 DEF PQInv, PQTypeOK
  <2>2. 0 <= n + 1
    BY <2>1
  <2> QED  BY <1>1, <1>2, <2>1, <2>2 DEF PQTypeOK, BoundsRespected
<1>5. Slots' = Slots \cup {n} /\ n \notin Slots
  BY <1>0, <1>1 DEF Slots
<1>6. Filled'
  <2>1. /\ \A i \in Slots : heap[i] \in Task /\ heap[i] # t
        /\ \A i, j \in Slots : heap[i] = heap[j] => i = j
    BY DEF PQInv, Filled, Insert
  <2> QED  BY <1>2, <1>5, <2>1 DEF Filled
<1>7. AncestorsOrdered'
  <2> SUFFICES ASSUME NEW i \in Slots', NEW a \in Path(i), a \notin OutOfPlace'
               PROVE  Start(a)' <= Start(i)'
    BY DEF AncestorsOrdered
  <2>1. CASE i = n
    <3>1. a = n
      BY <1>1, <2>1, PathUp, PathTop DEF OutOfPlace
    <3>2. Start(n)' \in Nat
      BY <1>5, <1>6, StartType, QueueNames DEF Filled, Start
    <3> QED  BY <2>1, <3>1, <3>2
  <2>2. CASE i \in Slots
    <3>1. a \in Slots
      BY <1>1, <2>2, PathBounds DEF Slots
    <3>2. a \notin OutOfPlace
      BY <1>1, <3>1, PathTop DEF OutOfPlace, Slots
    <3>3. Start(a) <= Start(i)
      BY <2>2, <3>2 DEF PQInv, AncestorsOrdered
    <3> QED  BY <1>2, <2>2, <3>1, <3>3 DEF Start
  <2> QED  BY <1>5, <2>1, <2>2
<1>8. Rooted'
  <2> SUFFICES 1 \in Path(n)
    BY <1>5 DEF PQInv, Rooted
  <2>1. CASE n = 1
    BY <2>1, PathTop
  <2>2. CASE n > 1
    <3>1. n \div 2 \in Slots
      BY <1>0, <1>1, <2>2 DEF Slots
    <3> QED  BY <1>1, <2>2, <3>1, PathUp DEF PQInv, Rooted
  <2> QED  BY <1>1, <2>1, <2>2
<1> QED  BY <1>1, <1>2, <1>4, <1>6, <1>7, <1>8 DEF PQInv

LEMMA ClimbLemma == ASSUME PQInv, Climb PROVE PQInv'
<1>1. /\ index = 0 /\ parent \in 1 .. size /\ size \in Nat /\ index' = parent
      /\ parent' = parent \div 2
      /\ UNCHANGED <<heap, size, maxSize, taken>>
  BY DEF PQInv, PQTypeOK, Climb
<1>2. parent' \in 0 .. size /\ parent' < index'
  BY <1>1
<1>3. PQTypeOK' /\ BoundsRespected' /\ Filled' /\ Rooted'
  BY <1>1, <1>2 DEF PQInv, PQTypeOK, BoundsRespected, Filled, Rooted, Slots
<1>4. Path(parent) \subseteq OutOfPlace'
  <2>1. CASE parent = 1
    BY <1>1, <2>1, PathTop DEF OutOfPlace
  <2>2. CASE parent > 1
    BY <1>1, <2>2, PathUp DEF OutOfPlace
  <2> QED  BY <1>1, <2>1, <2>2
<1>5. AncestorsOrdered'
  <2> SUFFICES ASSUME NEW i \in Slots, NEW a \in Path(i), a \notin OutOfPlace'
               PROVE  Start(a) <= Start(i)
    BY <1>1 DEF AncestorsOrdered, Slots, Start
  <2>1. a # 0
    BY <1>1, PathBounds DEF Slots
  <2> QED  BY <1>1, <1>4, <2>1 DEF PQInv, AncestorsOrdered, OutOfPlace
<1> QED  BY <1>1, <1>2, <1>3, <1>5 DEF PQInv

\* What Heapify calls min is the node or a child, and none of the three starts earlier.
LEMMA SmallestLemma ==
  ASSUME PQTypeOK, Filled, index \in Slots
  PROVE  LET c == Smallest(index)
         IN /\ c \in {index, Left(index), Right(index)} /\ c \in Slots
            /\ c # index => Start(c) < Start(index)
            /\ Start(c) <= Start(index)
            /\ Left(index) <= size => Start(c) <= Start(Left(index))
            /\ Right(index) <= size => Start(c) <= Start(Right(index))
<1>1. index \in Nat \ {0} /\ size \in Nat /\ Left(index) \in Nat \ {0} /\ Right(index) \in Nat \ {0}
      /\ Left(index) # index /\ Right(index) # index /\ index <= size
  BY DEF PQTypeOK, Slots, Left, Right
<1>2. \A i \in Nat \ {0} : i <= size => i \in Slots /\ Start(i) \in Nat
  BY <1>1, StartType DEF Slots
<1> QED  BY <1>1, <1>2 DEF Smallest

LEMMA SinkLemma == ASSUME PQInv, Sink PROVE PQInv'
<1>0. PICK p, c : p = index /\ c = Smallest(index)
  OBVIOUS
<1>1. /\ p \in Slots /\ size \in Nat /\ c # p
      /\ heap' = [heap EXCEPT ![p] = heap[c], ![c] = heap[p]] /\ index' = c
      /\ UNCHANGED <<size, maxSize, parent, taken>>
      /\ parent \in Nat /\ parent < p
  BY <1>0 DEF PQInv, PQTypeOK, Sink, Slots
<1>2. /\ c \in {Left(p), Right(p)} /\ c \in Slots /\ Start(c) < Start(p)
      /\ Left(p) <= size => Start(c) <= Start(Left(p))
      /\ Right(p) <= size => Start(c) <= Start(Right(p))
  BY <1>0, <1>1, SmallestLemma DEF PQInv
<1>3. c \in Nat /\ c > p /\ c <= size /\ p \in 1 .. size
  BY <1>1, <1>2 DEF Slots, Left, Right
<1>4. /\ heap \in [0 .. maxSize - 1 -> Task \cup {NoTask}] /\ size <= maxSize - 1
      /\ maxSize \in Nat /\ Slots \subseteq 0 .. maxSize - 1
  BY DEF PQInv, PQTypeOK, BoundsRespected, Slots
<1>5. /\ heap'[p] = heap[c] /\ heap'[c] = heap[p]
      /\ \A i \in Slots \ {p, c} : heap'[i] = heap[i]
      /\ heap' \in [0 .. maxSize - 1 -> Task \cup {NoTask}]
  BY <1>1, <1>2, <1>4
<1>6. PQTypeOK' /\ BoundsRespected' /\ Filled' /\ Rooted'
  <2>1. PQTypeOK'
    BY <1>1, <1>3, <1>5 DEF PQInv, PQTypeOK
  <2>2. BoundsRespected'
    BY <1>1, <1>3, <1>4 DEF BoundsRespected
  <2>3. Filled'
    <3>1. Slots' = Slots /\ p \in Slots /\ c \in Slots
      BY <1>1, <1>2 DEF Slots
    <3>2. /\ \A i \in Slots : heap[i] \in Task
          /\ \A i, j \in Slots : heap[i] = heap[j] => i = j
      BY DEF PQInv, Filled
    <3> QED  BY <1>5, <3>1, <3>2 DEF Filled
  <2>4. Rooted'
    BY <1>1 DEF PQInv, Rooted, Slots
  <2> QED  BY <2>1, <2>2, <2>3, <2>4
<1>7. /\ Start(p)' = Start(c) /\ Start(c)' = Start(p)
      /\ \A i \in Slots \ {p, c} : Start(i)' = Start(i)
  BY <1>1, <1>5 DEF Start
<1>8. \A i \in Slots : Start(i) \in Nat
  BY StartType DEF PQInv
<1>9. p \notin Path(parent) /\ \A a \in Path(parent) : a < p
  BY <1>1, <1>3, PathBounds
<1>10. Path(c) = {c} \cup Path(p)
  <2>1. c \div 2 = p /\ c > 1
    BY <1>2, <1>3 DEF Left, Right
  <2> QED  BY <1>3, <2>1, PathUp
<1>11. AncestorsOrdered'
  <2> SUFFICES ASSUME NEW i \in Slots, NEW a \in Path(i), a # c, a \notin Path(parent)
               PROVE  Start(a)' <= Start(i)'
    BY <1>1 DEF AncestorsOrdered, Slots, OutOfPlace
  <2>1. i \in Nat /\ i <= size /\ a \in 1 .. i /\ a \in Slots
    BY <1>1, PathBounds DEF Slots
  <2>2. \A k \in Slots : \A b \in Path(k) \ OutOfPlace : Start(b) <= Start(k)
    BY DEF PQInv, AncestorsOrdered
  <2>3. CASE a = p /\ i \notin {p, c}
    <3>1. PICK b \in {Left(p), Right(p)} : b \in Path(i)
      BY <2>1, <2>3, PathThroughChild
    <3>2. b \in Nat /\ b > p /\ b <= i
      BY <1>3, <2>1, <3>1, PathBounds DEF Left, Right
    <3>3. b \notin OutOfPlace
      BY <1>0, <1>9, <1>3, <3>2 DEF OutOfPlace
    <3>4. b \in Slots
      BY <1>1, <1>3, <2>1, <3>2 DEF Slots
    <3>5. Start(b) <= Start(i)
      BY <2>2, <3>1, <3>3
    <3>6. Start(c) <= Start(b)
      BY <1>1, <1>2, <2>1, <3>1, <3>2
    <3> QED  BY <1>2, <1>7, <1>8, <2>3, <3>4, <3>5, <3>6
  <2>4. CASE a = p /\ i = p
    BY <1>2, <1>7, <1>8, <2>4
  <2>5. CASE a = p /\ i = c
    BY <1>1, <1>2, <1>7, <1>8, <2>5
  <2>6. CASE a # p
    <3>1. a \notin OutOfPlace
      BY <1>0, <2>6 DEF OutOfPlace
    <3>2. CASE i = p
      <4>1. Start(a) <= Start(c)
        BY <1>2, <1>10, <2>2, <3>1, <3>2
      <4> QED  BY <1>7, <2>1, <2>6, <3>2, <4>1
    <3>3. CASE i = c
      <4>1. Start(a) <= Start(p)
        BY <1>1, <1>10, <2>2, <3>1, <3>3
      <4> QED  BY <1>7, <2>1, <2>6, <3>3, <4>1
    <3>4. CASE i \notin {p, c}
      BY <1>7, <2>1, <2>2, <2>6, <3>1, <3>4
    <3> QED  BY <3>2, <3>3, <3>4
  <2> QED  BY <2>3, <2>4, <2>5, <2>6
<1> QED  BY <1>1, <1>3, <1>6, <1>11 DEF PQInv

LEMMA SettleLemma == ASSUME PQInv, Settle PROVE PQInv'
<1>1. /\ index \in Nat \ {0} /\ size \in Nat /\ index' = 0 /\ parent \in Nat /\ parent < index
      /\ UNCHANGED <<heap, size, maxSize, parent, taken>>
  BY DEF PQInv, PQTypeOK, Settle
<1>2. PQTypeOK' /\ BoundsRespected' /\ Filled' /\ Rooted'
  BY <1>1 DEF PQInv, PQTypeOK, BoundsRespected, Filled, Rooted, Slots
<1>3. \A i \in Slots : Start(i) \in Nat
  BY StartType DEF PQInv
<1>4. \A k \in Slots : \A b \in Path(k) \ OutOfPlace : Start(b) <= Start(k)
  BY DEF PQInv, AncestorsOrdered
<1>5. AncestorsOrdered'
  <2> SUFFICES ASSUME NEW i \in Slots, NEW a \in Path(i), a \notin Path(parent)
               PROVE  Start(a) <= Start(i)
    BY <1>1 DEF AncestorsOrdered, OutOfPlace, Slots, Start
  <2>1. CASE a # index
    BY <1>4, <2>1 DEF OutOfPlace
  <2>2. CASE a = i
    BY <1>3, <2>2
  <2>3. CASE a = index /\ a # i
    <3>1. i \in Nat /\ i <= size
      BY <1>1 DEF Slots
    <3>2. PICK b \in {Left(index), Right(index)} : b \in Path(i)
      BY <2>3, <3>1, PathThroughChild
    <3>3. b \in Nat /\ b > index /\ b <= i /\ index \in Slots
      BY <1>1, <2>3, <3>1, <3>2, PathBounds DEF Left, Right, Slots
    <3>4. b \notin OutOfPlace /\ b \in Slots
      BY <1>1, <3>1, <3>3, PathBounds DEF OutOfPlace, Slots
    <3>5. Start(b) <= Start(i)
      BY <1>4, <3>2, <3>4
    <3>6. Smallest(index) = index
      BY <1>1, <3>1, <3>3 DEF Settle
    <3>7. Start(index) <= Start(b)
      BY <1>1, <3>1, <3>2, <3>3, <3>6, SmallestLemma DEF PQInv
    <3> QED  BY <1>3, <2>3, <3>3, <3>4, <3>5, <3>7
  <2> QED  BY <2>1, <2>2, <2>3
<1> QED  BY <1>1, <1>2, <1>5 DEF PQInv

LEMMA DequeLemma == ASSUME PQInv, Deque PROVE PQInv'
<1>0. PICK n : n = size
  OBVIOUS
<1>1. /\ n \in Nat \ {0} /\ index = 0 /\ parent = 0 /\ size' = n - 1 /\ index' = 1
      /\ heap' = [heap EXCEPT ![1] = heap[n]] /\ taken' = heap[1]
      /\ UNCHANGED <<maxSize, parent>>
  BY <1>0 DEF PQInv, PQTypeOK, Deque, Quiet
<1>2. /\ Slots = 1 .. n /\ Slots' = 1 .. n - 1 /\ 1 \in Slots /\ n \in Slots
  BY <1>0, <1>1 DEF Slots
<1>3. /\ heap \in [0 .. maxSize - 1 -> Task \cup {NoTask}] /\ n <= maxSize - 1
      /\ maxSize \in Nat /\ Slots \subseteq 0 .. maxSize - 1
  BY <1>0, <1>1, <1>2 DEF PQInv, PQTypeOK, BoundsRespected
<1>4. /\ \A i \in Slots : heap[i] \in Task
      /\ \A i, j \in Slots : heap[i] = heap[j] => i = j
  BY DEF PQInv, Filled
<1>5. /\ heap' \in [0 .. maxSize - 1 -> Task \cup {NoTask}] /\ heap'[1] = heap[n]
      /\ \A i \in Slots \ {1} : heap'[i] = heap[i]
  BY <1>1, <1>2, <1>3, <1>4
<1>6. PQTypeOK' /\ BoundsRespected'
  BY <1>1, <1>2, <1>3, <1>4, <1>5 DEF PQTypeOK, BoundsRespected
<1>7. Filled'
  <2>1. \A i \in Slots' : i \in Slots /\ i # n
    BY <1>1, <1>2
  <2> QED  BY <1>2, <1>4, <1>5, <2>1 DEF Filled
<1>8. AncestorsOrdered'
  <2> SUFFICES ASSUME NEW i \in Slots', NEW a \in Path(i), a # 1
               PROVE  Start(a)' <= Start(i)'
    BY <1>1 DEF AncestorsOrdered, OutOfPlace
  <2>1. a \in Slots /\ i \in Slots /\ i # 1
    BY <1>1, <1>2, PathBounds
  <2>2. a \notin OutOfPlace
    BY <1>1, <1>2, <2>1, PathTop DEF OutOfPlace
  <2>3. Start(a) <= Start(i)
    BY <2>1, <2>2 DEF PQInv, AncestorsOrdered
  <2> QED  BY <1>5, <2>1, <2>3 DEF Start
<1>9. Rooted'
  BY <1>1, <1>2 DEF PQInv, Rooted
<1> QED  BY <1>1, <1>6, <1>7, <1>8, <1>9 DEF PQInv

LEMMA StepLemma == PQInv /\ [PQNext]_vars => PQInv'
<1> SUFFICES ASSUME PQInv, [PQNext]_vars PROVE PQInv'
  OBVIOUS
<1>1. CASE UNCHANGED vars
  BY <1>1 DEF vars, PQInv, PQTypeOK, BoundsRespected, Filled, AncestorsOrdered, Rooted,
              Slots, OutOfPlace, Start
<1> QED
  BY <1>1, InsertLemma, ClimbLemma, SinkLemma, SettleLemma, DequeLemma DEF PQNext

LEMMA QueueInvariant == PQSpec => []PQInv
BY InitLemma, StepLemma, PTL DEF PQSpec

--------------------------------------------------------------------------------
(* What follows                                                            *)

\* Insert, Heapify and Deque keep the types of the variables.
THEOREM QueueTypeCorrect == PQSpec => []PQTypeOK
<1>1. PQInv => PQTypeOK
  BY DEF PQInv
<1> QED  BY <1>1, QueueInvariant, PTL

\* However many tasks are inserted, the array has room for them, and Heapify
\* does not leave it.
THEOREM NeverOutOfBounds == PQSpec => []BoundsRespected
<1>1. PQInv => BoundsRespected
  BY DEF PQInv
<1> QED  BY <1>1, QueueInvariant, PTL

\* Heapifying the ancestors from the bottom up, and the top after a Deque, restores
\* the order of the heap.
THEOREM QueueOrdered == PQSpec => []HeapOrdered
<1>1. ASSUME PQInv PROVE HeapOrdered
  <2> SUFFICES ASSUME NEW i \in Slots \ OutOfPlace, NEW b \in {Left(i), Right(i)}, b <= size
               PROVE  Start(i) <= Start(b)
    BY DEF HeapOrdered
  <2>1. size \in Nat /\ i \in Nat \ {0}
    BY <1>1 DEF PQInv, PQTypeOK, Slots
  <2>2. b \in Slots /\ b > 1 /\ b \div 2 = i /\ b \in Nat
    BY <2>1 DEF Left, Right, Slots
  <2>3. i \in Path(b)
    BY <2>1, <2>2, PathUp, PathBounds
  <2> QED  BY <1>1, <2>2, <2>3 DEF PQInv, AncestorsOrdered
<1> QED  BY <1>1, QueueInvariant, PTL

LEMMA AbstractStep == ASSUME PQInv, PQNext PROVE [Abstract!QueueNext]_<<{heap[i] : i \in Slots}, taken>>
<1> DEFINE members == {heap[i] : i \in Slots}
<1>1. ASSUME NEW t \in Task, Insert(t) PROVE Abstract!Put(t)
  <2>1. PICK n : n = size + 1
    OBVIOUS
  <2>2. n \in Nat \ {0} /\ size \in Nat /\ Slots' = Slots \cup {n} /\ n \notin Slots /\ taken' = taken
    BY <1>1, <2>1 DEF PQInv, PQTypeOK, Insert, Slots
  <2>3. heap'[n] = t /\ \A i \in Slots : heap'[i] = heap[i]
    <3>1. /\ heap \in [0 .. maxSize - 1 -> Task \cup {NoTask}] /\ maxSize \in Nat
          /\ size <= maxSize - 1 /\ maxSize >= 2
      BY DEF PQInv, PQTypeOK, BoundsRespected
    <3>2. CASE n > maxSize - 1
      BY <1>1, <2>1, <2>2, <3>1, <3>2 DEF Insert, Grown, Slots
    <3>3. CASE ~(n > maxSize - 1)
      BY <1>1, <2>1, <2>2, <3>1, <3>3 DEF Insert, Slots
    <3> QED  BY <3>2, <3>3
  <2>4. members' = members \cup {t}
    BY <2>2, <2>3
  <2>5. t \notin members
    BY <1>1 DEF Insert
  <2> QED  BY <2>2, <2>4, <2>5 DEF Abstract!Put
<1>2. ASSUME Climb \/ Settle PROVE UNCHANGED <<members, taken>>
  BY <1>2 DEF Climb, Settle, Slots
<1>3. ASSUME Sink PROVE UNCHANGED <<members, taken>>
  <2>1. PICK p, c : p = index /\ c = Smallest(index)
    OBVIOUS
  <2>2. /\ p \in Slots /\ c \in Slots /\ Slots' = Slots /\ taken' = taken
        /\ heap' = [heap EXCEPT ![p] = heap[c], ![c] = heap[p]]
    <3>1. index \in Slots
      BY <1>3 DEF PQInv, PQTypeOK, Sink, Slots
    <3> QED  BY <1>3, <2>1, <3>1, SmallestLemma DEF PQInv, Sink, Slots
  <2>3. Slots \subseteq DOMAIN heap
    BY DEF PQInv, PQTypeOK, BoundsRespected, Slots
  <2>4. heap'[p] = heap[c] /\ heap'[c] = heap[p] /\ \A i \in Slots \ {p, c} : heap'[i] = heap[i]
    BY <2>2, <2>3
  <2> QED  BY <2>2, <2>4
<1>4. ASSUME Deque PROVE \E t \in Task : Abstract!Take(t)
  <2>1. PICK n : n = size
    OBVIOUS
  <2>2. /\ n \in Nat \ {0} /\ Slots = 1 .. n /\ Slots' = 1 .. n - 1 /\ 1 \in Slots /\ n \in Slots
        /\ taken' = heap[1] /\ heap' = [heap EXCEPT ![1] = heap[n]] /\ index = 0 /\ parent = 0
    BY <1>4, <2>1 DEF PQInv, PQTypeOK, Deque, Quiet, Slots
  <2>3. /\ Slots \subseteq DOMAIN heap
        /\ \A i \in Slots : heap[i] \in Task
        /\ \A i, j \in Slots : heap[i] = heap[j] => i = j
    BY <2>2 DEF PQInv, PQTypeOK, BoundsRespected, Slots, Filled
  <2>4. \A i \in Slots : startTime[heap[1]] <= startTime[heap[i]]
    BY <2>2, PathTop DEF PQInv, AncestorsOrdered, Rooted, OutOfPlace, Start
  <2>5. members' = members \ {heap[1]}
    <3>1. heap'[1] = heap[n] /\ \A i \in Slots \ {1} : heap'[i] = heap[i]
      BY <2>2, <2>3
    <3>2. \A i \in Slots : i \in Slots' <=> i # n
      BY <2>2
    <3> QED  BY <2>2, <2>3, <3>1, <3>2
  <2>6. heap[1] \in members /\ heap[1] \in Task
    BY <2>2, <2>3
  <2> QED  BY <2>2, <2>4, <2>5, <2>6 DEF Abstract!Take
<1> QED  BY <1>1, <1>2, <1>3, <1>4 DEF PQNext, Abstract!QueueNext

\* The heap implements the queue that the scheduler is modelled with: Deque takes
\* out a task that starts earliest, and nothing is lost or added on the way.
THEOREM HeapIsAQueue == PQSpec => ImplementsQueue
<1>1. PQInit => Abstract!QueueInit
  BY DEF PQInit, Abstract!QueueInit, Slots
<1>2. PQInv /\ [PQNext]_vars => [Abstract!QueueNext]_<<{heap[i] : i \in Slots}, taken>>
  <2>1. UNCHANGED vars => UNCHANGED <<{heap[i] : i \in Slots}, taken>>
    BY DEF vars, Slots
  <2> QED  BY <2>1, AbstractStep
<1> QED  BY <1>1, <1>2, QueueInvariant, PTL DEF PQSpec, ImplementsQueue, Abstract!QueueSpec
================================================================================
