--------------------------- MODULE KernelLocks_proofs ---------------------------
(***************************************************************************)
(* The order of the locks, for any number of cores and tasks: no threads   *)
(* spin on the locks of one another in a circle, and wait for one another  *)
(* in any other way only where a handler came over a holder.               *)
(***************************************************************************)
EXTENDS KernelLocks, SequenceTheorems, TLAPS

\* The order: standard input, the schedulers, the heap and the handle counter.
Rank(l) == CASE l[1] = "stdin" -> 0 [] l[1] = "schedulerLock" -> 1 [] OTHER -> 2

Step == [op : {"acquire", "release"}, lock : Lock] \cup {Again}

\* Steps i to j, the last one excluded, do not acquire l.
Without(p, i, j, l) == \A k \in i .. j - 1 : p[k] # Acq(l)

\* l is held before step i of p, as its release comes before an acquisition of it.
HeldAt(p, i, l) == \E j \in i .. Len(p) : p[j] = Rel(l) /\ Without(p, i, j, l)

\* A lock is acquired, alone or in a search, only when those that are held come before it
\* in the order.
Ordered(p) ==
  \A i \in 1 .. Len(p) : \A l \in Lock :
    p[i].op # "release" /\ HeldAt(p, i, l) => Rank(l) < Rank(p[i].lock)

\* What is acquired is released.
Paired(p) == \A i \in 1 .. Len(p) : \A l \in Lock : p[i] = Acq(l) => HeldAt(p, i + 1, l)

\* Only what was acquired is released.
Closed(p) == \A j \in 1 .. Len(p) : \A l \in Lock :
               p[j] = Rel(l) => \E i \in 1 .. j - 1 : p[i] = Acq(l)

\* A whole call, or a part of one, that takes locks from rank r on.
Plan(p, r) ==
  /\ p \in Seq(Step) /\ Ordered(p) /\ Paired(p) /\ Closed(p)
  /\ \A i \in 1 .. Len(p) : Rank(p[i].lock) >= r

LEMMA Locks ==
  /\ \A l \in Lock : Rank(l) \in 0 .. 2
  /\ {Heap, HandleCounter, StdinLock} \subseteq Lock
  /\ Rank(Heap) = 2 /\ Rank(HandleCounter) = 2 /\ Rank(StdinLock) = 0
  /\ \A c \in Core : Sched(c) \in Lock /\ Rank(Sched(c)) = 1
BY DEF Lock, Rank, Heap, HandleCounter, StdinLock, Sched

LEMMA Steps ==
  /\ \A l \in Lock : Acq(l) \in Step /\ Rel(l) \in Step
  /\ \A l, m : (Acq(l) = Acq(m) => l = m) /\ (Rel(l) = Rel(m) => l = m) /\ Acq(l) # Rel(m)
  /\ \A l : Acq(l).lock = l /\ Rel(l).lock = l
  /\ \A l : Acq(l).op = "acquire" /\ Rel(l).op = "release"
BY DEF Step, Acq, Rel

LEMMA AgainStep ==
  /\ Again \in Step /\ Again.op = "again" /\ Again.lock \in Lock /\ Rank(Again.lock) = 1
  /\ \A l : Again # Acq(l) /\ Again # Rel(l)
  /\ \A s \in Step : s.lock \in Lock /\ (s.op = "again" => s = Again)
                   /\ (s.op # "again" => s = [op |-> s.op, lock |-> s.lock])
<1>1. NCores - 1 \in Core
  BY LocksAssumption DEF Core
<1>2. Again.lock \in Lock /\ Rank(Again.lock) = 1 /\ Again.op = "again"
  BY <1>1, Locks DEF Again
<1> QED  BY <1>2 DEF Step, Acq, Rel

LEMMA EmptyPlan == ASSUME NEW r PROVE Plan(<<>>, r)
BY DEF Plan, Ordered, Paired, Closed

\* Nothing is held before a whole call.
LEMMA NothingHeldBefore ==
  ASSUME NEW p, NEW r, Plan(p, r), NEW l \in Lock
  PROVE  ~HeldAt(p, 1, l)
<1> SUFFICES ASSUME NEW j \in 1 .. Len(p), p[j] = Rel(l), Without(p, 1, j, l) PROVE FALSE
  BY DEF HeldAt
<1>1. PICK i \in 1 .. j - 1 : p[i] = Acq(l)
  BY DEF Plan, Closed
<1> QED  BY <1>1 DEF Without

\* A whole call before what is left of one that holds only locks that come before.
LEMMA ConcatRest ==
  ASSUME NEW r \in Nat, NEW p, Plan(p, r),
         NEW q \in Seq(Step), Ordered(q), Paired(q),
         \A l \in Lock : HeldAt(q, 1, l) => Rank(l) < r
  PROVE  /\ p \o q \in Seq(Step) /\ Ordered(p \o q) /\ Paired(p \o q)
         /\ \A l \in Lock : HeldAt(q, 1, l) => HeldAt(p \o q, 1, l)
<1> DEFINE s == p \o q
<1>1. p \in Seq(Step) /\ q \in Seq(Step) /\ Len(p) \in Nat /\ Len(q) \in Nat
  BY DEF Plan
<1>2. /\ s \in Seq(Step) /\ Len(s) = Len(p) + Len(q)
      /\ \A i \in 1 .. Len(p) + Len(q) : s[i] = IF i <= Len(p) THEN p[i] ELSE q[i - Len(p)]
  BY <1>1, ConcatProperties
<1> HIDE DEF s
<1>3. \A i \in 1 .. Len(p) : s[i] = p[i]
  BY <1>1, <1>2
<1>4. ASSUME NEW i \in 1 .. Len(q) PROVE s[Len(p) + i] = q[i]
  <2>1. Len(p) + i \in 1 .. Len(p) + Len(q) /\ ~(Len(p) + i <= Len(p)) /\ Len(p) + i - Len(p) = i
    BY <1>1
  <2> QED  BY <1>2, <2>1
<1>5. ASSUME NEW k \in 1 .. Len(s), k > Len(p)
      PROVE  k - Len(p) \in 1 .. Len(q) /\ s[k] = q[k - Len(p)]
  BY <1>1, <1>2, <1>5
\* What is held within p or at its end is held in p, or from the start of q on.
<1>6. ASSUME NEW i \in 1 .. Len(p) + 1, NEW l \in Lock, HeldAt(s, i, l)
      PROVE  HeldAt(p, i, l) \/ HeldAt(q, 1, l)
  <2>1. PICK j \in i .. Len(s) : s[j] = Rel(l) /\ Without(s, i, j, l)
    BY <1>6 DEF HeldAt
  <2>2. CASE j <= Len(p)
    <3>1. Without(p, i, j, l)
      <4> SUFFICES ASSUME NEW k \in i .. j - 1 PROVE p[k] # Acq(l)
        BY DEF Without
      <4>1. k \in 1 .. Len(p) /\ s[k] # Acq(l)
        BY <1>1, <1>2, <2>1, <2>2 DEF Without
      <4> QED  BY <1>3, <4>1
    <3>2. j \in i .. Len(p) /\ p[j] = Rel(l)
      BY <1>1, <1>2, <1>3, <2>1, <2>2
    <3> QED  BY <3>1, <3>2 DEF HeldAt
  <2>3. CASE j > Len(p)
    <3>1. j - Len(p) \in 1 .. Len(q) /\ q[j - Len(p)] = Rel(l)
      BY <1>1, <1>2, <1>5, <2>1, <2>3
    <3>2. Without(q, 1, j - Len(p), l)
      <4> SUFFICES ASSUME NEW k \in 1 .. (j - Len(p)) - 1 PROVE q[k] # Acq(l)
        BY DEF Without
      <4>1. Len(p) + k \in i .. j - 1 /\ s[Len(p) + k] = q[k]
        BY <1>1, <1>2, <1>4, <2>1, <3>1
      <4> QED  BY <2>1, <4>1 DEF Without
    <3> QED  BY <3>1, <3>2 DEF HeldAt
  <2> QED  BY <1>1, <1>2, <2>1, <2>2, <2>3
<1>7. ASSUME NEW i \in 1 .. Len(q) + 1, NEW l \in Lock
      PROVE  HeldAt(s, Len(p) + i, l) <=> HeldAt(q, i, l)
  <2>1. ASSUME HeldAt(s, Len(p) + i, l) PROVE HeldAt(q, i, l)
    <3>1. PICK j \in Len(p) + i .. Len(s) : s[j] = Rel(l) /\ Without(s, Len(p) + i, j, l)
      BY <2>1 DEF HeldAt
    <3>2. j - Len(p) \in i .. Len(q) /\ q[j - Len(p)] = Rel(l)
      BY <1>1, <1>2, <1>5, <3>1
    <3>3. Without(q, i, j - Len(p), l)
      <4> SUFFICES ASSUME NEW k \in i .. (j - Len(p)) - 1 PROVE q[k] # Acq(l)
        BY DEF Without
      <4>1. Len(p) + k \in Len(p) + i .. j - 1 /\ s[Len(p) + k] = q[k]
        BY <1>1, <1>2, <1>4, <3>1
      <4> QED  BY <3>1, <4>1 DEF Without
    <3> QED  BY <3>2, <3>3 DEF HeldAt
  <2>2. ASSUME HeldAt(q, i, l) PROVE HeldAt(s, Len(p) + i, l)
    <3>1. PICK j \in i .. Len(q) : q[j] = Rel(l) /\ Without(q, i, j, l)
      BY <2>2 DEF HeldAt
    <3>2. Len(p) + j \in Len(p) + i .. Len(s) /\ s[Len(p) + j] = Rel(l)
      BY <1>1, <1>2, <1>4, <3>1
    <3>3. Without(s, Len(p) + i, Len(p) + j, l)
      <4> SUFFICES ASSUME NEW k \in Len(p) + i .. (Len(p) + j) - 1 PROVE s[k] # Acq(l)
        BY DEF Without
      <4>1. k - Len(p) \in i .. j - 1 /\ s[k] = q[k - Len(p)]
        BY <1>1, <1>2, <1>5, <3>1
      <4> QED  BY <3>1, <4>1 DEF Without
    <3> QED  BY <3>2, <3>3 DEF HeldAt
  <2> QED  BY <2>1, <2>2
<1>8. ASSUME NEW i \in 1 .. Len(p) + 1, NEW l \in Lock, HeldAt(p, i, l)
      PROVE  HeldAt(s, i, l)
  <2>1. PICK j \in i .. Len(p) : p[j] = Rel(l) /\ Without(p, i, j, l)
    BY <1>8 DEF HeldAt
  <2>2. j \in i .. Len(s) /\ s[j] = Rel(l)
    BY <1>1, <1>2, <1>3, <2>1
  <2>3. Without(s, i, j, l)
    BY <1>1, <1>3, <2>1 DEF Without
  <2> QED  BY <2>2, <2>3 DEF HeldAt
<1>9. Ordered(s)
  <2> SUFFICES ASSUME NEW i \in 1 .. Len(s), NEW l \in Lock, s[i].op # "release", HeldAt(s, i, l)
               PROVE  Rank(l) < Rank(s[i].lock)
    BY DEF Ordered
  <2>1. CASE i <= Len(p)
    <3>1. i \in 1 .. Len(p) /\ i \in 1 .. Len(p) + 1 /\ s[i] = p[i]
      BY <1>1, <1>3, <2>1
    <3>2. CASE HeldAt(p, i, l)
      BY <3>1, <3>2 DEF Plan, Ordered
    <3>3. CASE HeldAt(q, 1, l)
      <4>1. Rank(p[i].lock) \in 0 .. 2 /\ Rank(p[i].lock) >= r
        <5>1. p[i] \in Step
          BY <3>1, ElementOfSeq DEF Plan
        <5> QED  BY <3>1, <5>1, Locks, AgainStep DEF Plan
      <4>2. Rank(l) \in 0 .. 2 /\ Rank(l) < r
        BY <3>3, Locks
      <4> QED  BY <3>1, <4>1, <4>2
    <3> QED  BY <1>6, <3>1, <3>2, <3>3
  <2>2. CASE ~(i <= Len(p))
    <3>1. i - Len(p) \in 1 .. Len(q) /\ s[i] = q[i - Len(p)] /\ Len(p) + (i - Len(p)) = i
      BY <1>1, <1>2, <1>5, <2>2
    <3>2. HeldAt(q, i - Len(p), l)
      BY <1>1, <1>7, <3>1
    <3> QED  BY <3>1, <3>2 DEF Ordered
  <2> QED  BY <2>1, <2>2
<1>10. Paired(s)
  <2> SUFFICES ASSUME NEW i \in 1 .. Len(s), NEW l \in Lock, s[i] = Acq(l)
               PROVE  HeldAt(s, i + 1, l)
    BY DEF Paired
  <2>1. CASE i <= Len(p)
    <3>1. i + 1 \in 1 .. Len(p) + 1 /\ p[i] = Acq(l) /\ i \in 1 .. Len(p)
      BY <1>1, <1>3, <2>1
    <3> QED  BY <1>8, <3>1 DEF Plan, Paired
  <2>2. CASE ~(i <= Len(p))
    <3>1. /\ i - Len(p) \in 1 .. Len(q) /\ q[i - Len(p)] = Acq(l)
          /\ Len(p) + ((i - Len(p)) + 1) = i + 1 /\ (i - Len(p)) + 1 \in 1 .. Len(q) + 1
      BY <1>1, <1>2, <1>5, <2>2
    <3>2. HeldAt(q, (i - Len(p)) + 1, l)
      BY <3>1 DEF Paired
    <3> QED  BY <1>7, <3>1, <3>2
  <2> QED  BY <2>1, <2>2
<1>11. ASSUME NEW l \in Lock, HeldAt(q, 1, l) PROVE HeldAt(s, 1, l)
  <2>1. PICK j \in 1 .. Len(q) : q[j] = Rel(l) /\ Without(q, 1, j, l)
    BY <1>11 DEF HeldAt
  <2>2. Len(p) + j \in 1 .. Len(s) /\ s[Len(p) + j] = Rel(l)
    BY <1>1, <1>2, <1>4, <2>1
  <2>3. Without(s, 1, Len(p) + j, l)
    <3> SUFFICES ASSUME NEW k \in 1 .. (Len(p) + j) - 1 PROVE s[k] # Acq(l)
      BY DEF Without
    <3>1. CASE k <= Len(p)
      <4>1. k \in 1 .. Len(p) /\ s[k] = p[k]
        BY <1>1, <1>3, <3>1
      <4>2. p[k] \in Step
        BY <4>1, ElementOfSeq DEF Plan
      <4>3. Rank(p[k].lock) \in 0 .. 2 /\ Rank(p[k].lock) >= r
        BY <4>1, <4>2, Locks, AgainStep DEF Plan
      <4>4. Rank(l) \in 0 .. 2 /\ Rank(l) < r
        BY <1>11, Locks
      <4>5. p[k].lock # l
        BY <4>3, <4>4
      <4> QED  BY <4>1, <4>5, Steps
    <3>2. CASE ~(k <= Len(p))
      <4>1. k - Len(p) \in 1 .. j - 1 /\ s[k] = q[k - Len(p)]
        BY <1>1, <1>2, <1>5, <2>1, <3>2
      <4> QED  BY <2>1, <4>1 DEF Without
    <3> QED  BY <3>1, <3>2
  <2> QED  BY <2>2, <2>3 DEF HeldAt
<1> QED  BY <1>2, <1>9, <1>10, <1>11 DEF s

\* One call after another.
LEMMA ConcatPlan ==
  ASSUME NEW r \in Nat, NEW p, NEW q, Plan(p, r), Plan(q, r)
  PROVE  Plan(p \o q, r)
<1> DEFINE s == p \o q
<1>1. p \in Seq(Step) /\ q \in Seq(Step) /\ Len(p) \in Nat /\ Len(q) \in Nat
  BY DEF Plan
<1>2. /\ s \in Seq(Step) /\ Len(s) = Len(p) + Len(q)
      /\ \A i \in 1 .. Len(p) + Len(q) : s[i] = IF i <= Len(p) THEN p[i] ELSE q[i - Len(p)]
  BY <1>1, ConcatProperties
<1>3. Ordered(s) /\ Paired(s)
  <2>1. \A l \in Lock : ~HeldAt(q, 1, l)
    BY NothingHeldBefore
  <2> QED  BY <1>1, <2>1, ConcatRest DEF Plan
<1> HIDE DEF s
<1>4. \A i \in 1 .. Len(p) : s[i] = p[i]
  BY <1>1, <1>2
<1>5. ASSUME NEW k \in 1 .. Len(s), k > Len(p)
      PROVE  k - Len(p) \in 1 .. Len(q) /\ s[k] = q[k - Len(p)]
  BY <1>1, <1>2, <1>5
<1>6. Closed(s)
  <2> SUFFICES ASSUME NEW j \in 1 .. Len(s), NEW l \in Lock, s[j] = Rel(l)
               PROVE  \E i \in 1 .. j - 1 : s[i] = Acq(l)
    BY DEF Closed
  <2>1. CASE j <= Len(p)
    <3>1. j \in 1 .. Len(p) /\ p[j] = Rel(l)
      BY <1>1, <1>4, <2>1
    <3>2. PICK i \in 1 .. j - 1 : p[i] = Acq(l)
      BY <3>1 DEF Plan, Closed
    <3> QED  BY <1>1, <1>4, <2>1, <3>2
  <2>2. CASE ~(j <= Len(p))
    <3>1. j - Len(p) \in 1 .. Len(q) /\ q[j - Len(p)] = Rel(l)
      BY <1>1, <1>2, <1>5, <2>2
    <3>2. PICK i \in 1 .. (j - Len(p)) - 1 : q[i] = Acq(l)
      BY <3>1 DEF Plan, Closed
    <3>3. Len(p) + i \in 1 .. j - 1 /\ s[Len(p) + i] = Acq(l)
      <4>1. i \in 1 .. Len(q) /\ Len(p) + i \in 1 .. Len(p) + Len(q) /\ ~(Len(p) + i <= Len(p))
        BY <1>1, <3>1, <3>2
      <4>2. (Len(p) + i) - Len(p) = i
        BY <1>1
      <4> QED  BY <1>1, <1>2, <3>1, <3>2, <4>1, <4>2
    <3> QED  BY <3>3
  <2> QED  BY <2>1, <2>2
<1>7. \A i \in 1 .. Len(s) : Rank(s[i].lock) >= r
  <2> TAKE i \in 1 .. Len(s)
  <2>1. CASE i <= Len(p)
    BY <1>1, <1>4, <2>1 DEF Plan
  <2>2. CASE ~(i <= Len(p))
    <3>1. i - Len(p) \in 1 .. Len(q) /\ s[i] = q[i - Len(p)]
      BY <1>1, <1>2, <1>5, <2>2
    <3> QED  BY <3>1 DEF Plan
  <2> QED  BY <2>1, <2>2
<1> QED  BY <1>2, <1>3, <1>6, <1>7 DEF Plan, s

\* A call made under a lock that comes before those it takes.
LEMMA SectionPlan ==
  ASSUME NEW l \in Lock, NEW r, r = Rank(l), NEW body, Plan(body, r + 1)
  PROVE  Plan(Section(l, body), r)
<1> DEFINE s == Section(l, body)
           n == Len(body)
<1>1. body \in Seq(Step) /\ n \in Nat /\ r \in 0 .. 2
  BY Locks DEF Plan
<1>2. s \in Seq(Step) /\ Len(s) = n + 2
  <2>1. <<Acq(l)>> \in Seq(Step) /\ <<Rel(l)>> \in Seq(Step)
    BY Steps
  <2>2. <<Acq(l)>> \o body \in Seq(Step) /\ Len(<<Acq(l)>> \o body) = n + 1
    BY <1>1, <2>1, ConcatProperties
  <2> QED  BY <1>1, <2>1, <2>2, ConcatProperties DEF Section
<1>3. s[1] = Acq(l) /\ s[n + 2] = Rel(l) /\ \A i \in 1 .. n : s[1 + i] = body[i]
  <2>1. <<Acq(l)>> \in Seq(Step) /\ <<Rel(l)>> \in Seq(Step)
    BY Steps
  <2>2. /\ <<Acq(l)>> \o body \in Seq(Step) /\ Len(<<Acq(l)>> \o body) = n + 1
        /\ \A i \in 1 .. n + 1 :
             (<<Acq(l)>> \o body)[i] = IF i <= 1 THEN Acq(l) ELSE body[i - 1]
    <3>1. Len(<<Acq(l)>>) = 1 /\ <<Acq(l)>>[1] = Acq(l)
      OBVIOUS
    <3> QED  BY <1>1, <2>1, <3>1, ConcatProperties
  <2>3. \A i \in 1 .. n + 2 :
          s[i] = IF i <= n + 1 THEN (<<Acq(l)>> \o body)[i] ELSE <<Rel(l)>>[i - (n + 1)]
    <3>1. Len(<<Rel(l)>>) = 1
      OBVIOUS
    <3> QED  BY <1>1, <2>1, <2>2, <3>1, ConcatProperties DEF Section
  <2>4. <<Rel(l)>>[1] = Rel(l)
    OBVIOUS
  <2>5. s[n + 2] = Rel(l)
    <3>1. s[n + 2] = <<Rel(l)>>[(n + 2) - (n + 1)] /\ (n + 2) - (n + 1) = 1
      BY <1>1, <2>3
    <3> QED  BY <2>4, <3>1
  <2>6. \A i \in 1 .. n + 1 : s[i] = IF i <= 1 THEN Acq(l) ELSE body[i - 1]
    BY <1>1, <2>2, <2>3
  <2>7. \A i \in 1 .. n : s[1 + i] = body[i]
    <3> TAKE i \in 1 .. n
    <3>1. 1 + i \in 1 .. n + 1 /\ ~(1 + i <= 1) /\ (1 + i) - 1 = i
      BY <1>1
    <3> QED  BY <2>6, <3>1
  <2> QED  BY <1>1, <2>5, <2>6, <2>7
<1> HIDE DEF s, n
<1>4. ASSUME NEW k \in 2 .. n + 1 PROVE k - 1 \in 1 .. n /\ s[k] = body[k - 1]
  BY <1>1, <1>3, <1>4
<1>5. \A i \in 1 .. n : body[i].lock \in Lock /\ Rank(body[i].lock) >= r + 1
  <2> TAKE i \in 1 .. n
  <2>1. body[i] \in Step
    BY <1>1, ElementOfSeq DEF n
  <2>2. body[i].lock \in Lock
    BY <2>1, AgainStep
  <2> QED  BY <2>2 DEF Plan, n
<1>6. ASSUME NEW i \in 1 .. n, NEW m, body[i] = Acq(m) \/ body[i] = Rel(m)
      PROVE  m # l /\ Rank(l) < Rank(m)
  <2>1. body[i].lock = m
    BY <1>6, Steps
  <2>2. m \in Lock /\ Rank(m) >= r + 1
    BY <1>5, <2>1
  <2> QED  BY <1>1, <2>2, Locks
<1>7. ASSUME NEW m \in Lock, m # l, NEW i \in 1 .. n + 1, HeldAt(s, 1 + i, m)
      PROVE  HeldAt(body, i, m)
  <2>1. PICK j \in 1 + i .. n + 2 : s[j] = Rel(m) /\ Without(s, 1 + i, j, m)
    BY <1>2, <1>7 DEF HeldAt
  <2>2. j # n + 2
    BY <1>3, <1>7, <2>1, Steps
  <2>3. j - 1 \in i .. n /\ body[j - 1] = Rel(m)
    <3>1. j \in 2 .. n + 1 /\ j - 1 \in i .. n
      BY <1>1, <2>1, <2>2
    <3> QED  BY <1>4, <2>1, <3>1
  <2>4. Without(body, i, j - 1, m)
    <3> SUFFICES ASSUME NEW k \in i .. (j - 1) - 1 PROVE body[k] # Acq(m)
      BY DEF Without
    <3>1. 1 + k \in 1 + i .. j - 1 /\ s[1 + k] = body[k]
      BY <1>1, <1>3, <2>1, <2>2
    <3> QED  BY <2>1, <3>1 DEF Without
  <2> QED  BY <2>3, <2>4 DEF HeldAt, n
<1>8. ASSUME NEW m \in Lock, NEW i \in 1 .. n + 1, HeldAt(body, i, m)
      PROVE  HeldAt(s, 1 + i, m)
  <2>1. PICK j \in i .. n : body[j] = Rel(m) /\ Without(body, i, j, m)
    BY <1>8 DEF HeldAt, n
  <2>2. 1 + j \in 1 + i .. n + 2 /\ s[1 + j] = Rel(m)
    BY <1>1, <1>3, <2>1
  <2>3. Without(s, 1 + i, 1 + j, m)
    <3> SUFFICES ASSUME NEW k \in 1 + i .. (1 + j) - 1 PROVE s[k] # Acq(m)
      BY DEF Without
    <3>1. k - 1 \in i .. j - 1 /\ s[k] = body[k - 1]
      BY <1>1, <1>4, <2>1
    <3> QED  BY <2>1, <3>1 DEF Without
  <2> QED  BY <1>2, <2>2, <2>3 DEF HeldAt
<1>9. ASSUME NEW m \in Lock PROVE ~HeldAt(s, 1, m)
  <2> SUFFICES ASSUME NEW j \in 1 .. n + 2, s[j] = Rel(m), Without(s, 1, j, m) PROVE FALSE
    BY <1>2 DEF HeldAt
  <2>1. j # 1
    BY <1>3, Steps
  <2>2. CASE j = n + 2
    <3>1. m = l /\ 1 \in 1 .. j - 1
      BY <1>1, <1>3, <2>2, Steps
    <3> QED  BY <1>3, <3>1 DEF Without
  <2>3. CASE j # n + 2
    <3>1. j - 1 \in 1 .. n /\ body[j - 1] = Rel(m)
      BY <1>1, <1>4, <2>1, <2>3
    <3>2. PICK i \in 1 .. (j - 1) - 1 : body[i] = Acq(m)
      BY <3>1 DEF Plan, Closed, n
    <3>3. 1 + i \in 1 .. j - 1 /\ s[1 + i] = Acq(m)
      BY <1>1, <1>3, <3>1, <3>2
    <3> QED  BY <3>3 DEF Without
  <2> QED  BY <2>2, <2>3
<1>10. Ordered(s)
  <2> SUFFICES ASSUME NEW i \in 1 .. n + 2, NEW h \in Lock,
                      s[i].op # "release", HeldAt(s, i, h)
               PROVE  Rank(h) < Rank(s[i].lock)
    BY <1>2 DEF Ordered
  <2>1. i # 1
    BY <1>9
  <2>2. i # n + 2
    BY <1>3, Steps
  <2>3. i - 1 \in 1 .. n /\ s[i] = body[i - 1] /\ i = 1 + (i - 1)
    BY <1>1, <1>4, <2>1, <2>2
  <2>4. CASE h = l
    <3>1. Rank(s[i].lock) \in 0 .. 2 /\ Rank(s[i].lock) >= r + 1
      BY <1>5, <2>3, Locks
    <3> QED  BY <1>1, <2>4, <3>1
  <2>5. CASE h # l
    <3>1. HeldAt(body, i - 1, h)
      BY <1>1, <1>7, <2>3, <2>5
    <3> QED  BY <2>3, <3>1 DEF Plan, Ordered, n
  <2> QED  BY <2>4, <2>5
<1>11. Paired(s)
  <2> SUFFICES ASSUME NEW i \in 1 .. n + 2, NEW m \in Lock, s[i] = Acq(m)
               PROVE  HeldAt(s, i + 1, m)
    BY <1>2 DEF Paired
  <2>1. CASE i = 1
    <3>1. m = l
      BY <1>3, <2>1, Steps
    <3>2. Without(s, 2, n + 2, l)
      <4> SUFFICES ASSUME NEW k \in 2 .. (n + 2) - 1 PROVE s[k] # Acq(l)
        BY DEF Without
      <4>1. k - 1 \in 1 .. n /\ s[k] = body[k - 1]
        BY <1>1, <1>4
      <4> QED  BY <1>6, <4>1
    <3>3. n + 2 \in 2 .. n + 2
      BY <1>1
    <3> QED  BY <1>2, <1>3, <2>1, <3>1, <3>2, <3>3 DEF HeldAt
  <2>2. CASE i # 1
    <3>1. i # n + 2
      BY <1>3, Steps
    <3>2. /\ i - 1 \in 1 .. n /\ body[i - 1] = Acq(m)
          /\ 1 + ((i - 1) + 1) = i + 1 /\ (i - 1) + 1 \in 1 .. n + 1
      BY <1>1, <1>4, <2>2, <3>1
    <3>3. HeldAt(body, (i - 1) + 1, m)
      BY <3>2 DEF Plan, Paired, n
    <3> QED  BY <1>8, <3>2, <3>3
  <2> QED  BY <2>1, <2>2
<1>12. Closed(s)
  <2> SUFFICES ASSUME NEW j \in 1 .. n + 2, NEW m \in Lock, s[j] = Rel(m)
               PROVE  \E i \in 1 .. j - 1 : s[i] = Acq(m)
    BY <1>2 DEF Closed
  <2>1. j # 1
    BY <1>3, Steps
  <2>2. CASE j = n + 2
    <3>1. m = l /\ 1 \in 1 .. j - 1
      BY <1>1, <1>3, <2>2, Steps
    <3> QED  BY <1>3, <3>1
  <2>3. CASE j # n + 2
    <3>1. j - 1 \in 1 .. n /\ body[j - 1] = Rel(m)
      BY <1>1, <1>4, <2>1, <2>3
    <3>2. PICK i \in 1 .. (j - 1) - 1 : body[i] = Acq(m)
      BY <3>1 DEF Plan, Closed, n
    <3>3. 1 + i \in 1 .. j - 1 /\ s[1 + i] = Acq(m)
      BY <1>1, <1>3, <3>1, <3>2
    <3> QED  BY <3>3
  <2> QED  BY <2>2, <2>3
<1>13. \A i \in 1 .. n + 2 : Rank(s[i].lock) >= r
  <2> TAKE i \in 1 .. n + 2
  <2>1. CASE i = 1 \/ i = n + 2
    <3>1. s[i].lock = l
      BY <1>3, <2>1, Steps
    <3> QED  BY <1>1, <3>1
  <2>2. CASE ~(i = 1 \/ i = n + 2)
    <3>1. i - 1 \in 1 .. n /\ s[i] = body[i - 1]
      BY <1>1, <1>4, <2>2
    <3>2. body[i - 1].lock \in Lock /\ Rank(body[i - 1].lock) >= r + 1
      BY <1>5, <3>1
    <3> QED  BY <1>1, <3>1, <3>2, Locks
  <2> QED  BY <2>1, <2>2
<1> QED  BY <1>2, <1>10, <1>11, <1>12, <1>13 DEF Plan, s

--------------------------------------------------------------------------------
(* The calls and handlers                                                  *)

LEMMA LowerPlan ==
  ASSUME NEW p, NEW r \in Nat, NEW q \in Nat, q <= r, Plan(p, r)
  PROVE  Plan(p, q)
<1>1. \A i \in 1 .. Len(p) : p[i].lock \in Lock /\ Rank(p[i].lock) \in 0 .. 2
  <2> TAKE i \in 1 .. Len(p)
  <2>1. p[i] \in Step
    BY ElementOfSeq DEF Plan
  <2> QED  BY <2>1, Locks, AgainStep
<1> QED  BY <1>1 DEF Plan

LEMMA QueryPlan == ASSUME NEW c \in Core PROVE Plan(KeQuery(c), 1)
<1> DEFINE p == KeQuery(c)
           n == 2 * (c + 1)
<1>1. c \in Nat /\ n \in Nat
  BY LocksAssumption DEF Core
<1>2. /\ \A i \in 1 .. n : i % 2 = 1 => /\ (i - 1) \div 2 \in 0 .. c /\ i + 1 \in 1 .. n
                                        /\ (i + 1) % 2 = 0 /\ i \div 2 = (i - 1) \div 2
      /\ \A i \in 1 .. n : i % 2 # 1 => /\ (i - 1) \div 2 \in 0 .. c /\ i - 1 \in 1 .. n
                                        /\ (i - 1) % 2 = 1 /\ (i - 2) \div 2 = (i - 1) \div 2
  BY <1>1
<1> DEFINE at(i) == Sched((i - 1) \div 2)
<1>3. \A i \in 1 .. n : at(i) \in Lock /\ Rank(at(i)) = 1
  <2> TAKE i \in 1 .. n
  <2>1. (i - 1) \div 2 \in Core
    BY <1>1, <1>2, LocksAssumption DEF Core
  <2> QED  BY <2>1, Locks
<1>4. \A i \in 1 .. n : p[i] = IF i % 2 = 1 THEN Acq(at(i)) ELSE Rel(at(i))
  BY DEF KeQuery
<1>5. p \in Seq(Step) /\ Len(p) = n
  <2>1. \A i \in 1 .. n : p[i] \in Step
    BY <1>3, <1>4, Steps
  <2>2. p \in [1 .. n -> Step]
    BY <2>1 DEF KeQuery
  <2> QED  BY <1>1, <2>2
<1>6. ASSUME NEW j \in 1 .. n, NEW l, p[j] = Rel(l)
      PROVE  j - 1 \in 1 .. n /\ p[j - 1] = Acq(l)
  <2>1. j % 2 # 1 /\ l = at(j)
    BY <1>4, <1>6, Steps
  <2>2. j - 1 \in 1 .. n /\ (j - 1) % 2 = 1 /\ (j - 2) \div 2 = (j - 1) \div 2
    BY <1>2, <2>1
  <2>3. (j - 1) - 1 = j - 2
    BY <1>1
  <2> QED  BY <1>4, <2>1, <2>2, <2>3
<1> HIDE DEF p, n, at
<1>7. ASSUME NEW i \in 1 .. n, NEW l, p[i] = Acq(l)
      PROVE  i + 1 \in 1 .. n /\ p[i + 1] = Rel(l)
  <2>1. i % 2 = 1 /\ l = at(i)
    BY <1>4, <1>7, Steps
  <2>2. i + 1 \in 1 .. n /\ (i + 1) % 2 # 1 /\ i \div 2 = (i - 1) \div 2
    BY <1>2, <2>1
  <2>3. (i + 1) - 1 = i
    BY <1>1
  <2>4. at(i + 1) = at(i)
    BY <2>2, <2>3 DEF at
  <2> QED  BY <1>4, <2>1, <2>2, <2>4
<1>8. Ordered(p)
  <2> SUFFICES ASSUME NEW i \in 1 .. n, NEW l \in Lock, p[i].op # "release", HeldAt(p, i, l)
               PROVE  FALSE
    BY <1>5 DEF Ordered
  <2>1. PICK j \in i .. n : p[j] = Rel(l) /\ Without(p, i, j, l)
    BY <1>5 DEF HeldAt
  <2>2. j # i
    BY <2>1, Steps
  <2>3. j \in 1 .. n /\ j - 1 \in i .. j - 1
    BY <1>1, <2>1, <2>2
  <2>4. p[j - 1] = Acq(l)
    BY <1>6, <2>1, <2>3
  <2> QED  BY <2>1, <2>3, <2>4 DEF Without
<1>9. Paired(p)
  <2> SUFFICES ASSUME NEW i \in 1 .. n, NEW l \in Lock, p[i] = Acq(l)
               PROVE  HeldAt(p, i + 1, l)
    BY <1>5 DEF Paired
  <2>1. i + 1 \in i + 1 .. n /\ p[i + 1] = Rel(l)
    BY <1>1, <1>7
  <2>2. Without(p, i + 1, i + 1, l)
    BY <1>1 DEF Without
  <2> QED  BY <1>5, <2>1, <2>2 DEF HeldAt
<1>10. Closed(p)
  <2> SUFFICES ASSUME NEW j \in 1 .. n, NEW l \in Lock, p[j] = Rel(l)
               PROVE  \E i \in 1 .. j - 1 : p[i] = Acq(l)
    BY <1>5 DEF Closed
  <2>1. j - 1 \in 1 .. j - 1 /\ p[j - 1] = Acq(l)
    BY <1>1, <1>6
  <2> QED  BY <2>1
<1>11. \A i \in 1 .. n : Rank(p[i].lock) >= 1
  <2> TAKE i \in 1 .. n
  <2>1. p[i].lock = at(i)
    BY <1>4, Steps
  <2> QED  BY <1>3, <2>1
<1> QED  BY <1>5, <1>8, <1>9, <1>10, <1>11 DEF Plan, p

LEMMA AgainPlan == Plan(<<Again>>, 1)
<1> DEFINE p == <<Again>>
<1>1. p \in Seq(Step) /\ Len(p) = 1 /\ p[1] = Again
  BY AgainStep
<1> HIDE DEF p
<1>2. Ordered(p) /\ Paired(p) /\ Closed(p)
  BY <1>1, AgainStep DEF Ordered, Paired, Closed, HeldAt
<1>3. \A i \in 1 .. Len(p) : Rank(p[i].lock) >= 1
  BY <1>1, AgainStep
<1> QED  BY <1>1, <1>2, <1>3 DEF Plan, p

LEMMA HeapPlan == Plan(UseHeap, 2) /\ Plan(Section(HandleCounter, <<>>), 2)
BY Locks, EmptyPlan, SectionPlan DEF UseHeap

LEMMA GrowPlan == ASSUME NEW p \in MayGrow PROVE Plan(p, 2)
BY EmptyPlan, HeapPlan DEF MayGrow

LEMMA SchedPlan ==
  ASSUME NEW c \in Core, NEW body, Plan(body, 2) PROVE Plan(Section(Sched(c), body), 1)
BY Locks, SectionPlan

LEMMA SchedulePlan == ASSUME NEW c \in Core PROVE Plan(KeScheduleTask(c), 1)
<1>1. Plan(UseHeap, 1) /\ Plan(Section(HandleCounter, <<>>), 1)
  BY HeapPlan, LowerPlan
<1>2. Plan(UseHeap \o Section(HandleCounter, <<>>), 1)
  BY <1>1, ConcatPlan
<1>3. Plan(UseHeap \o Section(HandleCounter, <<>>) \o UseHeap, 1)
  BY <1>1, <1>2, ConcatPlan
<1>4. Plan(Section(Sched(c), UseHeap), 1)
  BY HeapPlan, SchedPlan
<1> QED  BY <1>3, <1>4, ConcatPlan DEF KeScheduleTask

LEMMA CallPlan == ASSUME NEW c \in Core, NEW p \in Calls(c) PROVE Plan(p, 0)
<1>1. Plan(scanchar, 0)
  BY Locks, EmptyPlan, SectionPlan DEF scanchar
<1>2. Plan(ReturnHandler(c), 0)
  BY EmptyPlan, SchedPlan, LowerPlan DEF ReturnHandler
<1>3. \A d \in Core : Plan(KeScheduleTask(d), 1)
  BY SchedulePlan
<1>4. \A d \in Core : Plan(KeSuspendTask(d), 1)
  BY QueryPlan, EmptyPlan, SchedPlan, ConcatPlan DEF KeSuspendTask
<1>5. \A d \in Core : \A q \in KeResumeTask(d) : Plan(q, 1)
  <2> SUFFICES ASSUME NEW d \in Core, NEW grow \in MayGrow
               PROVE  Plan(KeQuery(d) \o Section(Sched(d), grow), 1)
    BY DEF KeResumeTask
  <2> QED  BY QueryPlan, GrowPlan, SchedPlan, ConcatPlan
<1>6. \A d \in Core : \A q \in putchar(d) : Plan(q, 0)
  <2>1. ASSUME NEW d \in Core, NEW resume \in KeResumeTask(d)
        PROVE  Plan(Section(StdinLock, KeQuery(d) \o resume), 0)
    <3>1. Plan(KeQuery(d) \o resume, 1)
      BY <1>5, QueryPlan, ConcatPlan
    <3> QED  BY <3>1, Locks, SectionPlan
  <2>2. Plan(Section(StdinLock, <<>>), 0) /\ Plan(Section(StdinLock, <<Again>>), 0)
    BY Locks, EmptyPlan, AgainPlan, SectionPlan
  <2>3. \A d \in Core : Plan(Section(StdinLock, KeQuery(d)), 0)
    BY Locks, QueryPlan, SectionPlan
  <2> QED  BY <2>1, <2>2, <2>3 DEF putchar
<1>7. \A q : Plan(q, 1) => Plan(q, 0)
  BY LowerPlan
<1> QED  BY <1>1, <1>2, <1>3, <1>4, <1>5, <1>6, <1>7 DEF Calls

LEMMA TickPlan == ASSUME NEW c \in Core, NEW p \in Tick(c) PROVE Plan(p, 1)
BY GrowPlan, SchedPlan DEF Tick

--------------------------------------------------------------------------------
(* The invariant: each thread has still to release the locks it holds      *)

HolderTypeOK == holder \in [Lock -> Thread \cup {Free}]
TodoOrdered ==
  \A x \in Thread : todo[x] \in Seq(Step) /\ Ordered(todo[x]) /\ Paired(todo[x])
HoldersRelease == \A l \in Lock : \A x \in Thread : holder[l] = x => HeldAt(todo[x], 1, l)
HandlersDone ==
  handler \in [Core -> {"none", "timer", "keyboard"}]
  /\ \A c \in Core : handler[c] = "none" => todo[c] = <<>>

LocksInv ==
  /\ HolderTypeOK /\ todo \in [Thread -> Seq(Step)]
  /\ TodoOrdered /\ HoldersRelease /\ HandlersDone

\* What is left after the first step.
LEMMA RestOfPlan ==
  ASSUME NEW p \in Seq(Step), p # <<>>, Ordered(p), Paired(p)
  PROVE  /\ Tail(p) \in Seq(Step) /\ Ordered(Tail(p)) /\ Paired(Tail(p))
         /\ \A l \in Lock : p[1] = Acq(l) => HeldAt(Tail(p), 1, l)
         /\ \A l \in Lock : HeldAt(p, 1, l) /\ p[1] # Rel(l) => HeldAt(Tail(p), 1, l)
<1> DEFINE q == Tail(p)
<1>1. Len(p) \in Nat /\ Len(p) >= 1
  BY LenProperties, EmptySeq
<1>2. q \in Seq(Step) /\ Len(q) = Len(p) - 1 /\ \A i \in 1 .. Len(q) : q[i] = p[i + 1]
  BY HeadTailProperties
<1> HIDE DEF q
<1>3. ASSUME NEW i \in 1 .. Len(p), NEW l \in Lock
      PROVE  HeldAt(q, i, l) <=> HeldAt(p, i + 1, l)
  <2>1. ASSUME HeldAt(q, i, l) PROVE HeldAt(p, i + 1, l)
    <3>1. PICK j \in i .. Len(q) : q[j] = Rel(l) /\ Without(q, i, j, l)
      BY <2>1 DEF HeldAt
    <3>2. j + 1 \in i + 1 .. Len(p) /\ p[j + 1] = Rel(l)
      BY <1>1, <1>2, <3>1
    <3>3. Without(p, i + 1, j + 1, l)
      <4> SUFFICES ASSUME NEW k \in i + 1 .. (j + 1) - 1 PROVE p[k] # Acq(l)
        BY DEF Without
      <4>1. k - 1 \in i .. j - 1 /\ q[k - 1] = p[k]
        BY <1>1, <1>2, <3>1
      <4> QED  BY <3>1, <4>1 DEF Without
    <3> QED  BY <3>2, <3>3 DEF HeldAt
  <2>2. ASSUME HeldAt(p, i + 1, l) PROVE HeldAt(q, i, l)
    <3>1. PICK j \in i + 1 .. Len(p) : p[j] = Rel(l) /\ Without(p, i + 1, j, l)
      BY <2>2 DEF HeldAt
    <3>2. j - 1 \in i .. Len(q) /\ q[j - 1] = Rel(l)
      BY <1>1, <1>2, <3>1
    <3>3. Without(q, i, j - 1, l)
      <4> SUFFICES ASSUME NEW k \in i .. (j - 1) - 1 PROVE q[k] # Acq(l)
        BY DEF Without
      <4>1. k + 1 \in i + 1 .. j - 1 /\ q[k] = p[k + 1]
        BY <1>1, <1>2, <3>1
      <4> QED  BY <3>1, <4>1 DEF Without
    <3> QED  BY <3>2, <3>3 DEF HeldAt
  <2> QED  BY <2>1, <2>2
<1>4. \A i \in 1 .. Len(q) : q[i] = p[i + 1] /\ i + 1 \in 1 .. Len(p) /\ i \in 1 .. Len(p)
  BY <1>1, <1>2
<1>5. Ordered(q)
  BY <1>3, <1>4 DEF Ordered
<1>6. Paired(q)
  <2> SUFFICES ASSUME NEW i \in 1 .. Len(q), NEW l \in Lock, q[i] = Acq(l)
               PROVE  HeldAt(q, i + 1, l)
    BY DEF Paired
  <2>1. HeldAt(p, (i + 1) + 1, l)
    BY <1>4 DEF Paired
  <2> QED  BY <1>3, <1>4, <2>1
<1>7. ASSUME NEW l \in Lock, p[1] = Acq(l) PROVE HeldAt(q, 1, l)
  <2>1. 1 \in 1 .. Len(p)
    BY <1>1
  <2>2. HeldAt(p, 1 + 1, l)
    BY <1>7, <2>1 DEF Paired
  <2> QED  BY <1>3, <2>1, <2>2
<1>8. ASSUME NEW l \in Lock, HeldAt(p, 1, l), p[1] # Rel(l) PROVE HeldAt(q, 1, l)
  <2>1. PICK j \in 1 .. Len(p) : p[j] = Rel(l) /\ Without(p, 1, j, l)
    BY <1>8 DEF HeldAt
  <2>2. j \in 1 + 1 .. Len(p) /\ 1 \in 1 .. Len(p)
    BY <1>1, <1>8, <2>1
  <2>3. Without(p, 1 + 1, j, l)
    BY <2>1, <2>2 DEF Without
  <2>4. HeldAt(p, 1 + 1, l)
    BY <2>1, <2>2, <2>3 DEF HeldAt
  <2> QED  BY <1>3, <2>2, <2>4
<1> QED  BY <1>2, <1>5, <1>6, <1>7, <1>8 DEF q

LEMMA NothingHeld == ASSUME NEW l PROVE ~HeldAt(<<>>, 1, l)
BY DEF HeldAt

LEMMA LocksInitLemma == Init => LocksInv
<1> SUFFICES ASSUME Init PROVE LocksInv
  OBVIOUS
<1>1. \A l \in Lock, x \in Thread : holder[l] # x
  BY LocksAssumption DEF Init, Thread
<1>2. <<>> \in Seq(Step) /\ Ordered(<<>>) /\ Paired(<<>>)
  BY EmptyPlan DEF Plan
<1>3. Core \subseteq Thread
  BY DEF Thread
<1> QED  BY <1>1, <1>2, <1>3 DEF Init, LocksInv, HolderTypeOK, TodoOrdered, HoldersRelease, HandlersDone

\* A thread that has nothing to do starts a call or a handler.
LEMMA StartLemma ==
  ASSUME LocksInv, NEW x \in Thread, todo[x] = <<>>, NEW p, Plan(p, 0),
         todo' = [todo EXCEPT ![x] = p], UNCHANGED holder
  PROVE  /\ HolderTypeOK' /\ todo' \in [Thread -> Seq(Step)]
         /\ TodoOrdered' /\ HoldersRelease'
<1>1. p \in Seq(Step) /\ Ordered(p) /\ Paired(p)
  BY DEF Plan
<1>2. HolderTypeOK' /\ todo' \in [Thread -> Seq(Step)]
  BY <1>1 DEF LocksInv, HolderTypeOK
<1>3. TodoOrdered'
  BY <1>1 DEF LocksInv, TodoOrdered
<1>4. HoldersRelease'
  <2>1. \A l \in Lock : holder[l] # x
    BY NothingHeld DEF LocksInv, HoldersRelease
  <2> QED  BY <2>1 DEF LocksInv, HoldersRelease
<1> QED  BY <1>2, <1>3, <1>4

LEMMA CallLemma == ASSUME LocksInv, NEW t \in Task, Call(t) PROVE LocksInv'
<1>1. t \in Thread /\ t \notin Core /\ CoreOf[t] \in Core
  BY LocksAssumption DEF Thread
<1>2. PICK p \in Calls(CoreOf[t]) : todo' = [todo EXCEPT ![t] = p]
  BY DEF Call
<1>3. Plan(p, 0)
  BY <1>1, <1>2, CallPlan
<1>4. /\ HolderTypeOK' /\ todo' \in [Thread -> Seq(Step)]
      /\ TodoOrdered' /\ HoldersRelease'
  BY <1>1, <1>2, <1>3, StartLemma DEF Call
<1>5. HandlersDone'
  BY <1>1, <1>2 DEF LocksInv, HandlersDone, Call, Thread
<1> QED  BY <1>4, <1>5 DEF LocksInv

LEMMA HandlerLemma ==
  ASSUME LocksInv, NEW c \in Core, Timer(c) \/ (c = 0 /\ Keyboard) PROVE LocksInv'
<1>1. c \in Thread
  BY DEF Thread
<1>2. todo[c] = <<>>
  BY DEF LocksInv, HandlersDone, Timer, Keyboard
<1>3. PICK p : Plan(p, 0) /\ todo' = [todo EXCEPT ![c] = p]
  <2>1. CASE Timer(c)
    <3>1. PICK p \in Tick(c) : todo' = [todo EXCEPT ![c] = p]
      BY <2>1 DEF Timer
    <3>2. Plan(p, 0)
      BY TickPlan, LowerPlan
    <3> QED  BY <3>1, <3>2
  <2>2. CASE c = 0 /\ Keyboard
    <3>1. PICK d \in Core : todo' = [todo EXCEPT ![0] = KeScheduleTask(d)]
      BY <2>2 DEF Keyboard
    <3>2. Plan(KeScheduleTask(d), 0)
      BY SchedulePlan, LowerPlan
    <3> QED  BY <2>2, <3>1, <3>2
  <2> QED  BY <2>1, <2>2
<1>4. /\ HolderTypeOK' /\ todo' \in [Thread -> Seq(Step)]
      /\ TodoOrdered' /\ HoldersRelease'
  BY <1>1, <1>2, <1>3, StartLemma DEF Timer, Keyboard
<1>5. HandlersDone'
  <2>1. handler' \in [Core -> {"none", "timer", "keyboard"}] /\ handler'[c] # "none"
    BY DEF LocksInv, HandlersDone, Timer, Keyboard
  <2>2. \A d \in Core : d # c => handler'[d] = handler[d] /\ todo'[d] = todo[d]
    BY <1>3 DEF LocksInv, HandlersDone, Timer, Keyboard, Thread
  <2> QED  BY <2>1, <2>2 DEF LocksInv, HandlersDone
<1> QED  BY <1>4, <1>5 DEF LocksInv

LEMMA StepLemma ==
  ASSUME LocksInv, NEW x \in Thread, AcquireLock(x) \/ ReleaseLock(x) PROVE LocksInv'
<1> DEFINE p == todo[x]
           l == p[1].lock
<1>1. p \in Seq(Step) /\ p # <<>> /\ Ordered(p) /\ Paired(p)
  BY DEF LocksInv, TodoOrdered, AcquireLock, ReleaseLock
<1>2. Pending(x) = p[1] /\ p[1] \in Step /\ l \in Lock
  <2>1. Head(p) = p[1] /\ Head(p) \in Step
    BY <1>1, HeadTailProperties
  <2> QED  BY <2>1, AgainStep DEF Pending
<1>3. /\ Tail(p) \in Seq(Step) /\ Ordered(Tail(p)) /\ Paired(Tail(p))
      /\ \A m \in Lock : p[1] = Acq(m) => HeldAt(Tail(p), 1, m)
      /\ \A m \in Lock : HeldAt(p, 1, m) /\ p[1] # Rel(m) => HeldAt(Tail(p), 1, m)
  BY <1>1, RestOfPlan
<1>4. todo' = [todo EXCEPT ![x] = Tail(p)] /\ UNCHANGED handler
  BY DEF AcquireLock, ReleaseLock
<1> HIDE DEF p, l
<1>5. todo' \in [Thread -> Seq(Step)] /\ TodoOrdered'
  BY <1>3, <1>4 DEF LocksInv, TodoOrdered
<1>6. \/ AcquireLock(x) /\ p[1] = Acq(l) /\ holder' = [holder EXCEPT ![l] = x]
      \/ ReleaseLock(x) /\ p[1] = Rel(l) /\ holder' = [holder EXCEPT ![l] = Free]
  <2>1. p[1].op # "again"
    BY <1>2 DEF AcquireLock, ReleaseLock
  <2>2. p[1] = [op |-> p[1].op, lock |-> l]
    BY <1>2, <2>1, AgainStep DEF l
  <2> QED  BY <1>2, <2>2 DEF AcquireLock, ReleaseLock, Acq, Rel, l
<1>7. HolderTypeOK'
  BY <1>2, <1>6 DEF LocksInv, HolderTypeOK
<1>8. HoldersRelease'
  <2> SUFFICES ASSUME NEW m \in Lock, NEW y \in Thread, holder'[m] = y
               PROVE  HeldAt(todo'[y], 1, m)
    BY DEF HoldersRelease
  <2>1. Free \notin Thread
    BY LocksAssumption DEF Thread
  <2>2. CASE y # x
    <3>1. holder[m] = y /\ todo'[y] = todo[y]
      BY <1>2, <1>4, <1>6, <2>1, <2>2 DEF LocksInv, HolderTypeOK
    <3> QED  BY <3>1 DEF LocksInv, HoldersRelease
  <2>3. CASE y = x /\ p[1] = Acq(m)
    BY <1>3, <1>4, <2>3 DEF LocksInv
  <2>4. CASE y = x /\ p[1] # Acq(m)
    <3>1. m # l
      BY <1>2, <1>6, <2>1, <2>4 DEF LocksInv, HolderTypeOK
    <3>2. holder[m] = x
      BY <1>2, <1>6, <2>4, <3>1 DEF LocksInv, HolderTypeOK
    <3>3. HeldAt(p, 1, m)
      BY <3>2 DEF LocksInv, HoldersRelease, p
    <3>4. p[1] # Rel(m)
      BY <1>6, <3>1, Steps
    <3> QED  BY <1>3, <1>4, <2>4, <3>3, <3>4 DEF LocksInv
  <2> QED  BY <2>2, <2>3, <2>4
<1>9. HandlersDone'
  <2> SUFFICES ASSUME NEW c \in Core, handler[c] = "none" PROVE todo'[c] = <<>>
    BY <1>4 DEF LocksInv, HandlersDone
  <2>1. x # c
    <3>1. todo[c] = <<>>
      BY DEF LocksInv, HandlersDone
    <3> QED  BY <1>1, <3>1 DEF p
  <2> QED  BY <1>4, <2>1 DEF LocksInv, HandlersDone, Thread
<1> QED  BY <1>5, <1>7, <1>8, <1>9 DEF LocksInv

\* One more search comes before what is left of the call.
LEMMA AgainLemma == ASSUME LocksInv, NEW x \in Thread, QueryAgain(x) PROVE LocksInv'
<1> DEFINE p == KeQuery(NCores - 1)
           q == todo[x]
<1>1. q \in Seq(Step) /\ q # <<>> /\ Ordered(q) /\ Paired(q)
  BY DEF LocksInv, TodoOrdered, QueryAgain
<1>2. Head(q) = q[1] /\ 1 \in 1 .. Len(q)
  BY <1>1, HeadTailProperties, LenProperties, EmptySeq
<1>3. q[1] \in Step /\ q[1].op = "again"
  BY <1>1, <1>2, ElementOfSeq DEF QueryAgain, Pending
<1>4. Rank(q[1].lock) = 1
  BY <1>3, AgainStep
<1>5. \A l \in Lock : HeldAt(q, 1, l) => Rank(l) < 1
  <2> SUFFICES ASSUME NEW l \in Lock, HeldAt(q, 1, l) PROVE Rank(l) < 1
    OBVIOUS
  <2>1. Rank(l) < Rank(q[1].lock)
    BY <1>1, <1>2, <1>3 DEF Ordered
  <2> QED  BY <1>4, <2>1
<1>6. Plan(p, 1)
  BY QueryPlan, LocksAssumption DEF Core
<1> HIDE DEF p, q
<1>7. /\ p \o q \in Seq(Step) /\ Ordered(p \o q) /\ Paired(p \o q)
      /\ \A l \in Lock : HeldAt(q, 1, l) => HeldAt(p \o q, 1, l)
  BY <1>1, <1>5, <1>6, ConcatRest
<1>8. todo' = [todo EXCEPT ![x] = p \o q] /\ UNCHANGED <<holder, current, handler>>
  BY DEF QueryAgain, p, q
<1>9. todo' \in [Thread -> Seq(Step)] /\ TodoOrdered' /\ HolderTypeOK'
  BY <1>7, <1>8 DEF LocksInv, TodoOrdered, HolderTypeOK
<1>10. HoldersRelease'
  BY <1>7, <1>8 DEF LocksInv, HoldersRelease, q
<1>11. HandlersDone'
  <2> SUFFICES ASSUME NEW c \in Core, handler[c] = "none" PROVE todo'[c] = <<>>
    BY <1>8 DEF LocksInv, HandlersDone
  <2>1. todo[c] = <<>>
    BY DEF LocksInv, HandlersDone
  <2>2. x # c
    BY <1>1, <2>1 DEF q
  <2> QED  BY <1>8, <2>1, <2>2 DEF LocksInv, Thread
<1> QED  BY <1>9, <1>10, <1>11 DEF LocksInv

LEMMA ReturnLemma == ASSUME LocksInv, NEW c \in Core, Return(c) PROVE LocksInv'
<1>1. UNCHANGED <<holder, todo>> /\ handler' = [handler EXCEPT ![c] = "none"] /\ todo[c] = <<>>
  BY DEF Return
<1>2. HandlersDone'
  BY <1>1 DEF LocksInv, HandlersDone
<1>3. HolderTypeOK' /\ TodoOrdered' /\ HoldersRelease'
  BY <1>1 DEF LocksInv, HolderTypeOK, TodoOrdered, HoldersRelease
<1> QED  BY <1>1, <1>2, <1>3 DEF LocksInv

LEMMA LocksStep == LocksInv /\ [Next]_vars => LocksInv'
<1> SUFFICES ASSUME LocksInv, [Next]_vars PROVE LocksInv'
  OBVIOUS
<1>1. ASSUME NEW t \in Task, Call(t) PROVE LocksInv'
  BY <1>1, CallLemma
<1>2. ASSUME NEW x \in Thread, AcquireLock(x) \/ ReleaseLock(x) \/ QueryAgain(x) PROVE LocksInv'
  BY <1>2, StepLemma, AgainLemma
<1>3. ASSUME NEW c \in Core, Timer(c) PROVE LocksInv'
  BY <1>3, HandlerLemma
<1>4. ASSUME NEW c \in Core, Return(c) PROVE LocksInv'
  BY <1>4, ReturnLemma
<1>5. CASE Keyboard
  <2>1. 0 \in Core
    BY LocksAssumption DEF Core
  <2> QED  BY <1>5, <2>1, HandlerLemma
<1>6. CASE UNCHANGED vars
  BY <1>6 DEF vars, LocksInv, HolderTypeOK, TodoOrdered, HoldersRelease, HandlersDone
<1> QED  BY <1>1, <1>2, <1>3, <1>4, <1>5, <1>6 DEF Next

LEMMA OrderLemma == LocksInv => LocksOrdered
<1> SUFFICES ASSUME LocksInv, NEW S \in SUBSET Thread, S # {},
                    \A x \in S : \E y \in S : SpinsOn(x, y)
             PROVE  FALSE
  BY DEF LocksOrdered, Circles
<1> DEFINE Goal(x) == todo[x][1].lock
<1>1. ASSUME NEW x \in S
      PROVE  \E y \in S : /\ Goal(x) \in Lock /\ todo[x][1] = Acq(Goal(x))
                          /\ holder[Goal(x)] = y
  <2>1. PICK y \in S : SpinsOn(x, y)
    OBVIOUS
  <2>2. todo[x] \in Seq(Step) /\ todo[x] # <<>>
    BY <2>1 DEF LocksInv, TodoOrdered, SpinsOn
  <2>3. Head(todo[x]) = todo[x][1] /\ Head(todo[x]) \in Step
    BY <2>2, HeadTailProperties
  <2> QED  BY <2>1, <2>3, AgainStep DEF SpinsOn, Pending, Acq
<1> HIDE DEF Goal
<1>2. ASSUME NEW x \in S
      PROVE  \E y \in S : Rank(Goal(x)) \in 0 .. 2 /\ Rank(Goal(x)) < Rank(Goal(y))
  <2>1. PICK y \in S : Goal(x) \in Lock /\ holder[Goal(x)] = y
    BY <1>1
  <2>2. HeldAt(todo[y], 1, Goal(x))
    BY <2>1 DEF LocksInv, HoldersRelease
  <2>3. Goal(y) \in Lock /\ todo[y][1] = Acq(Goal(y))
    BY <1>1
  <2>4. 1 \in 1 .. Len(todo[y]) /\ Ordered(todo[y])
    <3>1. todo[y] \in Seq(Step) /\ Ordered(todo[y])
      BY DEF LocksInv, TodoOrdered
    <3>2. \E j \in 1 .. Len(todo[y]) : TRUE
      BY <2>2 DEF HeldAt
    <3> QED  BY <3>1, <3>2
  <2>5. Rank(Goal(x)) < Rank(Goal(y))
    BY <2>1, <2>2, <2>3, <2>4, Steps DEF Ordered
  <2> QED  BY <2>1, <2>5, Locks
<1>3. PICK x1 \in S : TRUE
  OBVIOUS
<1>4. PICK x2 \in S : Rank(Goal(x1)) \in 0 .. 2 /\ Rank(Goal(x1)) < Rank(Goal(x2))
  BY <1>2
<1>5. PICK x3 \in S : Rank(Goal(x2)) \in 0 .. 2 /\ Rank(Goal(x2)) < Rank(Goal(x3))
  BY <1>2
<1>6. PICK x4 \in S : Rank(Goal(x3)) \in 0 .. 2 /\ Rank(Goal(x3)) < Rank(Goal(x4))
  BY <1>2
<1>7. Rank(Goal(x4)) \in 0 .. 2
  BY <1>2
<1> QED  BY <1>4, <1>5, <1>6, <1>7

\* On any number of cores, no threads spin on the locks of one another in a circle.
THEOREM NoCircularSpin == Spec => []LocksOrdered
BY LocksInitLemma, LocksStep, OrderLemma, PTL DEF Spec

--------------------------------------------------------------------------------
(* Circular waits through handlers and tasks that do not run               *)

\* A task that holds the lock of its own scheduler is not set aside, and the timer
\* handler does not come over it.
SchedulerHeld ==
  \A t \in Task :
    holder[Sched(CoreOf[t])] = t => current[CoreOf[t]] = t /\ handler[CoreOf[t]] # "timer"

WaitInv == LocksInv /\ current \in [Core -> Task] /\ SchedulerHeld

LEMMA OwnScheduler ==
  ASSUME NEW t \in Task
  PROVE  /\ CoreOf[t] \in Core /\ Sched(CoreOf[t]) \in Lock /\ t \notin Core /\ t # Free
         /\ t \in Thread
         /\ \A c \in Core : Sched(CoreOf[t]) = Sched(c) => c = CoreOf[t]
BY LocksAssumption, Locks DEF Sched, Thread

LEMMA WaitInitLemma == Init => WaitInv
<1> SUFFICES ASSUME Init PROVE WaitInv
  OBVIOUS
<1>1. SchedulerHeld
  BY OwnScheduler DEF Init, SchedulerHeld
<1> QED  BY <1>1, LocksInitLemma DEF Init, WaitInv

LEMMA LockHolders ==
  ASSUME WaitInv, NEW x \in Thread, AcquireLock(x) \/ ReleaseLock(x)
  PROVE  WaitInv'
<1>1. LocksInv' /\ UNCHANGED <<current, handler>>
  BY StepLemma DEF WaitInv, AcquireLock, ReleaseLock
<1>2. \A l \in Lock : holder'[l] \in {holder[l], x, Free}
  BY DEF WaitInv, LocksInv, HolderTypeOK, AcquireLock, ReleaseLock
<1>3. Running(x)
  BY DEF AcquireLock, ReleaseLock
<1>4. SchedulerHeld'
  <2> SUFFICES ASSUME NEW t \in Task, holder'[Sched(CoreOf[t])] = t
               PROVE  current[CoreOf[t]] = t /\ handler[CoreOf[t]] # "timer"
    BY <1>1 DEF SchedulerHeld
  <2>1. holder[Sched(CoreOf[t])] = t \/ t = x
    BY <1>2, OwnScheduler
  <2> QED  BY <1>3, <2>1 DEF WaitInv, SchedulerHeld, Running
<1> QED  BY <1>1, <1>4 DEF WaitInv

LEMMA HandlerHolders ==
  ASSUME WaitInv, NEW c \in Core, Timer(c) \/ (c = 0 /\ Keyboard)
  PROVE  WaitInv'
<1>1. LocksInv' /\ UNCHANGED <<current, holder>>
  BY HandlerLemma DEF WaitInv, Timer, Keyboard
<1>2. /\ \A d \in Core : d # c => handler'[d] = handler[d]
      /\ handler'[c] = "timer" => holder[Sched(c)] = Free
  BY DEF WaitInv, LocksInv, HandlersDone, Timer, Keyboard
<1>3. SchedulerHeld'
  <2> SUFFICES ASSUME NEW t \in Task, holder[Sched(CoreOf[t])] = t
               PROVE  current[CoreOf[t]] = t /\ handler'[CoreOf[t]] # "timer"
    BY <1>1 DEF SchedulerHeld
  <2> QED  BY <1>2, OwnScheduler DEF WaitInv, SchedulerHeld
<1> QED  BY <1>1, <1>3 DEF WaitInv

LEMMA ReturnHolders == ASSUME WaitInv, NEW c \in Core, Return(c) PROVE WaitInv'
<1>1. LocksInv' /\ UNCHANGED holder
  BY ReturnLemma DEF WaitInv, Return
<1>2. PICK u \in Task : /\ CoreOf[u] = c /\ current' = [current EXCEPT ![c] = u]
                        /\ handler[c] = "keyboard" => u = current[c]
  BY DEF Return
<1>3. handler[c] \in {"timer", "keyboard"} /\ handler' = [handler EXCEPT ![c] = "none"]
  BY DEF Return, WaitInv, LocksInv, HandlersDone
<1>4. SchedulerHeld'
  <2> SUFFICES ASSUME NEW t \in Task, holder[Sched(CoreOf[t])] = t
               PROVE  current'[CoreOf[t]] = t /\ handler'[CoreOf[t]] # "timer"
    BY <1>1 DEF SchedulerHeld
  <2>1. current[CoreOf[t]] = t /\ handler[CoreOf[t]] # "timer" /\ CoreOf[t] \in Core
    BY OwnScheduler DEF WaitInv, SchedulerHeld
  <2>2. CASE CoreOf[t] = c
    BY <1>2, <1>3, <2>1, <2>2 DEF WaitInv, LocksInv, HandlersDone
  <2>3. CASE CoreOf[t] # c
    BY <1>2, <1>3, <2>1, <2>3 DEF WaitInv, LocksInv, HandlersDone
  <2> QED  BY <2>2, <2>3
<1> QED  BY <1>1, <1>2, <1>4 DEF WaitInv

LEMMA WaitStep == WaitInv /\ [Next]_vars => WaitInv'
<1> SUFFICES ASSUME WaitInv, [Next]_vars PROVE WaitInv'
  OBVIOUS
<1>1. LocksInv'
  BY LocksStep DEF WaitInv
<1>2. ASSUME UNCHANGED <<holder, current, handler>> PROVE WaitInv'
  BY <1>1, <1>2 DEF WaitInv, SchedulerHeld
<1>3. ASSUME NEW x \in Thread, AcquireLock(x) \/ ReleaseLock(x) PROVE WaitInv'
  BY <1>3, LockHolders
<1>4. ASSUME NEW c \in Core, Timer(c) PROVE WaitInv'
  BY <1>4, HandlerHolders
<1>5. ASSUME NEW c \in Core, Return(c) PROVE WaitInv'
  BY <1>5, ReturnHolders
<1>6. CASE Keyboard
  <2>1. 0 \in Core
    BY LocksAssumption DEF Core
  <2> QED  BY <1>6, <2>1, HandlerHolders
<1>7. ASSUME NEW t \in Task, Call(t) PROVE WaitInv'
  BY <1>2, <1>7 DEF Call
<1>8. ASSUME NEW x \in Thread, QueryAgain(x) PROVE WaitInv'
  BY <1>2, <1>8 DEF QueryAgain
<1>9. CASE UNCHANGED vars
  BY <1>2, <1>9 DEF vars
<1> QED  BY <1>3, <1>4, <1>5, <1>6, <1>7, <1>8, <1>9 DEF Next

\* A task that holds a lock and does not run is held up.
LEMMA HeldUpLemma ==
  ASSUME WaitInv, NEW t \in Task, NEW l \in Lock, holder[l] = t, ~Running(t)
  PROVE  HeldUp(t)
<1>1. CoreOf[t] \in Core /\ (current[CoreOf[t]] # t \/ handler[CoreOf[t]] # "none")
  BY OwnScheduler DEF Running
<1>2. handler[CoreOf[t]] \in {"none", "timer", "keyboard"}
  BY <1>1 DEF WaitInv, LocksInv, HandlersDone
<1>3. l = Sched(CoreOf[t]) => current[CoreOf[t]] = t /\ handler[CoreOf[t]] # "timer"
  BY DEF WaitInv, SchedulerHeld
<1> QED  BY <1>1, <1>2, <1>3 DEF HeldUp

\* Who is waited for runs, unless held up, and who runs can only spin.
LEMMA WaitLemma == WaitInv => DeadlocksExplained
<1> SUFFICES ASSUME WaitInv, NEW S \in SUBSET Thread, S # {},
                    \A x \in S : \E y \in S : WaitsFor(x, y),
                    \A x \in S, t \in S \cap Task : WaitsFor(x, t) => ~HeldUp(t)
             PROVE  FALSE
  BY DEF DeadlocksExplained, Circles
<1>1. ASSUME NEW y \in Core, NEW l \in Lock, holder[l] = y PROVE Running(y)
  <2>1. HeldAt(todo[y], 1, l)
    BY <1>1 DEF WaitInv, LocksInv, HoldersRelease, Thread
  <2>2. handler[y] # "none"
    BY <2>1, NothingHeld DEF WaitInv, LocksInv, HandlersDone
  <2> QED  BY <2>2, LocksAssumption DEF Running
<1>2. ASSUME NEW x \in Thread, NEW y, SpinsOn(x, y) PROVE \E l \in Lock : holder[l] = y
  <2>1. todo[x] \in Seq(Step) /\ todo[x] # <<>>
    BY <1>2 DEF WaitInv, LocksInv, SpinsOn
  <2>2. Head(todo[x]) \in Step
    BY <2>1, HeadTailProperties
  <2>3. Pending(x).lock \in Lock
    BY <2>2, AgainStep DEF Pending
  <2> QED  BY <1>2, <2>3 DEF SpinsOn
<1>3. ASSUME NEW x \in S, NEW y \in S, WaitsFor(x, y) PROVE Running(y)
  <2>1. CASE Interrupted(x, y)
    BY <2>1, LocksAssumption DEF Interrupted, Running
  <2>2. CASE \E l \in Lock : holder[l] = y
    <3>1. PICK l \in Lock : holder[l] = y
      BY <2>2
    <3>2. CASE y \in Core
      BY <1>1, <3>1, <3>2
    <3>3. CASE y \in Task
      <4>1. ~HeldUp(y)
        BY <1>3, <3>3
      <4> QED  BY <3>1, <3>3, <4>1, HeldUpLemma
    <3> QED  BY <3>2, <3>3 DEF Thread
  <2>3. CASE SpinsOn(x, y)
    BY <1>2, <2>2, <2>3
  <2>4. CASE SetAside(x, y)
    <3>1. Sched(CoreOf[x]) \in Lock /\ holder[Sched(CoreOf[x])] = y
      BY <2>4, OwnScheduler DEF SetAside
    <3> QED  BY <2>2, <3>1
  <2> QED  BY <1>3, <2>1, <2>3, <2>4 DEF WaitsFor
<1> DEFINE T == {x \in S : Running(x)}
<1>4. ASSUME NEW x \in T PROVE \E y \in T : SpinsOn(x, y)
  <2>1. PICK y \in S : WaitsFor(x, y)
    OBVIOUS
  <2>2. SpinsOn(x, y)
    BY <2>1, LocksAssumption DEF WaitsFor, SetAside, Interrupted, Running
  <2> QED  BY <1>3, <2>1, <2>2
<1>5. T # {}
  BY <1>3
<1>6. T \in SUBSET {x \in Thread : \E y \in Thread : SpinsOn(x, y)}
  BY <1>4
<1>7. LocksOrdered
  BY OrderLemma DEF WaitInv
<1> QED  BY <1>4, <1>5, <1>6, <1>7 DEF LocksOrdered, Circles

\* On any number of cores and for any tasks, whenever threads wait for one another in a
\* circle, by spinning, interrupted or set aside, some task that the others need was
\* interrupted or set aside with a lock; and if the timer did it, then with a lock other
\* than that of its own scheduler.
THEOREM CircularWaitsExplained == Spec => []DeadlocksExplained
BY WaitInitLemma, WaitStep, WaitLemma, PTL DEF Spec

================================================================================
