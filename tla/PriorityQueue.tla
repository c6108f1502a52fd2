----------------------------- MODULE PriorityQueue -----------------------------
(***************************************************************************)
(* class PriorityQueue (src/kernel/scheduler.cpp): the min-heap of tasks   *)
(* sorted by start time.  Index 0 of the array is not used.  One step is   *)
(* one iteration of a loop: Insert places the task at the end and climbs   *)
(* to the root, calling Heapify at every ancestor; Deque moves the last    *)
(* task to the top and calls Heapify there.  All of it runs under the lock *)
(* of the scheduler, so operations do not overlap.                         *)
(***************************************************************************)
EXTENDS Naturals

CONSTANTS
  Task,
  NoTask,     \* content of an array element that was never written
  startTime,  \* Task::startTime: it does not change while a task is queued
  InitSize    \* INIT_PQ_SIZE

ASSUME SizeAssumption == InitSize \in Nat /\ InitSize >= 2
ASSUME QueueNames == NoTask \notin Task /\ startTime \in [Task -> Nat]

VARIABLES
  heap, size, maxSize,
  parent,     \* Insert: the ancestor to heapify next
  index,      \* Heapify: the node that may be out of place, 0 when not in Heapify
  taken       \* what the last Deque returned

vars == <<heap, size, maxSize, parent, index, taken>>

Slots == 1 .. size
Start(i) == startTime[heap[i]]
Left(i) == 2 * i
Right(i) == 2 * i + 1

PQInit ==
  /\ heap = [i \in 0 .. InitSize - 1 |-> NoTask]
  /\ size = 0
  /\ maxSize = InitSize
  /\ parent = 0 /\ index = 0
  /\ taken = NoTask

\* No operation is under way.
Quiet == index = 0 /\ parent = 0

--------------------------------------------------------------------------------
\* Array access past the end is not an action: BoundsRespected excludes it.
Grown(h) ==
  [i \in 0 .. 2 * maxSize - 1 |-> IF i < maxSize THEN h[i] ELSE NoTask]

\* Mutant of Insert: maxSize is not doubled with the array.
InsertStaleMaxSize(t) ==
  /\ Quiet
  /\ \A i \in Slots : heap[i] # t
  /\ heap' = [(IF size + 1 > maxSize - 1 THEN Grown(heap) ELSE heap) EXCEPT ![size + 1] = t]
  /\ size' = size + 1
  /\ parent' = (size + 1) \div 2
  /\ UNCHANGED <<maxSize, index, taken>>

\* Mutant of Insert: the array grows one element too late.
InsertGrowsLate(t) ==
  /\ Quiet
  /\ \A i \in Slots : heap[i] # t
  /\ LET full == size + 1 > maxSize
     IN /\ maxSize' = IF full THEN 2 * maxSize ELSE maxSize
        /\ heap' = [(IF full THEN Grown(heap) ELSE heap) EXCEPT ![size + 1] = t]
  /\ size' = size + 1
  /\ parent' = (size + 1) \div 2
  /\ UNCHANGED <<index, taken>>

\* Insert up to its loop; the array doubles when the new size does not fit.
Insert(t) ==
  /\ Quiet
  /\ \A i \in Slots : heap[i] # t
  /\ LET full == size + 1 > maxSize - 1
     IN /\ maxSize' = IF full THEN 2 * maxSize ELSE maxSize
        /\ heap' = [(IF full THEN Grown(heap) ELSE heap) EXCEPT ![size + 1] = t]
  /\ size' = size + 1
  /\ parent' = (size + 1) \div 2
  /\ UNCHANGED <<index, taken>>

\* Mutant of Climb: the parent is rounded up, and 1 is its own parent.
ClimbRoundsUp ==
  /\ index = 0 /\ parent > 0
  /\ index' = parent
  /\ parent' = (parent + 1) \div 2
  /\ UNCHANGED <<heap, size, maxSize, taken>>

\* One iteration of the loop of Insert, up to the call of Heapify.
Climb ==
  /\ index = 0 /\ parent > 0
  /\ index' = parent
  /\ parent' = parent \div 2
  /\ UNCHANGED <<heap, size, maxSize, taken>>

\* Mutant of Smallest: the last element is not looked at as a right child.
SmallestSkipsLast(i) ==
  LET l == IF Left(i) <= size /\ Start(Left(i)) < Start(i) THEN Left(i) ELSE i
  IN IF Right(i) < size /\ Start(Right(i)) < Start(l) THEN Right(i) ELSE l

\* Mutant of Smallest: the latest start moves up.
SmallestReversed(i) ==
  LET l == IF Left(i) <= size /\ Start(Left(i)) > Start(i) THEN Left(i) ELSE i
  IN IF Right(i) <= size /\ Start(Right(i)) > Start(l) THEN Right(i) ELSE l

\* The index Heapify calls min.
Smallest(i) ==
  LET l == IF Left(i) <= size /\ Start(Left(i)) < Start(i) THEN Left(i) ELSE i
  IN IF Right(i) <= size /\ Start(Right(i)) < Start(l) THEN Right(i) ELSE l

\* Heapify goes one level down.
Sink ==
  /\ index # 0 /\ index < size
  /\ Smallest(index) # index
  /\ heap' = [heap EXCEPT ![index] = heap[Smallest(index)], ![Smallest(index)] = heap[index]]
  /\ index' = Smallest(index)
  /\ UNCHANGED <<size, maxSize, parent, taken>>

\* Heapify returns: the node is in place, or the loop has reached the last one.
Settle ==
  /\ index # 0
  /\ index < size => Smallest(index) = index
  /\ index' = 0
  /\ UNCHANGED <<heap, size, maxSize, parent, taken>>

\* Tick dequeues only when the queue is not empty.
Deque ==
  /\ Quiet
  /\ size >= 1
  /\ taken' = heap[1]
  /\ heap' = [heap EXCEPT ![1] = heap[size]]
  /\ size' = size - 1
  /\ index' = 1
  /\ UNCHANGED <<maxSize, parent>>

PQNext == (\E t \in Task : Insert(t)) \/ Climb \/ Sink \/ Settle \/ Deque

PQSpec == PQInit /\ [][PQNext]_vars

\* The loops go on while they can.
PQFairSpec == PQSpec /\ WF_vars(Climb \/ Sink \/ Settle)

--------------------------------------------------------------------------------
\* The variables keep their types.
PQTypeOK ==
  /\ maxSize \in Nat /\ size \in Nat
  /\ heap \in [0 .. maxSize - 1 -> Task \cup {NoTask}]
  /\ parent \in 0 .. size /\ index \in Nat
  /\ taken \in Task \cup {NoTask}

\* The heap never outgrows its array (the test ++size > maxSize - 1 of Insert),
\* and Heapify looks at no element after the last.
BoundsRespected == size <= maxSize - 1 /\ index <= size + 1

\* p and its ancestors: the smallest set that has p, and the parent of what is in it.
Path(p) ==
  {i \in 1 .. p : \A S \in SUBSET (1 .. p) :
                    p \in S /\ (\A j \in S \ {1} : j \div 2 \in S) => i \in S}

\* While Insert or Heapify runs, no node except the path they still have to look
\* at starts later than its children: Insert may be wrong at the ancestors it
\* has not heapified, Heapify at the node it is at.
OutOfPlace == {index} \cup Path(parent)
HeapOrdered ==
  \A i \in Slots \ OutOfPlace :
    /\ Left(i) <= size => Start(i) <= Start(Left(i))
    /\ Right(i) <= size => Start(i) <= Start(Right(i))

\* Every operation ends.
OperationsEnd == ~Quiet ~> Quiet

\* The abstract queue: what Deque returns is a member that starts earliest.
Abstract == INSTANCE StartQueue WITH members <- {heap[i] : i \in Slots}
ImplementsQueue == Abstract!QueueSpec
================================================================================
