------------------------------- MODULE KernelHeap -------------------------------
(***************************************************************************)
(* The kernel heap (namespace heap, src/lib/mem.cpp): a first-fit          *)
(* allocator whose free blocks form a doubly linked list in address order. *)
(* Every block starts with a header of Hdr bytes; "size" is the number of  *)
(* bytes after it.  malloc and free hold heapLock from end to end, so each *)
(* is one step.  Addresses are relative to pHeap.                          *)
(***************************************************************************)
EXTENDS Integers, FiniteSets

CONSTANTS
  HeapSize,  \* heapSize
  Hdr,       \* sizeof(BLOCK_HDR)
  Requests   \* sizes the callers ask for

ASSUME HeapAssumption == /\ HeapSize \in Nat /\ Hdr \in Nat \ {0}
                         /\ Hdr <= HeapSize /\ Requests \subseteq Nat

Addr == 0 .. HeapSize - Hdr  \* where a header fits
Null == -1                   \* nullptr

VARIABLES
  head,                      \* head
  size, prevFree, nextFree,  \* the headers in memory; a field that the code does
                             \* not read before it writes it again holds 0 or Null
  live,                      \* blocks whose callers have not freed them
  asked,                     \* what the callers of live blocks asked for
  crashed                    \* a null pointer was followed

vars == <<head, size, prevFree, nextFree, live, asked, crashed>>

HeapInit ==
  /\ head = 0
  /\ size = [a \in Addr |-> IF a = 0 THEN HeapSize - Hdr ELSE 0]
  /\ prevFree = [a \in Addr |-> Null]
  /\ nextFree = [a \in Addr |-> Null]
  /\ live = {}
  /\ asked = [a \in Addr |-> 0]
  /\ crashed = FALSE

\* The macro ADJACENT, for a block a that has s bytes.
Adjacent(a, s, b) == b # Null /\ a + Hdr + s = b

\* A store through a pointer that the code first compares with nullptr.
Store(f, a, v) == IF a = Null THEN f ELSE [f EXCEPT ![a] = v]

\* The block that the code reaches from head over k links.
Reached[k \in Nat] ==
  IF k = 0 THEN head
  ELSE LET p == Reached[k - 1] IN IF p = Null THEN Null ELSE nextFree[p]

Links == 0 .. HeapSize \div Hdr      \* more links than there can be blocks
FreeBlocks == {Reached[k] : k \in Links} \ {Null}

First(S) == CHOOSE k \in S : \A j \in S : k <= j

--------------------------------------------------------------------------------
(* malloc                                                                  *)


Fits(n) == {k \in Links : Reached[k] # Null /\ size[Reached[k]] >= n}

\* The first block on the list that is large enough; malloc returns a null
\* pointer and changes nothing when there is none.
Found(n, b) == Fits(n) # {} /\ b = Reached[First(Fits(n))]

GiveOut(n, b) ==
  /\ ~crashed
  /\ Found(n, b)
  /\ live' = live \cup {b}
  /\ asked' = [asked EXCEPT ![b] = n]
  /\ UNCHANGED crashed

\* Mutant of AllocFull: a block that is the head of the list stays the head.
AllocFullKeepsHead(n, b) ==
  /\ GiveOut(n, b)
  /\ size[b] <= n + Hdr
  /\ nextFree' = Store([nextFree EXCEPT ![b] = Null], prevFree[b], nextFree[b])
  /\ prevFree' = Store([prevFree EXCEPT ![b] = Null], nextFree[b], prevFree[b])
  /\ UNCHANGED <<head, size>>

\* The rest of the block could not hold a header and a byte.
AllocFull(n, b) ==
  /\ GiveOut(n, b)
  /\ size[b] <= n + Hdr
  /\ head' = IF b = head THEN nextFree[b] ELSE head
  /\ nextFree' = Store([nextFree EXCEPT ![b] = Null], prevFree[b], nextFree[b])
  /\ prevFree' = Store([prevFree EXCEPT ![b] = Null], nextFree[b], prevFree[b])
  /\ UNCHANGED size

\* Mutant of AllocPartial: the block is split even when nothing is left over.
AllocPartialAlways(n, b) ==
  /\ GiveOut(n, b)
  /\ LET rest == b + Hdr + n
     IN /\ size' = [size EXCEPT ![b] = n, ![rest] = size[b] - n - Hdr]
        /\ head' = IF b = head THEN rest ELSE head
        /\ nextFree' = Store([nextFree EXCEPT ![b] = Null, ![rest] = nextFree[b]], prevFree[b], rest)
        /\ prevFree' = Store([prevFree EXCEPT ![b] = Null, ![rest] = prevFree[b]], nextFree[b], rest)

\* The rest of the block becomes a free block in its place.
AllocPartial(n, b) ==
  /\ GiveOut(n, b)
  /\ size[b] > n + Hdr
  /\ LET rest == b + Hdr + n
     IN /\ size' = [size EXCEPT ![b] = n, ![rest] = size[b] - n - Hdr]
        /\ head' = IF b = head THEN rest ELSE head
        /\ nextFree' = Store([nextFree EXCEPT ![b] = Null, ![rest] = nextFree[b]], prevFree[b], rest)
        /\ prevFree' = Store([prevFree EXCEPT ![b] = Null, ![rest] = prevFree[b]], nextFree[b], rest)

--------------------------------------------------------------------------------
(* free: the neighbours of the block on the list, then one of four cases   *)

\* Where the walk along the list stops.
Iterator(b) ==
  Reached[First({k \in Links : Reached[k] # Null
                               /\ (Reached[k + 1] = Null \/ Reached[k + 1] >= b)})]

LeftOf(b) == IF b < Iterator(b) THEN Null ELSE Iterator(b)
RightOf(b) == IF b < Iterator(b) THEN Iterator(b) ELSE nextFree[Iterator(b)]

TouchesLeft(b) == LeftOf(b) # Null /\ Adjacent(LeftOf(b), size[LeftOf(b)], b)
\* Mutant of TouchesRight: the block on the right is never found adjacent.
TouchesRightNever(b) == FALSE /\ b = b

TouchesRight(b) == Adjacent(b, size[b], RightOf(b))

GiveBack(b) ==
  /\ ~crashed
  /\ b \in live
  /\ head # Null
  /\ live' = live \ {b}
  /\ head' = IF b < Iterator(b) THEN b ELSE head
  /\ asked' = [asked EXCEPT ![b] = 0]
  /\ UNCHANGED crashed

\* Mutant of FreeAlone: the right neighbour keeps its prevFree.
FreeAloneOneWay(b) ==
  /\ GiveBack(b)
  /\ ~TouchesLeft(b) /\ ~TouchesRight(b)
  /\ nextFree' = Store([nextFree EXCEPT ![b] = RightOf(b)], LeftOf(b), b)
  /\ prevFree' = [prevFree EXCEPT ![b] = LeftOf(b)]
  /\ UNCHANGED size

FreeAlone(b) ==
  /\ GiveBack(b)
  /\ ~TouchesLeft(b) /\ ~TouchesRight(b)
  /\ nextFree' = Store([nextFree EXCEPT ![b] = RightOf(b)], LeftOf(b), b)
  /\ prevFree' = Store([prevFree EXCEPT ![b] = LeftOf(b)], RightOf(b), b)
  /\ UNCHANGED size

\* Mutant of FreeIntoLeft: the header of the merged block is lost.
FreeIntoLeftShort(b) ==
  /\ GiveBack(b)
  /\ TouchesLeft(b) /\ ~TouchesRight(b)
  /\ size' = [size EXCEPT ![LeftOf(b)] = @ + size[b], ![b] = 0]
  /\ UNCHANGED <<nextFree, prevFree>>

FreeIntoLeft(b) ==
  /\ GiveBack(b)
  /\ TouchesLeft(b) /\ ~TouchesRight(b)
  /\ size' = [size EXCEPT ![LeftOf(b)] = @ + size[b] + Hdr, ![b] = 0]
  /\ UNCHANGED <<nextFree, prevFree>>

FreeIntoBoth(b) ==
  /\ GiveBack(b)
  /\ TouchesLeft(b) /\ TouchesRight(b)
  /\ LET l == LeftOf(b)
         r == RightOf(b)
     IN /\ size' = [size EXCEPT ![l] = @ + size[b] + Hdr + size[r] + Hdr, ![b] = 0, ![r] = 0]
        /\ nextFree' = [nextFree EXCEPT ![l] = nextFree[r], ![r] = Null]
        /\ prevFree' = Store([prevFree EXCEPT ![r] = Null], nextFree[r], l)

FreeIntoRight(b) ==
  /\ GiveBack(b)
  /\ ~TouchesLeft(b) /\ TouchesRight(b)
  /\ LET r == RightOf(b)
     IN /\ size' = [size EXCEPT ![b] = @ + size[r] + Hdr, ![r] = 0]
        /\ nextFree' = Store([nextFree EXCEPT ![b] = nextFree[r], ![r] = Null], prevFree[r], b)
        /\ prevFree' = Store([prevFree EXCEPT ![b] = prevFree[r], ![r] = Null], nextFree[r], b)

\* The walk starts at head without looking whether there is one.
FreeCrash(b) ==
  /\ ~crashed
  /\ b \in live
  /\ head = Null
  /\ crashed' = TRUE
  /\ UNCHANGED <<head, size, prevFree, nextFree, live, asked>>

Malloc == \E n \in Requests, b \in Addr : AllocFull(n, b) \/ AllocPartial(n, b)
Free == \E b \in Addr : \/ FreeAlone(b) \/ FreeIntoLeft(b) \/ FreeIntoBoth(b)
                        \/ FreeIntoRight(b) \/ FreeCrash(b)

HeapNext == Malloc \/ Free
HeapSpec == HeapInit /\ [][HeapNext]_vars

--------------------------------------------------------------------------------
Blocks == FreeBlocks \cup live
End(a) == a + Hdr + size[a]

\* The variables keep their types.
HeapTypeOK ==
  /\ head \in Addr \cup {Null}
  /\ size \in [Addr -> 0 .. HeapSize]
  /\ prevFree \in [Addr -> Addr \cup {Null}]
  /\ nextFree \in [Addr -> Addr \cup {Null}]
  /\ live \subseteq Addr
  /\ asked \in [Addr -> Requests \cup {0}]
  /\ crashed \in BOOLEAN

LargeEnough == \A a \in live : size[a] >= asked[a]

\* Free and live blocks tile the heap: no byte is lost and none is in two
\* blocks, whatever was split and merged, and callers' blocks hold what they asked for.
Tiled ==
  /\ LargeEnough
  /\ 0 \in Blocks
  /\ FreeBlocks \cap live = {}
  /\ \A a \in Blocks : End(a) = HeapSize \/ End(a) \in Blocks
  /\ \A a, b \in Blocks : a < b => End(a) <= b

\* The free list is in address order, and its two directions agree.
ListConsistent ==
  /\ head # Null => prevFree[head] = Null
  /\ \A a \in FreeBlocks :
       nextFree[a] # Null => a < nextFree[a] /\ prevFree[nextFree[a]] = a

\* free merges whatever it can: no two free blocks are neighbours, so a request
\* fails only when no contiguous space is left.
Coalesced == \A a, b \in FreeBlocks : ~Adjacent(a, size[a], b)

\* The regions callers own obey the abstract allocator.
Abstract == INSTANCE Allocator WITH
  MemSize <- HeapSize,
  owned <- {[at |-> a + Hdr, len |-> asked[a]] : a \in live}
ImplementsAllocator == Abstract!AllocSpec
================================================================================
