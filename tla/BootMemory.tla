------------------------------- MODULE BootMemory -------------------------------
(***************************************************************************)
(* How KeMain uses memory (src/kernel/kernel.cpp, acpi.cpp, boot.c): two   *)
(* allocators that know nothing of each other serve the same memory.       *)
(* sysMemList holds all free regions; KeSysMalloc serves the largest of    *)
(* them, pSysMemory, whose first blocks hold its bitmap.  KeMain allocates *)
(* a stack for every core, makes page tables that map memory to itself,    *)
(* and creates two processes.  The first of them, the window manager, runs *)
(* on another core while the second is being created, and allocates too.   *)
(***************************************************************************)
EXTENDS SysMalloc, PhysMemory, FiniteSets

CONSTANTS
  KeMain, Dwm,   \* the two threads
  NCores,        \* stacks to allocate
  Maps,          \* memory maps: sequences of [at, pages], lowest first
  BlockPages,    \* pages in a block of KeSysMalloc
  MapSizes       \* pages that KeMain maps (8 GiB)

VARIABLES
  map,       \* the memory map
  kpc,       \* where KeMain is
  todo,      \* calls of KeSysMalloc it has still to make there
  dpc,       \* the window manager: "new", "ready" (scheduled), "done"
  mapped,    \* pages that keMapMemory was asked to map
  demand     \* blocks that have been asked for so far

bootVars == <<map, kpc, todo, dpc, mapped, demand>>
allVars == <<sysVars, physVars, bootVars>>

--------------------------------------------------------------------------------
\* The largest region, the first of them if there are several (boot.c).
Largest(m) == CHOOSE i \in DOMAIN m :
  /\ \A j \in DOMAIN m : m[j].pages <= m[i].pages
  /\ \A j \in 1 .. i - 1 : m[j].pages < m[i].pages

Pages(r) == r.at .. r.at + r.pages - 1

\* The regions are disjoint.  The bitmap takes a block at least (kernel.cpp:495, "+ 1").
\* What KeMain maps fits into one PDPT.
ASSUME BootAssumption ==
  /\ Caller = {KeMain, Dwm} /\ KeMain # Dwm /\ NCores \in Nat
  /\ BlockPages \in Nat \ {0} /\ MaxBlocks > 0 /\ Reserved > 0
  /\ MapSizes \subseteq 0 .. Span(0)
  /\ \A m \in Maps :
       /\ m \in Seq([at : Nat, pages : Nat \ {0}]) /\ m # <<>>
       /\ \A i, j \in DOMAIN m : i # j => Pages(m[i]) \cap Pages(m[j]) = {}

pSysMemory == map[Largest(map)].at
sysMemorySize == map[Largest(map)].pages
BlocksInMemory == sysMemorySize \div BlockPages
PagesOf(b) == pSysMemory + b * BlockPages .. pSysMemory + (b + 1) * BlockPages - 1

\* Blocks that callers own, and those of the bitmap.
Taken == {b \in Block : b < Reserved \/ owners[b] > 0}

\* A page has two owners.
Clash == \E b \in Taken : PagesOf(b) \cap allocated # {}

BootInit ==
  /\ map \in Maps
  /\ SysInit /\ PhysInit(map)
  /\ kpc = "stacks" /\ todo = NCores
  /\ dpc = "new" /\ mapped = 0 /\ demand = Reserved

\* KeMain calls KeSysMalloc; a stack takes one block.
KeMainMalloc ==
  /\ kpc \in {"stacks", "dwm", "terminal"} /\ todo > 0
  /\ \E n \in 1 .. (IF kpc = "stacks" THEN 1 ELSE MaxBlocks) :
       SysMalloc(KeMain, n) /\ demand' = demand + n
  /\ todo' = todo - 1
  /\ UNCHANGED <<physVars, map, kpc, dpc, mapped>>

\* KeInitACPI returns: "auto pml4 = (PAGE_TABLE*)kePhysAlloc()".
RootTable ==
  /\ kpc = "stacks" /\ todo = 0 /\ ~Busy(KeMain)
  /\ AllocRoot
  /\ kpc' = "pml4"
  /\ UNCHANGED <<sysVars, map, todo, dpc, mapped, demand>>

\* pml4, found again as the first page that was allocated.
pml4 == map[1].at

IdentityMap ==
  /\ kpc = "pml4"
  /\ \E n \in MapSizes : MapMemory(pml4, 0, 0, n) /\ mapped' = n
  /\ kpc' = "map"
  /\ UNCHANGED <<sysVars, map, todo, dpc, demand>>

MapStep ==
  /\ MapLevel
  /\ UNCHANGED <<sysVars, bootVars>>

\* SetCR3Value, and KeCreateProcess: a buffer for the file and one for the program.
LoadTables ==
  /\ kpc = "map" /\ walk.k = 3
  /\ kpc' = "dwm" /\ todo' = 2
  /\ UNCHANGED <<sysVars, physVars, map, dpc, mapped, demand>>

\* The window manager is scheduled, and the terminal created.
StartDwm ==
  /\ kpc = "dwm" /\ todo = 0 /\ ~Busy(KeMain)
  /\ kpc' = "terminal" /\ todo' = 2 /\ dpc' = "ready"
  /\ UNCHANGED <<sysVars, physVars, map, mapped, demand>>

\* DwmInit, on the core that runs it: the frame buffer.
DwmInit ==
  /\ dpc = "ready"
  /\ \E n \in 1 .. MaxBlocks : SysMalloc(Dwm, n) /\ demand' = demand + n
  /\ dpc' = "done"
  /\ UNCHANGED <<physVars, map, kpc, todo, mapped>>

MallocStep ==
  /\ \E t \in Caller : SysStep(t)
  /\ UNCHANGED <<physVars, bootVars>>

\* What happens after one owner of a page has overwritten what the other keeps there is
\* left out.
BootNext ==
  /\ ~Clash
  /\ \/ KeMainMalloc \/ RootTable \/ IdentityMap \/ MapStep \/ LoadTables \/ StartDwm
     \/ DwmInit \/ MallocStep

BootSpec == BootInit /\ [][BootNext]_allVars

--------------------------------------------------------------------------------
\* When KeMain loads the page tables, each page that was asked for is mapped to
\* itself, whatever sizes of pages that took, and no other page is mapped.
IdentityMapped ==
  kpc \in {"dwm", "terminal"} =>
    \A v \in 0 .. Span(0) * Radix - 1 :
      Translate(pml4, v) = IF v < mapped THEN v ELSE NoPage

\* The bitmap has a bit for each 4 KiB of memory, 256 times as many as there are blocks
\* of 1 MiB, and kePhysAlloc takes pages from the same regions; nothing compares what the
\* two allocators give out.  Without races and excess demand the blocks of KeSysMalloc are
\* in memory, and a page gets two owners exactly when kePhysAlloc has been called more
\* often than there are pages before the largest region: as long as these last, and not
\* once they are used up.
Lower == UNION {Pages(map[i]) : i \in 1 .. Largest(map) - 1}
ClashExact ==
  ~raced /\ demand <= BlocksInMemory =>
    /\ \A b \in Taken : PagesOf(b) \subseteq Pages(map[Largest(map)])
    /\ Clash <=> Cardinality(allocated) > Cardinality(Lower)
================================================================================
