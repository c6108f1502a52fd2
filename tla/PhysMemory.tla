------------------------------- MODULE PhysMemory -------------------------------
(***************************************************************************)
(* Physical pages and page tables (src/kernel/kernel.cpp): sysMemList, the *)
(* free regions of the memory map of UEFI, from whose front kePhysAlloc    *)
(* takes pages, and keMapMemory, which maps a range of virtual pages with  *)
(* the largest pages that fit into it.                                     *)
(*                                                                         *)
(* Addresses count pages of 4 KiB, and a table has Radix entries (512), so *)
(* an entry of a PDPT stands for Radix * Radix pages (1 GiB) and one of a  *)
(* PD for Radix (2 MiB).  keVirtAlloc, which nothing calls, and kePhysFree *)
(* and keVirtFree, which are unfinished, are left out.                     *)
(***************************************************************************)
EXTENDS Naturals, Sequences

CONSTANT Radix
ASSUME RadixAssumption == Radix \in Nat \ {0, 1}

VARIABLES
  sysMemList,   \* free regions: [at, pages]
  allocated,    \* keys of sysMemAllocatedTree
  entries,      \* contents of the pages that hold tables
  walk          \* locals of keMapMemory

physVars == <<sysMemList, allocated, entries, walk>>

Index == 0 .. Radix - 1
Empty == [at |-> 0, present |-> FALSE, ps |-> FALSE]
NoWalk == [k |-> 3, table |-> 0, virt |-> 0, phys |-> 0, left |-> 0]

\* Pages that an entry of the table at level k stands for (1 << shifts[k] bytes).
Span(k) == CASE k = 0 -> Radix * Radix * Radix [] k = 1 -> Radix * Radix
             [] k = 2 -> Radix [] k = 3 -> 1
IndexOf(k, virt) == (virt \div Span(k)) % Radix

\* keSysMemInit.
PhysInit(map) ==
  /\ sysMemList = map
  /\ allocated = {}
  /\ entries = <<>>
  /\ walk = NoWalk

\* kePhysAlloc: the page it returns, and the list without it.
Front == sysMemList[1].at

\* Mutant of WithoutFront: a region goes one page too late.
WithoutFrontLate ==
  IF sysMemList[1].pages = 0 THEN Tail(sysMemList)
  ELSE <<[at |-> Front + 1, pages |-> sysMemList[1].pages - 1]>> \o Tail(sysMemList)

WithoutFront ==
  IF sysMemList[1].pages = 1 THEN Tail(sysMemList)
  ELSE <<[at |-> Front + 1, pages |-> sysMemList[1].pages - 1]>> \o Tail(sysMemList)

kePhysAlloc ==
  /\ sysMemList # <<>>
  /\ sysMemList' = WithoutFront
  /\ allocated' = allocated \cup {Front}

ZeroedTable(page) == [p \in DOMAIN entries \cup {page} |->
                        IF p = page THEN [i \in Index |-> Empty] ELSE entries[p]]

\* The root page table.
AllocRoot ==
  /\ kePhysAlloc
  /\ entries' = ZeroedTable(Front)
  /\ UNCHANGED walk

\* keMapMemory(root, virt, phys, n, 0).
MapMemory(root, virt, phys, n) ==
  /\ walk.k = 3
  /\ walk' = [k |-> 0, table |-> root, virt |-> virt, phys |-> phys, left |-> n]
  /\ UNCHANGED <<sysMemList, allocated, entries>>

\* Mutant of Filled: every large page is mapped to the first one's address.
FilledAlike(table, k, virt, phys, num, psBit) ==
  [i \in Index |->
     LET j == (i + Radix - IndexOf(k, virt)) % Radix
     IN IF j < num THEN [at |-> phys, present |-> TRUE, ps |-> psBit] ELSE table[i]]

\* The entries of one table after num large pages have been written to it.
Filled(table, k, virt, phys, num, psBit) ==
  [i \in Index |->
     LET j == (i + Radix - IndexOf(k, virt)) % Radix
     IN IF j < num THEN [at |-> phys + j * Span(k), present |-> TRUE, ps |-> psBit]
        ELSE table[i]]

\* One iteration: go to the table below, which may have to be made, and map the
\* pages of its size.
MapLevel ==
  /\ walk.k < 3
  /\ LET k == walk.k
         i == IndexOf(k, walk.virt)
         old == entries[walk.table][i]
         next == IF old.present THEN old.at ELSE Front
         num == walk.left \div Span(k + 1)
         left == walk.left - num * Span(k + 1)
         linked == IF old.present THEN entries
                   ELSE [ZeroedTable(next) EXCEPT ![walk.table][i] =
                           [at |-> next, present |-> TRUE, ps |-> FALSE]]
     IN /\ IF old.present THEN UNCHANGED <<sysMemList, allocated>> ELSE kePhysAlloc
        /\ entries' = [linked EXCEPT ![next] =
                         Filled(@, k + 1, walk.virt, walk.phys, num, k # 2)]
        /\ walk' = [k |-> IF left = 0 THEN 3 ELSE k + 1, table |-> next,
                    virt |-> walk.virt + num * Span(k + 1),
                    phys |-> walk.phys + num * Span(k + 1), left |-> left]

--------------------------------------------------------------------------------
\* What the processor makes of the tables; NoPage where it would fault.
NoPage == "none"
Translate(root, virt) ==
  LET e1 == entries[root][IndexOf(0, virt)]
      e2 == entries[e1.at][IndexOf(1, virt)]
      e3 == entries[e2.at][IndexOf(2, virt)]
      e4 == entries[e3.at][IndexOf(3, virt)]
  IN CASE ~e1.present -> NoPage
       [] OTHER -> CASE ~e2.present -> NoPage
                     [] e2.present /\ e2.ps -> e2.at + (virt % Span(1))
                     [] OTHER -> CASE ~e3.present -> NoPage
                                   [] e3.present /\ e3.ps -> e3.at + (virt % Span(2))
                                   [] OTHER -> IF e4.present THEN e4.at ELSE NoPage
================================================================================
