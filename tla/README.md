# TLA+ verification of epochx64

epochx64 is a small x86-64 multi-core operating system: a UEFI boot loader, a kernel with a
preemptive task scheduler on every core, a kernel heap, a RAM disk, a window manager and a
terminal. This directory holds TLA+ models of its core, TLC configurations that check them on
small instances, and theorems checked by TLAPS about the scheduler, its queue, the kernel heap,
the memory bitmap, page tables, standard input, the terminal, the RAM disk and the locks. Paths
below are relative to the repository.

## Inventory

| Component | Source | State | Operations | Model |
|---|---|---|---|---|
| Scheduler, one per core | `src/kernel/scheduler.cpp`, `include/scheduler.h` | `schedulerLock`, `currentTask`, `activeTaskList`, `schedule`, `nTasks`, `currentTime`, `TaskTree`; per task `startTime`, `reschedule`, `ended`, `suspended` | `Tick`, `AddTask`, `PopFromActiveTaskList`, `RescheduleTask`, `ReturnHandler`, `Task` constructor and destructor | `Scheduler` |
| Task API | `src/kernel/kernel.cpp` 550-770 | none of its own | `KeScheduleTask`, `KeSuspendTask`, `KeSuspendCurrentTask`, `KeResumeTask`, `KeQueryScheduler`, `KeQueryTask` | `Scheduler` |
| Locks, context switch | `src/lib/ipc/ipc.s`, `src/kernel/interrupt.s` | lock words, `keTasks` | `AcquireLock`, `ReleaseLock`, `ISR48` | `KernelLocks`, in `Scheduler` |
| Priority queue | `scheduler.cpp` 315-396 | `heap`, `size`, `maxSize` | `Insert`, `Heapify`, `Deque` | `PriorityQueue` |
| Kernel heap | `src/lib/mem.cpp` 12-180 | `head`, block headers, `heapLock` | `init`, `malloc`, `free` | `KernelHeap` |
| AVL tree | `src/lib/algorithm.cpp` | `root`, nodes | `Insert`, `Remove`, `Search` | `AvlTree` |
| Standard input | `src/lib/io.cpp` | ring buffer, its lock, `taskResumeHandle` | `putchar`, `scanchar`, `scanLine` | `Stdin` |
| System memory bitmap | `mem.cpp` 182-244 | bitmap of 1 MiB blocks | `KeSysMalloc`, `KeSysMemBitmapSet` | `SysMalloc` |
| Physical and virtual memory | `kernel.cpp` 205-545 | `sysMemList`, `sysMemAllocatedTree`, page tables | `keSysMemInit`, `kePhysAlloc`, `keMapMemory` | `PhysMemory`, `BootMemory` |
| Interrupt handlers | `interrupt.cpp`, `interrupt.s`, `pic.cpp` | IDT, PIC | timer, keyboard and mouse interrupts | `KernelLocks`, `Terminal` |
| RAM disk | `src/fs/ext2.cpp` | inode and block bitmaps, inodes, directories | `WriteFile`, `ReadFile`, `MakeDir`; below them `CreateFile`, `GetFile`, `AllocateBlock(s)` | `RamDisk` |
| Window manager | `src/proc/dwm/dwm.cpp` | `dwmKeyboardState`, window list, mouse packet | `DwmKeyboardEvent`, `DwmInit`, `DwmCreateWindow`, `DwmMouseEvent` | `Terminal`, `BootMemory` in part |
| Terminal | `src/proc/terminal/terminal.cpp` | `isE0Key`, `input` | `termKeyboardEventCallback`, `main` | `Terminal` |
| Boot loader, start of the cores | `boot.c`, `acpi.cpp` | memory map, APIC registers | choice of the largest region, stacks | `BootMemory` in part |
| ELF loader, graphics, log, strings, RAM disk generator | `src/lib/elf`, `src/kernel/graphics.cpp`, ... | | | not modelled |

How they interact. A task calls the task API on whatever core it runs on; the call
takes the spin lock of the scheduler that owns the *target*, often one of another
core. The timer interrupt of a core runs `Tick` on that core's scheduler with
interrupts off, and may come between any two instructions of the running task. The
scheduler keeps a task in `TaskTree` (an `AvlTree`) from `KeScheduleTask` to its
deletion, and in between in the priority queue, on the active list, or (suspended)
in neither. Tasks, tree nodes and queues live in the kernel heap. A key press
becomes a task that calls `putchar`, which resumes a reader asleep in `scanLine`. Programs,
files and stacks get memory from `KeSysMalloc`, page tables from `kePhysAlloc`, both out
of the same regions. `KeCreateProcess` reads a program from the RAM disk.

What is hard: interleaving of API calls with timer interrupts of the same and of
other cores; locks that are released between a search and the use of its result;
the check-then-acquire of `Tick`; two flags (`ended`, `suspended`) and `reschedule`
that decide together how a task leaves the active list; the hand-over of a sleeping
reader through a global variable; handlers that take the locks of the code they
interrupt; allocation without a lock; searches that cross the words of a bitmap;
pointer surgery in the heap, the tree and the queue. `PROJECT.json` lists each hazard at its line.

What correctness means:

- *Scheduler*: the active list never holds a task twice and idles exactly when it
  is empty; queue and active list are disjoint; the running task is listed; an
  ended task is reaped; no task is lost; `nTasks` counts the active tasks; due tasks
  start.
- *Priority queue*: nothing lost, nothing outside the array, always an earliest
  task first, loops end.
- *Heap*: blocks tile the heap, the free list is ordered, consistent and coalesced,
  and callers' regions are disjoint and large enough.
- *Tree*: no task is lost; search order, parent links, balance.
- *Standard input*: characters arrive in order, none is invented, a sleeper wakes.
- *Terminal*: every key typed arrives once, as it was meant, in order.
- *Locks*: no threads wait for one another in a circle.
- *Memory*: no block or page has two owners, none is lost, a request fails only for
  want of room; page tables map what was asked for and nothing else.
- *RAM disk*: a block or an inode has one owner; what was written is read back; writing
  one file leaves the others alone.

## Modules

| Module | What it is |
|---|---|
| `Scheduler` | all schedulers, the task API and the timer interrupts |
| `TaskLife` | abstract specification: the life of a task; `Scheduler` implements it |
| `PriorityQueue` | the array min-heap, one loop iteration per step |
| `StartQueue` | abstract specification: a set from which an earliest task is taken; this is how `Scheduler` sees its queue |
| `KernelHeap` | first-fit allocator with its headers in memory |
| `Allocator` | abstract specification: disjoint regions with one owner |
| `AvlTree` | the tree, with the pointer assignments of the code in order |
| `Stdin` | ring buffer, writers, the reader and its sleep |
| `Terminal` | keyboard, interrupt handler, key tasks and the terminal, on top of `Stdin`, which it refines |
| `KernelLocks` | every lock of the kernel, the calls that take them and the handlers that come between |
| `SysMalloc` | the bitmap allocator, word by word, for any number of callers |
| `PhysMemory` | free pages and page tables |
| `BootMemory` | `KeMain` and the window manager using `SysMalloc` and `PhysMemory` |
| `RamDisk` | the file system: blocks, directories, calls |
| `Scheduler_proofs` | lemmas on the list operators and one lemma per action; the theorems and the refinement of `TaskLife` |
| `PriorityQueue_proofs`, `AvlTree_proofs`, `KernelHeap_proofs`, `Terminal_proofs`, `RamDisk_proofs`, `KernelLocks_proofs` | theorems about these modules |
| `Memory_proofs` | theorems about `SysMalloc`, their consequences for `BootMemory`, and page tables |
| `MCLive` | a small instance of `Scheduler`, begun in the middle, for progress |
| `MCScheduler`, `MCPriorityQueue`, `MCTerminal`, `MCKernelLocks`, `MCBootMemory`, `MCRamDisk` | instances for TLC |

An operator whose comment begins "Mutant of" is no part of a specification: it is
what a plausible mistake in the code would make of the definition after it, kept to
show that the property named in `PROJECT.json` would notice.

### Scheduler: state and actions

A task is its own handle (handles are never reused). `home[t]` is the scheduler whose
`TaskTree` holds `t`, `active[c]` the linked list, `schedule[c]` the set in the queue.
`pc` and `frame` say where the code of every thread is in a kernel call; `tick[c]`
where the timer interrupt of core `c` is. Core 0's boot thread, `KeMain`, runs as the
idle task of core 0 and may call the API.

Grain. Taking a lock is a step, separate from the test before it; a critical section
together with its release is one step, since all others that touch the data hold the
same lock. The unlocked reads of `nTasks` are one step each. In `Tick` the test of
the lock (`TickStart`, or `TickSkip` when it is taken), the acquisition with the
reaping of the current task (`TickKeep`, `TickReschedule`, `TickPark`,
`TickDelete`), each activation (`TickDeque`) and the selection with the release
(`TickSelect`) are steps. A core whose tick is not "off" executes nothing else.
`KeSuspendCurrentTask` searches its own task twice (`KeQueryTask`, then
`KeQueryScheduler`); one of the two read-only searches is modelled.

Who calls what. A task suspends only itself, and after `KeSuspendTask` on itself it
only returns, as `main` of the window manager does (`dwm.cpp:542`): these are all
suspensions in the repository. Resumes are as free as the code leaves them. `putchar`
(`io.cpp:127`) resumes whoever has published a handle, from every task that handles a key, before or
after the reader has suspended itself, before or after the tick has reaped it, and
`KeResumeTask` (`kernel.cpp:682`) asks for nothing. So any task resumes any task whose handle
`KeScheduleTask` has returned, whatever state that is in and whoever else is resuming it (`Call`).

Faults. A resume of a task that is queued puts it into the queue twice (`ResumeQueued`);
a resume of a listed task leaves it listed and queued (`early` remembers it), and then
its end may queue it twice or destroy it while queued (`TickRequeue`, `TickDangle`), and
its activation links the active list into a cycle (`TickRelist`). A call about a
task that has been destroyed follows a null scheduler, or a null task if it was
destroyed between `KeQueryScheduler` and the lock that line 688 takes again (`FindNothing`,
`ApplyToNothing`). These actions record the kind of the fault and its task in `fault`, and the
system stops, since what such a structure does next is not modelled. `FaultsExplained` says
that nothing else leads there: the damage never reaches a task that nobody has resumed
too early, and a suspension, which makes the same unlocked search, never follows a null
pointer. The assertions of the code only log.

### The other modules

`PriorityQueue` keeps index 0 unused as the code does; `parent` and `index` are the loop
variables of `Insert` and `Heapify`. `KernelHeap` has one step per `malloc` or `free`, because
both hold `heapLock` throughout; fields that the code leaves behind and never reads are reset.
`AvlTree` holds all pointers in one record, which the operators thread through the assignments
of the code; `crashed` is a null pointer followed on the way through the tree (the assertions
in lines 24 and 158 also read through a null root, at address 0, which is mapped; what they
read is only logged). A loop of the code is a function from the number of its rounds to what it
has made of the tree; `Rounds` is more than any loop takes. `Stdin` keeps of the scheduler only
what happens to the reader; the writers run on other cores. `kept` is a history: what has been
stored, without what a lap has taken. `ResumeReader` reads the handle again, as the code does,
and fails if the reader has cleared it.

`Terminal` extends `Stdin`: its key tasks are the writers. A byte from the keyboard is one
step of the interrupt handler, which updates the shift state and schedules a task with
the byte; the task's look at the shift keys (`StartKey`), its use of `isE0Key`
(`DecodeKey`) and its `putchar` are steps of their own, since other tasks and interrupts
come between. The scheduler is the set `scheduled`: a task starts on any core at any time.

`KernelLocks` keeps of a call only its acquisitions and releases, as a sequence (`todo`),
for instance `KeScheduleTask(c)`: heap, handle counter, heap, and the heap again under the
lock of scheduler `c`. `Timer` and `Keyboard` put the sequence of a handler in front of
the task; `Return` of the timer may choose another task. A lock has an owner here,
which the code does not keep. Adjacent uses of the heap count once. `putchar` may find no
reader, find it and then resume it or not, or search for ever with the lock of stdin held
(`QueryAgain`).

`SysMalloc` reads one word of the bitmap per step (`SearchHit`, `SearchMiss`) and splits
the `|=` of `KeSysMemBitmapSet` into a read and a write, as another core sees them;
`found` is `nFoundBlocks` between words. `PhysMemory` counts addresses in pages; `MapLevel`
is one iteration of `keMapMemory`. `BootMemory` composes the two along `KeMain`:
stacks, root table, mapping, the two processes, and the window manager, which allocates
its frame buffer while the second process is being created.

`RamDisk` has one step per public call, because calls come one after another (the
generator writes the image, `KeMain` reads it). A disk is a record, and the private
functions map disks to disks. Names are compared through `Prefix`, as `strncmp` over the
length of the sought name does; each entry also keeps the name its creator meant
(`called`), so that `confused` can tell when a lookup has taken one name for another.
`MakeDir` copies its path into uninitialized memory without the terminator: the last name may
get longer, and names may follow it (`Stray`). Names are not empty, and no call takes a file for a
directory, or the other way round.

## Runs

| Run | Instance | Shows |
|---|---|---|
| `scheduler` | 2 cores, 2 tasks and the boot thread, clock up to 1, symmetric tasks | all safety properties, the inductive invariant, refinement of `TaskLife` |
| `progress` | 2 cores, 4 tasks that suspend themselves and resume the watched one | due tasks start, ended tasks are reaped |
| `priority_queue` | 6 tasks with 3 start times, initial array of 2 | safety, termination, refinement of `StartQueue` |
| `kernel_heap` | 14 bytes, 1-byte headers, requests of 1 to 3 | safety, refinement of `Allocator` |
| `avl_tree` | 9 handles | tasks kept, links, balance while the tree only grows, search order kept by insertions and by removals from a balanced tree |
| `terminal` | 1 plain, 1 extended and the shift key, 4 key events, 2 cores, buffer of 3 | order, what a lap takes, keys kept, typed as meant |
| `memory` | 4 memory maps, two with too few pages before the largest region, 2 stacks, bitmap of 6 words of 2 bits, requests of 1 to 3 blocks, tables of 2 entries, 1 to 8 pages mapped | grants, search, mapping, both allocators together |
| `ram_disk` | 5 paths, 3 ways to go on behind one, 1 direct pointer, 2 entries in a block, 4 calls | ownership, contents, isolation, faults |
| `locks` | 2 cores, 3 tasks, 2 calls at a time, timer and keyboard | no circular spinning; the causes of every deadlock |
| `starvation`, `lost_wakeup`, `avl_order` | as small as shows it | a comment of the code that the code does not keep |

Why the bounds are enough. Two cores give every remote lock and both directions of
`KeQueryScheduler`; two tasks and the boot thread give a caller, a target and a bystander, and
lists of length 0, 1 and 2, which are the cases `Tick` distinguishes. The theorems cover all
other sizes. `VIEW LiveState` leaves out `currentTime` of a core that is not in `Tick`, which
sets it before reading it; `VIEW Alike` in `terminal` leaves out the numbers that tell apart
the tasks of equal bytes. `progress` starts where one task runs on core 0, two are queued there
and the watched one is queued on core 1, so that its core finds the lock taken by tasks of core
0 again and again, and holders of the lock can be preempted there. A clock of two instants
gives start times in the past, now and in the future. Six tasks fill a heap of three levels,
with one and two children, and ties; the array doubles twice. A heap of 14 with headers of 1
holds seven blocks, enough for every case of `free` to meet every case of `malloc`. Nine
handles give both double rotations, and a removal from a tree that an earlier removal has left
out of balance. The buffer of three holds two unread characters, wraps and is lapped in four;
four key events give a shifted key with its release, an extended key, and two presses in flight
at once. Words of two bits make some runs of two, and all runs of three, cross a word; the maps
have more memory than the first bitmap word covers, and less than the bitmap claims, as on the
machine; two of them have five pages before the largest region, enough for the tables, one has
two pages there, too few when all of memory is mapped, and one has none. Tables with two
entries give pages of all three sizes, alone and together. Four calls create, overwrite, shrink
and read back a file or fill a directory block and begin the next, with contents that need
indirect blocks. Two calls and two handlers suffice for every pair of locks taken in opposite
orders; longer circles are excluded by the theorem.

`CHECK_DEADLOCK FALSE` is set where the system may stop: a heap that has crashed, a
tree that has seen all handles, a program to which nobody types, a scheduler after
a fault, a system that has started, a disk after the last call. In `locks` a state in
which nobody can go on is what `DeadlocksExplained` is about, and such states are reached.

Fairness. `Fairness` in `Scheduler` is weak for each core's `Tick`: an interrupt that has begun
goes on, and one comes, but it finds the lock free only if the lock stays free. It is strong
for the step by which a thread leaves a critical section (`LeaveLock`): that step is enabled
whenever the thread runs, and a task that is run again and again does not stand still. Nothing
says that a preempted holder runs again (by the finding of `starvation` it may not): that is
`Stuck`, the exception in `DueTaskActivated` and `EndedTaskReaped`, and the only one. Tasks
that took the lock again and again for ever, in step with the timer, would hold off a tick that
is only weakly fair; in the run they take the lock of core 1 only to resume the watched task,
which nobody can do twice while it is queued without a fault. `EagerSpec`, strong fairness for
`Tick` and for every kernel step, is more than the code guarantees; it is used only in
`starvation`, where it makes the refutation stronger: even then the first task never runs.
Nothing forces a task to call, return or be resumed. `StdinFairSpec` has weak fairness for the
scheduler and the writers and strong fairness for the reader, which competes with them for the
lock; nobody has to type. `PQFairSpec` says that loops go on.

### What the violation runs found

- `starvation` (`scheduler.cpp:192`): `currentTask` is set to the head of the list
  before its successor is taken, so the second task always runs and the first never.
- `lost_wakeup` (`io.cpp:126`): a character between the reader's test and the store of
  its handle wakes nobody.
- `avl_order` (`algorithm.cpp:339`): in a tree that is out of balance `Successor` goes to a
  nephew when there is no left child, which is not the successor (`algorithm.cpp:318`); the
  node takes the place of the removed one, and keys are no longer in search order.
  `Search` then misses tasks. It takes nine insertions and two removals; with eight
  handles nothing of the kind happens. Where the nephew is missing, as after removing 2 from
  1 to 4, the code follows a null pointer (`crashed`).

The models also contain, without a run of their own. A tick looks only at its own core's lock
(`scheduler.cpp:134`): it takes the core away from code that holds another lock, which then
stays taken until that code runs again. Worse, a handler that comes over a task with a lock may
want that lock itself: the timer deletes a task and needs `heapLock`, the keyboard handler
needs `heapLock` and a scheduler. These are circular waits that `locks` reaches;
`DeadlocksExplained` says that there are no others. A resume that comes too early or after the
end of its task does what `FaultsExplained` describes. A periodic task that suspends itself
starts again in its next period (`scheduler.cpp:156`). `putchar` loops for ever with the lock
of stdin held when the reader clears its handle at the wrong moment (`io.cpp:129`, the writer
stays at "query" in `Stdin` and at "again" in `KernelLocks`), or resumes handle 0
(`io.cpp:132`, `fault` in `Stdin`); `free` follows a null head when the heap is full
(`mem.cpp:123`, action `FreeCrash`); the tree is not balanced after removals
(`algorithm.cpp:142` updates the height of one ancestor only), nor after insertions out of
order, which happen when two cores schedule tasks at once (`Ascending = FALSE`). `KeSysMalloc`
grants a block twice when calls race (`raced`), which the window manager and `KeMain` may do;
and its bitmap has a bit for each page, so that exhausted memory is granted beyond its end
(`demand` in `ClashExact`). `kePhysAlloc` reaches the memory that `KeSysMalloc` serves when the
regions before the largest one are used up, and then hands out the page of the bitmap
(`Clash`). A key task that runs late sees the shift keys as they are by then (`hurried`), and
the byte after 0xE0 types a character when the two tasks change places. On the RAM disk a path
component matches an entry that it is a prefix of (`confused`), and `MakeDir` makes more of a
path than it was given (`Stray`).

Defects seen next to what is modelled: `DwmApiCreateWindow` compares a window's type with
a state (`dwm.cpp:70`); `scanLine` knows no end of its buffer (`terminal.cpp:124`);
`mouseData` has three bytes for packets of up to four (`dwm.cpp:518`).

## Proofs

*Scheduler*, for every number of cores, every set of tasks, any clock bound and
period, from the assumptions on the constants in `Scheduler` (there is a core, the
names are distinct):

| Theorem | Property |
|---|---|
| `Invariant` | `IInv`, the inductive invariant |
| `TypeCorrect` | `TypeOK` |
| `FaultsAreExplained` | `FaultsExplained` |
| `ActiveListCorrect` | `ActiveListWellFormed` |
| `QueueCorrect` | `QueueConsistent` |
| `EndedIsCurrent` | `OnlyCurrentEnded` |
| `NoTaskLost` | `ParkedIsSuspended` |
| `CountCorrect` | `CountConsistent` |
| `TasksLeadTheirLives` | `ImplementsLife`, the refinement of `TaskLife` |

The properties are not inductive by themselves. That a fault has a cause depends on where
a task is that a call is about: `ScanCorrect` says that the search for it has not passed its
home, or has found it, unless it has been destroyed, and `TargetCorrect` that a
suspension is about the caller, which is listed and so not destroyed. `early` marks
a task for good from the first resume that finds it listed or queued; all that is claimed
of one task is kept by whatever is done to others. That only the current task has ended
depends on who can set the flag: `CallersListed` (a thread in a call is listed and
has not ended) and `LockOwners` (whoever is in a critical section owns its lock, so
the tick of that core is not in its own). `CountConsistent` needs only the shape of
the list. `NewTasksFresh` and `UnbornNowhere` say that a task under construction is
in no structure. `BootNeverEnds` keeps the boot thread out of the states of tasks.

Layout: `Scheduler_proofs` begins with what `PopFrom`, `OrIdle` and `Push` do to the set of
entries and to injectivity, and that `IInv` does not depend on anything outside `vars`; then
one lemma per action, those of the tick and those of the calls; `NextLemma` collects them by
cases of `Next`. The refinement rests on `IInv`: the actions that move a task from one stage to
another have a lemma each, which says which task it is and what stage it was in (a task resumed
is parked, or becomes "doubled", a stage that it never leaves; `NewTasksFresh` says that a task
added is new), and all others leave every stage as it is.

*Priority queue*, for any tasks, start times and initial size:

| Theorem | Property |
|---|---|
| `QueueTypeCorrect` | `PQTypeOK` |
| `NeverOutOfBounds` | `BoundsRespected` |
| `QueueOrdered` | `HeapOrdered` |
| `HeapIsAQueue` | `ImplementsQueue`, the refinement of `StartQueue` |

That parents start before their children gives that the top starts first only by
induction over the tree. The invariant `PQInv` says it for all pairs at once: no node
starts before an ancestor that is in place (`AncestorsOrdered`), and the top is an
ancestor of all (`Rooted`). Ancestors are the smallest set closed under `i \div 2`
(`Path`), so that what is needed of them follows without induction (`PathUp`).

*AVL tree*, for any number of handles and both values of `Ascending`, from `AvlAssumption`:

| Theorem | Property |
|---|---|
| `AvlInductive` | `AvlInv`, the inductive invariant |
| `TreeKeepsTasks` | `TasksKept` |
| `TreeParents` | `ParentsConsistent` |
| `TreeOrder` | `OrderKept` |
| `TreeBalancedWhileGrowing` | `BalancedWhileGrowing` |

The code keeps no set of nodes; the invariant names one, and a function `below` that
says for each node what is below it. `Shape` is local: a node's set is itself and the sets of
its children, which are disjoint, and a child's parent is the node; the root has all. That
links contain no cycle and that loops end needs no induction over the tree: the size
of `below` falls on the way down (`Subtrees`). A rotation changes two of the sets, a new leaf
those of its ancestors, a replacement renames an element (`TurnedShape`, `LeafAdded`,
`LeafRemoved`, `RenamedShape`); each lemma is stated for a "near" and a "far" side, so
that it serves both (`Mirrored`), and says beside the shape what becomes of the order. The loops
are functions of their rounds, hence invariants over numbers (`BalanceNodeTree`,
`RebalanceTree`). `RemoveTree` says of the order just what the code achieves: it is kept if the
right child of a node without a left child has no left child, and conversely (`Even`), as in a
tree that is balanced; `avl_order` shows a tree where `Successor` finds another
node (`ExtremeLemma` needs `Even`).

Balance has an invariant of its own, `GrowInv`. `BalanceNode` raises a height to the number of
nodes it has passed, which is right if the heights were, and takes the pattern of a rotation from
a search for the new key, which starts at the root if a node has no right child: that is right
when the new key is the largest, for then it is on the right. `Climbing` says so
of the walk: all nodes but the one in hand are as in an AVL tree, and the child it came from
has grown by at most one (`Pending`, with the height it had before). A round either keeps that
one node further up (`ClimbOn`) or rotates left once and restores every height
(`TurnAndStop`); the nodes passed are fewer than the nodes below, so the walk ends
(`GrowInsert`).

*Kernel heap*, for any size of the heap and of a header and any sizes asked for, from
`HeapAssumption`:

| Theorem | Property |
|---|---|
| `HeapTypeCorrect` | `HeapTypeOK` |
| `BlocksTileTheHeap` | `Tiled` |
| `ListStaysConsistent` | `ListConsistent` |
| `FreeMerges` | `Coalesced` |
| `HeapImplementsAllocator` | `ImplementsAllocator`, the refinement of `Allocator` |

The code never looks at the heap as a whole: it follows links. `IInv` says what the links
mean. `IsList`: the list starts at the lowest free block, each block links to the next higher
one and back, the highest to null, for the set of free blocks; `IsTiling`: each block
ends where another begins or at the end of the heap. `Coalesced` is a part of
it. That following the links reaches exactly that set (`ListReached`, `FreeIs`) is an
induction over the number of links. Then each case of `malloc` and `free` is a change of the set
(`ListRemove`, `ListReplace`, `ListInsert`; `TileSplit`, `TileMerge`): `FreeFacts`
says which neighbours the search of `free` finds, and there is one lemma for each case. Refinement
needs that regions of different blocks do not meet (`RegionsApart`), which is tiling.

*Memory bitmap*, for any word length, bitmap, reservation, set of callers and size of
requests:

| Theorem | Property |
|---|---|
| `SysTypeCorrect`, `BootTypeCorrect` | `SysTypeOK` |
| `GrantsAreDisjoint`, `BootGrantsDisjoint` | `GrantsDisjoint` |
| `NothingIsLost`, `BootLosesNothing` | `NoBlockLost` |
| `SearchIsComplete`, `BootSearchComplete` | `FailsOnlyWhenFull` |
| `BootUsesSysMalloc` | `BootSpec => SysSpec` |
| `BootClashExact` | `ClashExact` |

The invariant has a part that holds whatever races (a bit that is set, or that some call
is about to write back, is accounted for) and a part for the time before the first race:
one call at a time, the region it marks is free, and `SearchExact`, that `found` is
exactly the run of free blocks before the word to be read and no run so far was long
enough. The first four theorems on `BootMemory` follow from those on `SysMalloc`, because
every step of the start is a step of `SysMalloc` or leaves its variables alone.

`BootClashExact`, for any memory map of disjoint regions, as UEFI describes them, needs two
more invariants. `NoHoles`: before the first race the set bits are the first `m`, and `m` is at
most `demand`, so a block that is in use lies within the largest region; a search that hits
finds block `m` itself, because `SearchExact` leaves no run before it. `ListInv`: `sysMemList`
is the map without a prefix of its pages, all of them allocated (`ListFrom`), and either all
pages allocated lie in the regions before the largest, or one more than these have is allocated
and the bitmap's own page is among them (`FromBelow`). So the two allocators meet exactly when
the regions before the largest are used up; nothing in the code keeps that from happening, and
the model stops there (`Clash`).

*Page tables*, for any number of entries in a table and any mapped size that one table
of the second level holds (`BootAssumption`; 512 GiB on the machine, since `KeMain` maps all at
address 0): `MemoryMapsToItself` (`IdentityMapped`). `keMapMemory` goes down the levels once and at
each fills the entries that are whole; the number of pages mapped is written in the digits of
the table indices (`Digit`, `Base`). `TablesInv`: of `s` tables made below the root, the one at
level `k` has as many whole entries as digit `k` says, then the link to the next (`Table`);
tables are distinct pages; and `walk` stands at the end of the last (`WalkAt`). `EntryLemma`
and `TranslateLemma` read a translation off these tables: a page below the end differs from
it first in some digit, and there it meets a whole entry.


*Standard input*, for any size of the ring, any writers and any number of characters:
`OrderKept` (`InOrder`), `StdinTypeCorrect` and, since `TerminalUsesStdin` (`TerminalSpec =>
StdinSpec`), `TerminalOrderKept` and `TerminalTypeCorrect`. The invariant says that a
writer within `putchar` holds the lock, that the ring holds the unread characters from
`readOffset` on (`RingHolds`), and that when the reader goes to scan there is a character,
or the writer that woke it is about to store one before it lets go of the lock, unless it was lapped
(`NextChar`): this is why no zero is read although the test and the scan are two
critical sections.

*Terminal*, for any set of plain and extended keys, any finite number of cores and any number
of key events: `TerminalTypesAsMeant` (`TypedAsMeant`) and `TerminalKeepsKeys` (`KeysKept`).
`KeyInv` says what the keyboard can have to send (`WireShape`), that `dwmKeyboardState` is
right about the shift key or about to be told (`ShiftKnown`), and, as long as nothing is
hurried, that what was typed is what was stored, then the character of the one byte being
dealt with, then that of the byte to be sent (`OneAtATime`). `KeptInv` counts: the presses of a
key are on the wire, in tasks that wait, in tasks that run, or stored. Both need that no key
is named as the shift key or as 0xE0 (`TerminalAssumption`).

*Locks*, for any number of cores and any tasks: `NoCircularSpin` (`LocksOrdered`). Lemmas show
that every call and every handler acquires locks in the order of their rank and releases what
it acquired, also where calls are nested (`ConcatPlan`, `SectionPlan`, `QueryPlan`); the
invariant `LocksInv` says that this is true of what each thread has still to do, and that
whoever holds a lock has still to release it. Along a circle the ranks would have to rise for
ever. `CircularWaitsExplained` (`DeadlocksExplained`) adds the tasks that are interrupted or
preempted, without a premise about them. `SchedulerHeld`: a task that holds the lock of its own
scheduler is neither preempted nor under a timer handler, since `Tick` tests that lock. So a
task that holds a lock and does not run is `HeldUp` in one of three ways (`HeldUpLemma`). If
nobody in a circle waited for such a task, everybody waited for would run, and who runs can
only spin: those of them that run would spin in a circle, against `LocksOrdered`.

*RAM disk*, for any names, paths, contents, numbers of pointers and entries in blocks, and any
number of calls, from `RamDiskAssumption`:

| Theorem | Property |
|---|---|
| `BlocksAndInodesOwnedOnce` | `OwnedOnce` |
| `ReadsWhatTheFileHolds` | `ReadsContent` |
| `WritesStayInTheirFile` | `WriteIsolated` |
| `WritesFailWithoutDirectory` | `WriteFaults` |

The invariant has two parts. `IInv`: marked blocks are those that pointers hold, each held once
(`BlocksOK`), inodes those that entries name, each named once (`InodesOK`), and an entry's name
begins as its creator meant it (`NamesOK`). `Stored`: a directory has no holes (`Packed`,
so the first empty entry is the end), and a file has every block its size counts, written
(`Filled`). Allocation only adds pointers to free blocks (`Grown`), whatever it allocates for;
what is looked up in a disk is the same in one that has grown (`INodeOfGrown`, `ContentGrown`).
Two pointers of a file or of a directory are different places (`IndirectInjective`,
`EntryInjective`: the arithmetic of the triple indirect block, including that directories use
an index that is not reduced by the direct ones). A lookup that confuses no names walks the path
that names compared as a whole walk (`FollowsPath`), no two paths lead to one inode (`OnePath`),
and after `CreateFile` the second lookup of `WriteFile` finds what was made, or fails
again where a directory is missing (`Again`).

*Induction.* What a function computes by recursion, and what a chain of blocks reaches, is
not proved with the induction theorems of the library, which take an operator as a parameter.
Where it is needed, the set of the numbers for which the claim fails is shown to
have no least element (the order of the naturals is well-founded), and that the
recursive function exists is proved first.

*Only model-checked*: liveness (`DueTaskActivated`, `EndedTaskReaped`, `OperationsEnd` and the
rest), since fairness and ENABLED are out of the prover's reach.

## Not modelled

Of the 172,000 lines of the repository all but some 10,000 are headers of UEFI and
ACPI (`src/src/include/uefi`), which declare data and have no behaviour. Of the rest:
graphics, fonts, log and fault messages are pixels and text; the ELF loader and the parsing
of ACPI and PCI tables are data layout; programming of IDT, PIC, HPET and APIC and the
INIT and SIPI interrupts are register I/O. `keVirtAlloc` is never called, and
`kePhysFree` and `keVirtFree` are unfinished; `OccupyBlock` and `SetINodeDirectoryEntry` have no
callers. The window list gets one window, from the terminal, and no window is ever
removed or raised. The mouse handler moves the cursor. `stdout` is a ring like
`stdin` without a lock and without a reader that waits. `printf` and `scanf` are formatting.

## Plan

Done: `Scheduler` and the queue, proved, with what they refine; heap, tree and RAM disk,
proved; standard input and the terminal with their order proved; locks and interrupts with the
order of locks proved; the bitmap, the separation of the two allocators and the page
tables, proved.

Left:

1. Two processes using the RAM disk at once, when the kernel offers files to processes.
2. The window list, when windows are raised and closed.
