------------------------------- MODULE KernelLocks -------------------------------
(***************************************************************************)
(* The spin locks of the kernel (src/lib/ipc/ipc.s): heapLock, the lock of *)
(* the handle counter, the schedulerLock of each core and the lock of      *)
(* standard input.  Of each call only the locks it takes are kept, in      *)
(* their order.  Interrupts stay enabled while a lock is held, so the      *)
(* timer and keyboard handlers, which take locks too, run on top of tasks  *)
(* that hold some, and the timer handler may put another task in their     *)
(* place.  Handlers run with interrupts disabled.                          *)
(***************************************************************************)
EXTENDS Naturals, Sequences, FiniteSets

CONSTANTS
  NCores,
  Task,     \* tasks that make calls to the kernel
  CoreOf,   \* the core of each task, which never changes
  MaxBusy,  \* bound on the tasks that are within a call at a time
  Free      \* LOCK_STATUS_FREE

Core == 0 .. NCores - 1

ASSUME LocksAssumption ==
  /\ NCores \in Nat \ {0} /\ MaxBusy \in Nat /\ CoreOf \in [Task -> Core]
  /\ \A c \in Core : \E t \in Task : CoreOf[t] = c
  /\ Core \cap Task = {} /\ Free \notin Core \cup Task

\* A handler is named by its core.
Thread == Task \cup Core
Heap == <<"heapLock", 0>>
HandleCounter == <<"handleCounterLock", 0>>
StdinLock == <<"stdin", 0>>
Sched(c) == <<"schedulerLock", c>>
Lock == {Heap, HandleCounter, StdinLock} \cup {Sched(c) : c \in Core}

VARIABLES
  holder,    \* who holds each lock, or Free
  todo,      \* the acquisitions and releases that each thread has still to make
  current,   \* the task that each core runs, or has interrupted
  handler    \* the interrupt that each core handles

vars == <<holder, todo, current, handler>>

--------------------------------------------------------------------------------
(* The locks that calls take                                               *)

\* A call is the sequence of its acquisitions and releases.
Acq(l) == [op |-> "acquire", lock |-> l]
Rel(l) == [op |-> "release", lock |-> l]
Section(l, body) == <<Acq(l)>> \o body \o <<Rel(l)>>
UseHeap == Section(Heap, <<>>)

\* The scheduler of the chosen core gets the task: the task object, its handle, its
\* stack, and under the lock the node of the tree.
KeScheduleTask(c) ==
  UseHeap \o Section(HandleCounter, <<>>) \o UseHeap \o Section(Sched(c), UseHeap)

\* KeQueryTask and KeQueryScheduler: the schedulers are searched one after another, up to
\* that of core c, which knows the task.
KeQuery(c) ==
  [i \in 1 .. 2 * (c + 1) |->
     IF i % 2 = 1 THEN Acq(Sched((i - 1) \div 2)) ELSE Rel(Sched((i - 1) \div 2))]

KeSuspendTask(c) == KeQuery(c) \o Section(Sched(c), <<>>)

\* The priority queue may have to grow, which uses the heap.
MayGrow == {<<>>, UseHeap}

\* Mutant of KeResumeTask: the scheduler is looked up under its lock.
KeResumeTaskNested(c) == {Section(Sched(c), KeQuery(c) \o grow) : grow \in MayGrow}

KeResumeTask(c) == {KeQuery(c) \o Section(Sched(c), grow) : grow \in MayGrow}

\* What putchar does when it cannot find the reader: all schedulers are searched, again
\* and again.
Again == [op |-> "again", lock |-> Sched(NCores - 1)]

\* putchar to standard input: no reader waits; the reader, of core c, is found and, unless
\* it is gone by then, resumed; or it is gone before the search (Stdin.tla, also for a
\* reader that goes between the second test and the call, which ends in a fault).
putchar(c) ==
  {Section(StdinLock, body) :
     body \in {<<>>, KeQuery(c), <<Again>>} \cup {KeQuery(c) \o resume : resume \in KeResumeTask(c)}}

scanchar == Section(StdinLock, <<>>)
ReturnHandler(c) == Section(Sched(c), <<>>)

\* What a task on core c may call.
Calls(c) == {scanchar, ReturnHandler(c)}
            \cup UNION {{KeScheduleTask(d), KeSuspendTask(d)} \cup KeResumeTask(d) \cup putchar(d) : d \in Core}

\* Tick deletes or reschedules the current task, or does neither.
Tick(c) == {Section(Sched(c), body) : body \in MayGrow}

--------------------------------------------------------------------------------
Init ==
  /\ holder = [l \in Lock |-> Free]
  /\ todo = [x \in Thread |-> <<>>]
  /\ current \in {f \in [Core -> Task] : \A c \in Core : CoreOf[f[c]] = c}
  /\ handler = [c \in Core |-> "none"]

Running(x) == IF x \in Task THEN current[CoreOf[x]] = x /\ handler[CoreOf[x]] = "none"
              ELSE handler[x] # "none"

Call(t) ==
  /\ Running(t) /\ todo[t] = <<>>
  /\ Cardinality({u \in Task : todo[u] # <<>>}) < MaxBusy
  /\ \E p \in Calls(CoreOf[t]) : todo' = [todo EXCEPT ![t] = p]
  /\ UNCHANGED <<holder, current, handler>>

Pending(x) == Head(todo[x])

AcquireLock(x) ==
  /\ Running(x) /\ todo[x] # <<>> /\ Pending(x).op = "acquire"
  /\ holder[Pending(x).lock] = Free
  /\ holder' = [holder EXCEPT ![Pending(x).lock] = x]
  /\ todo' = [todo EXCEPT ![x] = Tail(@)]
  /\ UNCHANGED <<current, handler>>

ReleaseLock(x) ==
  /\ Running(x) /\ todo[x] # <<>> /\ Pending(x).op = "release"
  /\ holder' = [holder EXCEPT ![Pending(x).lock] = Free]
  /\ todo' = [todo EXCEPT ![x] = Tail(@)]
  /\ UNCHANGED <<current, handler>>

\* One more search, with the stdin lock held.
QueryAgain(x) ==
  /\ Running(x) /\ todo[x] # <<>> /\ Pending(x).op = "again"
  /\ todo' = [todo EXCEPT ![x] = KeQuery(NCores - 1) \o @]
  /\ UNCHANGED <<holder, current, handler>>

\* Mutant of Timer: Tick does not look at the lock before it takes it.
TimerUntested(c) ==
  /\ handler[c] = "none"
  /\ handler' = [handler EXCEPT ![c] = "timer"]
  /\ \E p \in Tick(c) : todo' = [todo EXCEPT ![c] = p]
  /\ UNCHANGED <<holder, current>>

\* The timer interrupt does nothing while the scheduler of its core is locked.
Timer(c) ==
  /\ handler[c] = "none" /\ holder[Sched(c)] = Free
  /\ handler' = [handler EXCEPT ![c] = "timer"]
  /\ \E p \in Tick(c) : todo' = [todo EXCEPT ![c] = p]
  /\ UNCHANGED <<holder, current>>

\* The keyboard interrupt, which core 0 gets, schedules a task.
Keyboard ==
  /\ handler[0] = "none"
  /\ handler' = [handler EXCEPT ![0] = "keyboard"]
  /\ \E c \in Core : todo' = [todo EXCEPT ![0] = KeScheduleTask(c)]
  /\ UNCHANGED <<holder, current>>

\* The handler returns, the timer's to any task of the core.
Return(c) ==
  /\ handler[c] # "none" /\ todo[c] = <<>>
  /\ handler' = [handler EXCEPT ![c] = "none"]
  /\ \E t \in Task : /\ CoreOf[t] = c
                     /\ handler[c] = "keyboard" => t = current[c]
                     /\ current' = [current EXCEPT ![c] = t]
  /\ UNCHANGED <<holder, todo>>

Next ==
  \/ \E t \in Task : Call(t)
  \/ \E x \in Thread : AcquireLock(x) \/ ReleaseLock(x) \/ QueryAgain(x)
  \/ \E c \in Core : Timer(c) \/ Return(c)
  \/ Keyboard

Spec == Init /\ [][Next]_vars

--------------------------------------------------------------------------------
\* Thread x spins on a lock that y holds.
SpinsOn(x, y) == todo[x] # <<>> /\ Pending(x).op = "acquire" /\ holder[Pending(x).lock] = y

\* Task x is not the one that its core runs, and y holds the lock without which Tick does
\* nothing.
SetAside(x, y) == x \in Task /\ current[CoreOf[x]] # x /\ holder[Sched(CoreOf[x])] = y

Interrupted(x, y) == x \in Task /\ y = CoreOf[x] /\ handler[y] # "none"

\* Thread x does not go on before y has made a step.
WaitsFor(x, y) == SpinsOn(x, y) \/ SetAside(x, y) \/ Interrupted(x, y)

\* The sets of threads that wait for one another.
Circles(Waits(_, _)) ==
  {S \in SUBSET {x \in Thread : \E y \in Thread : Waits(x, y)} :
     S # {} /\ \A x \in S : \E y \in S : Waits(x, y)}

\* The calls and handlers take locks in one order (standard input, schedulers, heap), also
\* where a call is made under a lock: threads never spin on the locks of one another in a
\* circle, on however many cores.
LocksOrdered == Circles(SpinsOn) = {}

\* Task t cannot release a lock it holds: the timer handler came over it, which tests no
\* lock but that of the scheduler; the keyboard handler did, which tests none; or its core
\* has put another task in its place, which only the lock of its scheduler prevents.
HeldUp(t) ==
  \E l \in Lock :
    /\ holder[l] = t
    /\ \/ handler[CoreOf[t]] = "timer" /\ l # Sched(CoreOf[t])
       \/ handler[CoreOf[t]] = "keyboard"
       \/ current[CoreOf[t]] # t /\ l # Sched(CoreOf[t])

\* Threads can wait for one another for ever: nothing keeps a handler from coming over a
\* task with a lock.  But only so: in every circular wait there is a task that others
\* need and that was caught, with a lock, in one of these three ways.  Neither the order
\* of the locks nor that of its own scheduler, which Tick tests, brings a core to a stop.
DeadlocksExplained ==
  \A S \in Circles(WaitsFor) : \E t \in S \cap Task : HeldUp(t) /\ \E x \in S : WaitsFor(x, t)
================================================================================
