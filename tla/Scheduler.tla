------------------------------- MODULE Scheduler -------------------------------
(***************************************************************************)
(* The per-core task scheduler of the kernel (src/kernel/scheduler.cpp)    *)
(* and the kernel API that tasks use to create, suspend and resume one     *)
(* another (src/kernel/kernel.cpp).                                        *)
(*                                                                         *)
(* Actors: the code of every task and of the boot thread, which runs while *)
(* its core executes it, and the timer interrupt of every core, which runs *)
(* Tick with interrupts off.  Shared state is protected by one spin lock   *)
(* per scheduler.  Taking a lock is a step of its own; the body of a       *)
(* critical section and the release of the lock are one step, except in    *)
(* Tick, whose loop takes one step for each task it activates.             *)
(*                                                                         *)
(* A task doubles as its own handle, because handles are never reused.     *)
(* KeResumeTask does not ask where its task is, so tasks are also resumed  *)
(* that are active or queued ("early" remembers which).  What the code     *)
(* does after it has followed a null pointer, or put a task twice into a   *)
(* structure, is not modelled: instead of such a step "fault" records its  *)
(* kind and its task, and the system stops.                                *)
(***************************************************************************)
EXTENDS Naturals, Sequences, Functions

CONSTANTS
  NCores,   \* keSysDescriptor->nCores
  Task,     \* every task the system may ever create
  Idle,     \* the idle task of any core; on core 0 it is the boot thread
  Free,     \* LOCK_STATUS_FREE
  TickIsr,  \* owner of a lock that the timer interrupt holds
  MaxTime,  \* bound on the clock
  Period    \* periodNanoSeconds of the periodic tasks

ASSUME NCoresAssumption == NCores \in Nat \ {0}
ASSUME TimeAssumption == MaxTime \in Nat /\ Period \in Nat
ASSUME NamesAssumption ==
  /\ Idle \notin Task
  /\ Free \notin Task /\ Free # Idle
  /\ TickIsr \notin Task /\ TickIsr # Idle /\ TickIsr # Free

Core == 0 .. NCores - 1
Nowhere == NCores              \* "home" of a task that is in no TaskTree
Thread == Task \cup {Idle}     \* Idle: KeMain, then the idle loop, of core 0

VARIABLES
  now,          \* HPET counter
  \* per scheduler
  lock,         \* schedulerLock, with its owner
  current,      \* currentTask
  active,       \* activeTaskList, head first
  schedule,     \* tasks in the priority queue, which serves the earliest start
  nTasks,       \* nTasks, read by KeScheduleTask without the lock
  currentTime,  \* currentTime
  tick,         \* where the timer interrupt of the core is in Tick
  \* per task
  born,         \* tasks whose constructor has run
  home,         \* scheduler whose TaskTree holds the task
  startTime, reschedule, ended, suspended,
  \* per thread
  pc,           \* where its code is
  frame,        \* locals of the kernel call it is in
  early,        \* tasks that were resumed while they were active or queued
  fault         \* None, or what went wrong with which task

coreVars == <<lock, current, active, schedule, nTasks, currentTime, tick>>
taskVars == <<born, home, startTime, reschedule, ended, suspended>>
vars == <<now, coreVars, taskVars, pc, frame, early, fault>>

Calls == {"ScheduleTask", "SuspendTask", "SuspendCurrentTask", "ResumeTask"}
NoFrame == [call |-> "none", task |-> Idle, i |-> 0, core |-> 0]
PCs == {"run", "pick", "insert", "find", "lock", "apply", "park", "return", "end", "done"}
NullFaults == {"null scheduler", "null task"}
DoubleFaults == {"queued twice", "listed twice", "dangling entry"}
None == [kind |-> "none", task |-> Idle]

--------------------------------------------------------------------------------
(* Operators of the structures                                             *)

Listed(c, t) == t \in Range(active[c])

IndexOf(s, t) == CHOOSE i \in 1 .. Len(s) : s[i] = t

\* Scheduler::PopFromActiveTaskList
PopFrom(s, t) ==
  [j \in 1 .. Len(s) - 1 |-> IF j < IndexOf(s, t) THEN s[j] ELSE s[j + 1]]

\* An empty list idles.
OrIdle(s) == IF s = <<>> THEN <<Idle>> ELSE s

\* Mutant of Push: the idle task stays on the list.
PushKeepsIdle(s, t) == <<t>> \o s

\* A new entry replaces the idle task or goes in front of the list.
Push(s, t) == IF s = <<Idle>> THEN <<t>> ELSE <<t>> \o s

\* The task that Tick makes current: the second of the list, or the only one.
Selected(s) == IF Len(s) = 1 THEN s[1] ELSE s[2]

\* Entries at the top of the min-heap when its earliest start time has come.
Due(c) ==
  {t \in schedule[c] : /\ startTime[t] <= currentTime[c]
                       /\ \A u \in schedule[c] : startTime[t] <= startTime[u]}

\* Start time that RescheduleTask gives to a task that has ended.
NextStart(c, t) ==
  IF currentTime[c] > startTime[t] + Period THEN currentTime[c] ELSE startTime[t] + Period

\* In a TaskTree, but neither on the active list nor in the queue.
Parked(t) ==
  /\ home[t] # Nowhere
  /\ t \notin schedule[home[t]]
  /\ ~Listed(home[t], t)

--------------------------------------------------------------------------------
Init ==
  /\ now = 0
  /\ lock = [c \in Core |-> Free]
  /\ current = [c \in Core |-> Idle]
  /\ active = [c \in Core |-> <<Idle>>]
  /\ schedule = [c \in Core |-> {}]
  /\ nTasks = [c \in Core |-> 1]
  /\ currentTime = [c \in Core |-> 0]
  /\ tick = [c \in Core |-> "off"]
  /\ born = {}
  /\ home = [t \in Task |-> Nowhere]
  /\ startTime = [t \in Task |-> 0]
  /\ reschedule = [t \in Task |-> FALSE]
  /\ ended = [t \in Task |-> FALSE]
  /\ suspended = [t \in Task |-> FALSE]
  /\ pc = [th \in Thread |-> "run"]
  /\ frame = [th \in Thread |-> NoFrame]
  /\ early = {} /\ fault = None

\* Core c executes the code of th, and no interrupt has taken it away.
Runs(c, th) ==
  /\ fault = None
  /\ tick[c] = "off"
  /\ current[c] = th
  /\ th = Idle => c = 0

Acquire(c, owner) == lock[c] = Free /\ lock' = [lock EXCEPT ![c] = owner]
Release(c) == lock' = [lock EXCEPT ![c] = Free]

\* The clock advances.
Advance ==
  /\ fault = None
  /\ now < MaxTime
  /\ now' = now + 1
  /\ UNCHANGED <<coreVars, taskVars, pc, frame, early, fault>>

--------------------------------------------------------------------------------
(* Scheduler::Tick                                                         *)

\* The interrupt gives up when it sees the lock taken.
TickSkip(c) ==
  /\ fault = None
  /\ tick[c] = "off"
  /\ lock[c] # Free
  /\ currentTime' = [currentTime EXCEPT ![c] = now]
  /\ UNCHANGED <<now, lock, current, active, schedule, nTasks, tick, taskVars, pc, frame, early, fault>>

\* It saw the lock free and goes on to take it.
TickStart(c) ==
  /\ fault = None
  /\ tick[c] = "off"
  /\ lock[c] = Free
  /\ currentTime' = [currentTime EXCEPT ![c] = now]
  /\ tick' = [tick EXCEPT ![c] = "spin"]
  /\ UNCHANGED <<now, lock, current, active, schedule, nTasks, taskVars, pc, frame, early, fault>>

\* It gets the lock, and the current task goes on.
TickKeep(c) ==
  /\ fault = None
  /\ tick[c] = "spin"
  /\ Acquire(c, TickIsr)
  /\ current[c] # Idle => ~ended[current[c]]
  /\ tick' = [tick EXCEPT ![c] = "deque"]
  /\ UNCHANGED <<now, current, active, schedule, nTasks, currentTime, taskVars, pc, frame, early, fault>>

\* The current task t of core c has ended, and the interrupt gets the lock.
Reaps(c, t) ==
  /\ fault = None
  /\ tick[c] = "spin" /\ lock[c] = Free
  /\ t = current[c] /\ t # Idle /\ ended[t]

\* Mutant of TickPop: nTasks is not decremented.
TickPopUncounted(c, t) ==
  /\ Reaps(c, t)
  /\ Acquire(c, TickIsr)
  /\ active' = [active EXCEPT ![c] = OrIdle(PopFrom(active[c], t))]
  /\ tick' = [tick EXCEPT ![c] = "deque"]
  /\ UNCHANGED <<now, current, nTasks, currentTime, born, suspended, frame, early, fault>>

\* What the three cases of an ended current task t have in common.
TickPop(c, t) ==
  /\ Reaps(c, t)
  /\ Acquire(c, TickIsr)
  /\ active' = [active EXCEPT ![c] = OrIdle(PopFrom(active[c], t))]
  /\ nTasks' = [nTasks EXCEPT ![c] = nTasks[c] - 1]
  /\ tick' = [tick EXCEPT ![c] = "deque"]
  /\ UNCHANGED <<now, current, currentTime, born, suspended, frame, early, fault>>

\* Mutant of TickReschedule: the flag "ended" is not reset.
TickRescheduleEnded(c, t) ==
  /\ TickPop(c, t)
  /\ reschedule[t] /\ t \notin schedule[c]
  /\ startTime' = [startTime EXCEPT ![t] = NextStart(c, t)]
  /\ schedule' = [schedule EXCEPT ![c] = schedule[c] \cup {t}]
  /\ pc' = [pc EXCEPT ![t] = "run"]
  /\ UNCHANGED <<home, reschedule, ended>>

\* A periodic task starts again from its entry point in its next period.
TickReschedule(c, t) ==
  /\ TickPop(c, t)
  /\ reschedule[t] /\ t \notin schedule[c]
  /\ startTime' = [startTime EXCEPT ![t] = NextStart(c, t)]
  /\ ended' = [ended EXCEPT ![t] = FALSE]
  /\ schedule' = [schedule EXCEPT ![c] = schedule[c] \cup {t}]
  /\ pc' = [pc EXCEPT ![t] = "run"]
  /\ UNCHANGED <<home, reschedule>>

\* A suspended task stays in TaskTree.
TickPark(c, t) ==
  /\ TickPop(c, t)
  /\ ~reschedule[t] /\ suspended[t]
  /\ UNCHANGED <<schedule, home, startTime, reschedule, ended, pc>>

\* Mutant of TickDelete: the task is left in TaskTree.
TickDeleteKeepsNode(c, t) ==
  /\ TickPop(c, t)
  /\ ~reschedule[t] /\ ~suspended[t]
  /\ UNCHANGED <<schedule, home, startTime, reschedule, ended, pc>>

\* A finished task is destroyed.
TickDelete(c, t) ==
  /\ TickPop(c, t)
  /\ ~reschedule[t] /\ ~suspended[t] /\ t \notin schedule[c]
  /\ home' = [home EXCEPT ![t] = Nowhere]
  /\ UNCHANGED <<schedule, startTime, reschedule, ended, pc>>

\* Mutant of TickDeque: nTasks is not incremented.
TickDequeUncounted(c, t) ==
  /\ fault = None
  /\ tick[c] = "deque"
  /\ t \in Due(c) /\ ~Listed(c, t)
  /\ schedule' = [schedule EXCEPT ![c] = schedule[c] \ {t}]
  /\ active' = [active EXCEPT ![c] = Push(active[c], t)]
  /\ UNCHANGED <<now, lock, current, nTasks, currentTime, tick, taskVars, pc, frame, early, fault>>

\* The earliest queued task starts.
TickDeque(c, t) ==
  /\ fault = None
  /\ tick[c] = "deque"
  /\ t \in Due(c) /\ ~Listed(c, t)
  /\ nTasks' = [nTasks EXCEPT ![c] = nTasks[c] + 1]
  /\ schedule' = [schedule EXCEPT ![c] = schedule[c] \ {t}]
  /\ active' = [active EXCEPT ![c] = Push(active[c], t)]
  /\ UNCHANGED <<now, lock, current, currentTime, tick, taskVars, pc, frame, early, fault>>

\* No other task is due: the next task is selected and the lock released.
TickSelect(c) ==
  /\ fault = None
  /\ tick[c] = "deque"
  /\ Due(c) = {}
  /\ current' = [current EXCEPT ![c] = Selected(active[c])]
  /\ Release(c)
  /\ tick' = [tick EXCEPT ![c] = "off"]
  /\ UNCHANGED <<now, active, schedule, nTasks, currentTime, taskVars, pc, frame, early, fault>>

\* A step that would follow a null pointer or put task t into a structure twice.
Fails(kind, t) ==
  /\ fault' = [kind |-> kind, task |-> t]
  /\ UNCHANGED <<now, coreVars, taskVars, pc, frame>>

\* AddTask of a task that is in the queue already.
TickRequeue(c, t) ==
  /\ Reaps(c, t) /\ reschedule[t] /\ t \in schedule[c]
  /\ Fails("queued twice", t)
  /\ UNCHANGED early

\* The task is destroyed, and its entry stays in the queue.
TickDangle(c, t) ==
  /\ Reaps(c, t) /\ ~reschedule[t] /\ ~suspended[t] /\ t \in schedule[c]
  /\ Fails("dangling entry", t)
  /\ UNCHANGED early

\* A task that is on the active list becomes its first element once more: from then on
\* the list has a cycle, or has lost its rest.
TickRelist(c, t) ==
  /\ fault = None
  /\ tick[c] = "deque"
  /\ t \in Due(c) /\ Listed(c, t)
  /\ Fails("listed twice", t)
  /\ UNCHANGED early

Tick(c) ==
  \/ TickStart(c) \/ TickKeep(c) \/ TickSelect(c)
  \/ \E t \in Task : \/ TickReschedule(c, t) \/ TickPark(c, t)
                     \/ TickDelete(c, t) \/ TickDeque(c, t)
                     \/ TickRequeue(c, t) \/ TickDangle(c, t) \/ TickRelist(c, t)

--------------------------------------------------------------------------------
(* KeScheduleTask                                                          *)

\* new Task(...): a start time from the caller, which may lie in the past.
NewTask(c, th, t) ==
  /\ Runs(c, th)
  /\ pc[th] = "run"
  /\ t \notin born
  /\ born' = born \cup {t}
  /\ \E s \in 0 .. MaxTime : startTime' = [startTime EXCEPT ![t] = s]
  /\ \E r \in BOOLEAN : reschedule' = [reschedule EXCEPT ![t] = r]
  /\ pc' = [pc EXCEPT ![th] = "pick"]
  /\ frame' = [frame EXCEPT ![th] = [call |-> "ScheduleTask", task |-> t, i |-> 1, core |-> 0]]
  /\ UNCHANGED <<now, coreVars, home, ended, suspended, early, fault>>

\* One comparison of the search for the least loaded scheduler, lock not held.
PickScheduler(c, th) ==
  /\ Runs(c, th)
  /\ pc[th] = "pick"
  /\ frame[th].i < NCores
  /\ LET i == frame[th].i
         best == IF nTasks[frame[th].core] > nTasks[i] THEN i ELSE frame[th].core
     IN frame' = [frame EXCEPT ![th].i = i + 1, ![th].core = best]
  /\ UNCHANGED <<now, coreVars, taskVars, pc, early, fault>>

LockToInsert(c, th) ==
  /\ Runs(c, th)
  /\ pc[th] = "pick"
  /\ frame[th].i >= NCores
  /\ Acquire(frame[th].core, th)
  /\ pc' = [pc EXCEPT ![th] = "insert"]
  /\ UNCHANGED <<now, current, active, schedule, nTasks, currentTime, tick, taskVars, frame, early, fault>>

\* Mutant of InsertTask: the lock is not released.
InsertTaskKeepsLock(c, th) ==
  /\ Runs(c, th)
  /\ pc[th] = "insert"
  /\ LET t == frame[th].task
         k == frame[th].core
     IN /\ home' = [home EXCEPT ![t] = k]
        /\ schedule' = [schedule EXCEPT ![k] = schedule[k] \cup {t}]
  /\ pc' = [pc EXCEPT ![th] = "run"]
  /\ frame' = [frame EXCEPT ![th] = NoFrame]
  /\ UNCHANGED <<now, lock, current, active, nTasks, currentTime, tick,
                 born, startTime, reschedule, ended, suspended, early, fault>>

\* Mutant of InsertTask: AddTask is not called.
InsertTaskUnqueued(c, th) ==
  /\ Runs(c, th)
  /\ pc[th] = "insert"
  /\ home' = [home EXCEPT ![frame[th].task] = frame[th].core]
  /\ Release(frame[th].core)
  /\ pc' = [pc EXCEPT ![th] = "run"]
  /\ frame' = [frame EXCEPT ![th] = NoFrame]
  /\ UNCHANGED <<now, current, active, schedule, nTasks, currentTime, tick,
                 born, startTime, reschedule, ended, suspended, early, fault>>

\* TaskTree.Insert and AddTask.
InsertTask(c, th) ==
  /\ Runs(c, th)
  /\ pc[th] = "insert"
  /\ LET t == frame[th].task
         k == frame[th].core
     IN /\ home' = [home EXCEPT ![t] = k]
        /\ schedule' = [schedule EXCEPT ![k] = schedule[k] \cup {t}]
        /\ Release(k)
  /\ pc' = [pc EXCEPT ![th] = "run"]
  /\ frame' = [frame EXCEPT ![th] = NoFrame]
  /\ UNCHANGED <<now, current, active, nTasks, currentTime, tick,
                 born, startTime, reschedule, ended, suspended, early, fault>>

--------------------------------------------------------------------------------
(* KeSuspendTask, KeSuspendCurrentTask, KeResumeTask                       *)

\* Mutant of Enter: the search leaves out scheduler 0, as KeScheduleTask's does.
EnterFromOne(c, th, call, t) ==
  /\ Runs(c, th)
  /\ pc[th] = "run"
  /\ pc' = [pc EXCEPT ![th] = "find"]
  /\ frame' = [frame EXCEPT ![th] = [call |-> call, task |-> t, i |-> 1, core |-> 0]]
  /\ UNCHANGED <<now, coreVars, taskVars, early, fault>>

\* A call about t, which may have gone by now.
Enter(c, th, call, t) ==
  /\ Runs(c, th)
  /\ pc[th] = "run"
  /\ pc' = [pc EXCEPT ![th] = "find"]
  /\ frame' = [frame EXCEPT ![th] = [call |-> call, task |-> t, i |-> 0, core |-> 0]]
  /\ UNCHANGED <<now, coreVars, taskVars, early, fault>>

SuspendTask(c, th, t) == Enter(c, th, "SuspendTask", t)
SuspendCurrentTask(c, th) == th # Idle /\ Enter(c, th, "SuspendCurrentTask", th)
ResumeTask(c, th, t) == Enter(c, th, "ResumeTask", t)

\* One iteration of KeQueryScheduler.  It only reads under the lock, so it
\* takes the lock and releases it in one step.  KeSuspendCurrentTask makes the
\* same search once more beforehand (KeQueryTask), which is left out.
FindScheduler(c, th) ==
  /\ Runs(c, th)
  /\ pc[th] = "find"
  /\ lock[frame[th].i] = Free
  /\ LET i == frame[th].i
         found == home[frame[th].task] = i
     IN /\ found \/ i + 1 < NCores
        /\ pc' = [pc EXCEPT ![th] = IF found THEN "lock" ELSE @]
        /\ frame' = [frame EXCEPT ![th].i = IF found THEN i ELSE i + 1,
                                 ![th].core = IF found THEN i ELSE @]
  /\ UNCHANGED <<now, coreVars, taskVars, early, fault>>

\* No scheduler has the task; the callers lock the one they have not got.
FindNothing(c, th) ==
  /\ Runs(c, th)
  /\ pc[th] = "find"
  /\ LET i == frame[th].i
     IN lock[i] = Free /\ home[frame[th].task] # i /\ i + 1 = NCores
  /\ Fails("null scheduler", frame[th].task)
  /\ UNCHANGED early

LockToApply(c, th) ==
  /\ Runs(c, th)
  /\ pc[th] = "lock"
  /\ Acquire(frame[th].core, th)
  /\ pc' = [pc EXCEPT ![th] = "apply"]
  /\ UNCHANGED <<now, current, active, schedule, nTasks, currentTime, tick, taskVars, frame, early, fault>>

\* The task has left the tree since the search found it there.
ApplyToNothing(c, th) ==
  /\ Runs(c, th)
  /\ pc[th] = "apply"
  /\ home[frame[th].task] # frame[th].core
  /\ Fails("null task", frame[th].task)
  /\ UNCHANGED early

\* The critical section of KeSuspendTask, and what its two callers do next.
ApplySuspend(c, th) ==
  /\ Runs(c, th)
  /\ pc[th] = "apply"
  /\ frame[th].call \in {"SuspendTask", "SuspendCurrentTask"}
  /\ LET t == frame[th].task
         k == frame[th].core
     IN /\ home[t] = k
        /\ ended' = [ended EXCEPT ![t] = TRUE]
        /\ suspended' = [suspended EXCEPT ![t] = TRUE]
        /\ Release(k)
  /\ pc' = [pc EXCEPT ![th] = IF frame[th].call = "SuspendTask" THEN "run" ELSE "park"]
  /\ frame' = [frame EXCEPT ![th] = NoFrame]
  /\ UNCHANGED <<now, current, active, schedule, nTasks, currentTime, tick,
                 born, home, startTime, reschedule, early, fault>>

\* Mutant of ApplyResume: the flag "ended" is not reset.
ApplyResumeEnded(c, th) ==
  /\ Runs(c, th)
  /\ pc[th] = "apply"
  /\ frame[th].call = "ResumeTask"
  /\ LET t == frame[th].task
         k == frame[th].core
     IN /\ home[t] = k /\ t \notin schedule[k]
        /\ suspended' = [suspended EXCEPT ![t] = FALSE]
        /\ startTime' = [startTime EXCEPT ![t] = 0]
        /\ schedule' = [schedule EXCEPT ![k] = schedule[k] \cup {t}]
        /\ early' = IF Listed(k, t) THEN early \cup {t} ELSE early
        /\ Release(k)
  /\ pc' = [pc EXCEPT ![th] = "run"]
  /\ frame' = [frame EXCEPT ![th] = NoFrame]
  /\ UNCHANGED <<now, current, active, nTasks, currentTime, tick, born, home, reschedule, ended, fault>>

\* The critical section of KeResumeTask, which does not ask whether the task is active.
\* putchar, its only caller, passes 0 as the time to resume at.
ApplyResume(c, th) ==
  /\ Runs(c, th)
  /\ pc[th] = "apply"
  /\ frame[th].call = "ResumeTask"
  /\ LET t == frame[th].task
         k == frame[th].core
     IN /\ home[t] = k /\ t \notin schedule[k]
        /\ ended' = [ended EXCEPT ![t] = FALSE]
        /\ suspended' = [suspended EXCEPT ![t] = FALSE]
        /\ startTime' = [startTime EXCEPT ![t] = 0]
        /\ schedule' = [schedule EXCEPT ![k] = schedule[k] \cup {t}]
        /\ early' = IF Listed(k, t) THEN early \cup {t} ELSE early
        /\ Release(k)
  /\ pc' = [pc EXCEPT ![th] = "run"]
  /\ frame' = [frame EXCEPT ![th] = NoFrame]
  /\ UNCHANGED <<now, current, active, nTasks, currentTime, tick, born, home, reschedule, fault>>

\* AddTask of a task that is in the queue already: it was not suspended, or it was
\* resumed twice.
ResumeQueued(c, th) ==
  /\ Runs(c, th)
  /\ pc[th] = "apply"
  /\ frame[th].call = "ResumeTask"
  /\ LET t == frame[th].task
     IN /\ home[t] = frame[th].core /\ t \in schedule[frame[th].core]
        /\ Fails("queued twice", t)
        /\ early' = early \cup {t}

\* The loop of KeSuspendCurrentTask ends when the task has been resumed.
Resumed(c, th) ==
  /\ Runs(c, th)
  /\ pc[th] = "park"
  /\ ~ended[th]
  /\ pc' = [pc EXCEPT ![th] = "run"]
  /\ UNCHANGED <<now, coreVars, taskVars, frame, early, fault>>

--------------------------------------------------------------------------------
(* ReturnHandler, entered when the entry point of a task returns           *)

Return(c, th) ==
  /\ Runs(c, th)
  /\ th # Idle
  /\ pc[th] = "run"
  /\ pc' = [pc EXCEPT ![th] = "return"]
  /\ UNCHANGED <<now, coreVars, taskVars, frame, early, fault>>

LockToEnd(c, th) ==
  /\ Runs(c, th)
  /\ pc[th] = "return"
  /\ Acquire(c, th)
  /\ pc' = [pc EXCEPT ![th] = "end"]
  /\ UNCHANGED <<now, current, active, schedule, nTasks, currentTime, tick, taskVars, frame, early, fault>>

\* Mutant of EndTask: the lock is not released.
EndTaskKeepsLock(c, th) ==
  /\ Runs(c, th)
  /\ pc[th] = "end"
  /\ ended' = [ended EXCEPT ![th] = TRUE]
  /\ pc' = [pc EXCEPT ![th] = "done"]
  /\ UNCHANGED <<now, coreVars, born, home, startTime, reschedule, suspended, frame, early, fault>>

\* After this step the handler only raises the timer interrupt for ever.
EndTask(c, th) ==
  /\ Runs(c, th)
  /\ pc[th] = "end"
  /\ ended' = [ended EXCEPT ![th] = TRUE]
  /\ Release(c)
  /\ pc' = [pc EXCEPT ![th] = "done"]
  /\ UNCHANGED <<now, current, active, schedule, nTasks, currentTime, tick,
                 born, home, startTime, reschedule, suspended, frame, early, fault>>

--------------------------------------------------------------------------------
(* Steps of the kernel, and the calls that the repository makes            *)

\* The steps a kernel call takes once it has been entered.
KernelStep(c, th) ==
  \/ PickScheduler(c, th) \/ LockToInsert(c, th) \/ InsertTask(c, th)
  \/ FindScheduler(c, th) \/ FindNothing(c, th)
  \/ LockToApply(c, th) \/ ApplyToNothing(c, th)
  \/ ApplySuspend(c, th) \/ ApplyResume(c, th) \/ ResumeQueued(c, th)
  \/ Resumed(c, th) \/ LockToEnd(c, th) \/ EndTask(c, th)

\* What happens after a fault is not modelled.
Halt == fault # None /\ UNCHANGED vars

Common ==
  \/ Advance \/ Halt
  \/ \E c \in Core : TickSkip(c) \/ Tick(c)
  \/ \E c \in Core, th \in Thread : KernelStep(c, th) \/ Return(c, th)

Creating(th) == pc[th] \in {"pick", "insert"}

\* KeScheduleTask has returned the handle of t, which is all that a resume needs.
Known(t) == t \in born /\ \A th \in Thread : Creating(th) => frame[th].task # t

\* Tasks suspend only themselves, and one that has done so with KeSuspendTask only
\* returns (main of the window manager).  Any task resumes any task at any time, as
\* putchar does in the keyboard tasks: it looks only at the handle.
Call ==
  \E c \in Core, th \in Thread :
    /\ th # Idle => ~ended[th]
    /\ \/ SuspendCurrentTask(c, th)
       \/ th # Idle /\ SuspendTask(c, th, th)
       \/ \E t \in Task :
            NewTask(c, th, t) \/ (th # Idle /\ Known(t) /\ ResumeTask(c, th, t))

Next == Common \/ Call

Spec == Init /\ [][Next]_vars

\* The timer fires for ever; nothing says that it finds the lock free unless the lock
\* stays free.  Code that holds a lock goes on when its core runs it again and again.
LeaveLock(th) == \E c \in Core :
  \/ InsertTask(c, th) \/ ApplySuspend(c, th) \/ ApplyResume(c, th) \/ EndTask(c, th)
  \/ ApplyToNothing(c, th) \/ ResumeQueued(c, th)

Fairness ==
  /\ \A c \in Core : WF_vars(Tick(c))
  /\ \A th \in Thread : SF_vars(LeaveLock(th))

FairSpec == Spec /\ Fairness

\* More than the code guarantees: ticks find the lock free again and again, and so does
\* whoever spins on it.
EagerSpec ==
  /\ Spec
  /\ \A c \in Core : SF_vars(Tick(c))
  /\ \A c \in Core, th \in Thread : SF_vars(KernelStep(c, th))

--------------------------------------------------------------------------------
(* Safety                                                                  *)

CoreTypeOK ==
  /\ now \in 0 .. MaxTime
  /\ lock \in [Core -> Thread \cup {Free, TickIsr}]
  /\ current \in [Core -> Thread]
  /\ active \in [Core -> Seq(Thread)]
  /\ schedule \in [Core -> SUBSET Task]
  /\ nTasks \in [Core -> Nat]
  /\ currentTime \in [Core -> Nat]
  /\ tick \in [Core -> {"off", "spin", "deque"}]

TaskTypeOK ==
  /\ born \in SUBSET Task
  /\ home \in [Task -> 0 .. NCores]
  /\ startTime \in [Task -> Nat]
  /\ reschedule \in [Task -> BOOLEAN]
  /\ ended \in [Task -> BOOLEAN]
  /\ suspended \in [Task -> BOOLEAN]

ThreadTypeOK ==
  /\ pc \in [Thread -> PCs]
  /\ frame \in [Thread -> [call : Calls \cup {"none"}, task : Thread, i : 0 .. NCores, core : Core]]
  /\ early \in SUBSET Task
  /\ fault \in [kind : {"none"} \cup NullFaults \cup DoubleFaults, task : Thread]

\* The variables keep their types.
TypeOK == CoreTypeOK /\ TaskTypeOK /\ ThreadTypeOK

\* What can go wrong and why.  No suspension follows a null pointer (kernel.cpp:639 and
\* 646), although the scheduler is looked up and then locked again; a resume does so only
\* if its task has been destroyed.  No task is queued twice, listed twice or destroyed
\* while it is queued unless it was itself resumed while it was active or queued
\* (kernel.cpp:698), whatever happens to the other tasks.
FaultsExplained ==
  /\ fault.kind \in NullFaults =>
       fault.task \in Task /\ Known(fault.task) /\ home[fault.task] = Nowhere
  /\ fault.kind \in DoubleFaults => fault.task \in early

\* The active list has no task twice, only tasks of this scheduler, and the
\* idle task exactly when there is no other (Scheduler::Tick, lines 150 and 182).
ActiveListWellFormed ==
  \A c \in Core :
    /\ active[c] # <<>>
    /\ IsInjective(active[c])
    /\ \A t \in Range(active[c]) :
         IF t = Idle THEN active[c] = <<Idle>> ELSE home[t] = c

\* A queued task belongs to the scheduler whose queue it is in.  It has not ended and is
\* not on the active list as well, so that its activation lists it once, unless this
\* task was resumed too early.
QueueConsistent ==
  \A c \in Core : \A t \in schedule[c] :
    /\ home[t] = c
    /\ t \notin early => ~ended[t] /\ ~Listed(c, t)

\* nTasks, by which KeScheduleTask compares loads, is one more than the number
\* of active tasks.
CountConsistent ==
  \A c \in Core : nTasks[c] = IF active[c] = <<Idle>> THEN 1 ELSE 1 + Len(active[c])

\* Outside the window in which Tick has reaped and not yet selected, the task a
\* core executes is on the active list of that core.
CurrentListed ==
  \A c \in Core : tick[c] # "deque" => Listed(c, current[c])

\* Tick reaps only the current task.  That is enough: an active task that has
\* ended is always the current one.  (One that was resumed too early may be taken from
\* the queue with its flag still set.)
OnlyCurrentEnded ==
  \A c \in Core, t \in Task \ early :
    Listed(c, t) /\ ended[t] => current[c] = t /\ tick[c] # "deque"

\* A task that exists but is neither queued nor active has been suspended, so
\* nothing but a resume is needed for it to run again: no task gets lost.
ParkedIsSuspended ==
  \A t \in Task : Parked(t) => ended[t] /\ suspended[t]

--------------------------------------------------------------------------------
(* The abstract specification: the stage of life a task is in              *)

Stage(t) ==
  CASE t \in early -> "doubled"
    [] t \notin early /\ t \notin born -> "unborn"
    [] t \notin early /\ t \in born /\ home[t] = Nowhere ->
         IF \E th \in Thread : Creating(th) /\ frame[th].task = t THEN "new" ELSE "gone"
    [] t \notin early /\ t \in born /\ home[t] # Nowhere ->
         CASE t \in schedule[home[t]] -> "waiting"
           [] t \notin schedule[home[t]] /\ Listed(home[t], t) -> "active"
           [] OTHER -> "parked"

Life == INSTANCE TaskLife WITH life <- [t \in Task |-> Stage(t)]

\* Every step of the schedulers moves at most one task, along one edge of its
\* life: no wakeup of a task that is gone, no activation that skips the queue, and a task
\* is doubled only by a resume that finds it active or waiting.
ImplementsLife == Life!LifeSpec

--------------------------------------------------------------------------------
(* A claim of a comment                                                    *)

\* Scheduler::Tick, scheduler.cpp:192: at the end of the list "go back to
\* beginning of the list".  Then every task that stays active runs again.
EveryActiveTaskRuns ==
  \A c \in Core, t \in Task :
    Listed(c, t) ~> (current[c] = t \/ ~Listed(c, t) \/ fault # None)

--------------------------------------------------------------------------------
(* Progress                                                                *)

\* The lock of scheduler c is held by a task that its own core has set aside: a tick looks
\* at no lock but that of its own scheduler (scheduler.cpp:134).
HolderSetAside(c) == \E t \in Task : lock[c] = t /\ \A d \in Core : current[d] # t

\* A holder is set aside and never runs again.
Stuck == \E c \in Core : <>[]HolderSetAside(c)

\* A queued task whose start time has come is activated, although Tick gives up whenever
\* the lock is taken, also by tasks of other cores: Stuck is the only exception.
Activated(t) ==
  (\E c \in Core : t \in schedule[c] /\ startTime[t] <= now)
    ~> (fault # None \/ \A c \in Core : t \notin schedule[c])

\* In the same way, a task that has ended while it ran leaves the active list, unless it
\* was resumed too early.
Reaped(t) ==
  (\E c \in Core : current[c] = t /\ ended[t])
    ~> (fault # None \/ t \in early \/ \A c \in Core : ~Listed(c, t))

--------------------------------------------------------------------------------
(* The inductive invariant: the above, and what is true of calls under way *)

Calling(th) == pc[th] \in {"find", "lock", "apply"}
InCall(th) == Creating(th) \/ Calling(th)
Resuming(th) == Calling(th) /\ frame[th].call = "ResumeTask"

Holds(th, c) ==
  \/ pc[th] \in {"insert", "apply"} /\ frame[th].core = c
  \/ pc[th] = "end" /\ th # Idle /\ home[th] = c

\* A lock has the owner whose code is in the critical section.
LockOwners ==
  \A c \in Core :
    /\ \A th \in Thread : lock[c] = th <=> Holds(th, c)
    /\ lock[c] = TickIsr <=> tick[c] = "deque"

\* A task in a kernel call, or about to mark its end, is on its active list.
CallersListed ==
  \A t \in Task :
    /\ InCall(t) => home[t] # Nowhere /\ Listed(home[t], t) /\ ~ended[t]
    /\ pc[t] = "end" => home[t] # Nowhere /\ Listed(home[t], t)

\* The boot thread never ends.
BootNeverEnds == pc[Idle] \notin {"park", "return", "end", "done"}

\* What the locals of a thread are outside and inside of a call.
FramesShape ==
  \A th \in Thread :
    /\ ~InCall(th) => frame[th] = NoFrame
    /\ Creating(th) => frame[th].call = "ScheduleTask" /\ frame[th].task \in Task
    /\ Calling(th) => /\ frame[th].call \in Calls \ {"ScheduleTask"}
                      /\ frame[th].task \in Task

\* A task under construction is in no structure yet.
NewTasksFresh ==
  \A th \in Thread : Creating(th) =>
    /\ frame[th].task \in born \ early
    /\ home[frame[th].task] = Nowhere
    /\ ~ended[frame[th].task]

\* The scan for the scheduler of the target has not passed it, or has found it, unless
\* the target has been destroyed.
ScanCorrect ==
  \A th \in Thread : Calling(th) =>
    /\ Known(frame[th].task)
    /\ IF pc[th] = "find" THEN frame[th].i \in Core /\ frame[th].i <= home[frame[th].task]
                          ELSE home[frame[th].task] \in {frame[th].core, Nowhere}

\* A suspension is about the caller.
TargetCorrect == \A th \in Thread : Calling(th) /\ ~Resuming(th) => frame[th].task = th

\* Two calls create different tasks.
FramesDistinct ==
  \A th1, th2 \in Thread :
    Creating(th1) /\ Creating(th2) /\ frame[th1].task = frame[th2].task => th1 = th2

\* A task that has not been constructed is in no TaskTree.
UnbornNowhere == \A t \in Task : t \notin born => home[t] = Nowhere /\ ~ended[t] /\ t \notin early

IInv ==
  /\ CoreTypeOK /\ TaskTypeOK /\ ThreadTypeOK /\ FaultsExplained
  /\ ActiveListWellFormed /\ QueueConsistent /\ CountConsistent
  /\ CurrentListed /\ OnlyCurrentEnded /\ ParkedIsSuspended
  /\ LockOwners /\ CallersListed /\ BootNeverEnds
  /\ FramesShape /\ NewTasksFresh /\ ScanCorrect /\ TargetCorrect /\ FramesDistinct
  /\ UnbornNowhere
================================================================================
