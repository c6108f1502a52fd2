--------------------------------- MODULE MCLive ---------------------------------
(* A small instance of Scheduler for the progress of one task.             *)
EXTENDS Scheduler

CONSTANTS
  Runner,   \* the task that runs on core 0
  Watched   \* a task that waits on core 1

\* The tasks but Watched are on core 0.  Runner runs there, has just resumed the others, which
\* were suspended, and has created Watched, which the search put on core 1.
LiveInit ==
  /\ now = 0
  /\ lock = [c \in Core |-> Free]
  /\ current = [c \in Core |-> IF c = 0 THEN Runner ELSE Idle]
  /\ active = [c \in Core |-> IF c = 0 THEN <<Runner>> ELSE <<Idle>>]
  /\ schedule = [c \in Core |-> IF c = 0 THEN Task \ {Runner, Watched} ELSE {Watched}]
  /\ nTasks = [c \in Core |-> IF c = 0 THEN 2 ELSE 1]
  /\ currentTime = [c \in Core |-> 0]
  /\ tick = [c \in Core |-> "off"]
  /\ born = Task
  /\ home = [t \in Task |-> IF t = Watched THEN 1 ELSE 0]
  /\ startTime = [t \in Task |-> 0]
  /\ reschedule = [t \in Task |-> FALSE]
  /\ ended = [t \in Task |-> FALSE]
  /\ suspended = [t \in Task |-> FALSE]
  /\ pc = [th \in Thread |-> "run"]
  /\ frame = [th \in Thread |-> NoFrame]
  /\ early = {} /\ fault = None

\* The tasks suspend themselves and resume Watched.
LiveCall ==
  \E c \in Core, th \in Task :
    ~ended[th] /\ (SuspendCurrentTask(c, th) \/ ResumeTask(c, th, Watched))

LiveSpec == LiveInit /\ [][Common \/ LiveCall]_vars /\ Fairness

\* Watched is activated when its time has come, although Tick gives up whenever the lock of
\* its core is taken, also by tasks of core 0 (scheduler.cpp:134), unless a holder is set
\* aside for ever.
DueTaskActivated == Stuck \/ Activated(Watched)

\* When Watched has ended, Tick reaps it under the same conditions.
EndedTaskReaped == Stuck \/ Reaped(Watched)
================================================================================
