------------------------------- MODULE StartQueue -------------------------------
(***************************************************************************)
(* What the priority queue of a scheduler promises: a set of tasks with    *)
(* start times, from which a task that starts earliest is taken.  This is  *)
(* how Scheduler.tla sees the queue (operator Due).                        *)
(***************************************************************************)
EXTENDS Naturals
CONSTANTS Task, NoTask, startTime
VARIABLES members, taken   \* taken: the last task that was taken

QueueInit == members = {} /\ taken = NoTask

Put(t) ==
  /\ t \notin members
  /\ members' = members \cup {t}
  /\ UNCHANGED taken

Take(t) ==
  /\ t \in members
  /\ \A u \in members : startTime[t] <= startTime[u]
  /\ members' = members \ {t}
  /\ taken' = t

QueueNext == \E t \in Task : Put(t) \/ Take(t)

QueueSpec == QueueInit /\ [][QueueNext]_<<members, taken>>
================================================================================
