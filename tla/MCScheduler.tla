------------------------------ MODULE MCScheduler ------------------------------
(* Small instances of Scheduler for TLC.                                   *)
EXTENDS Scheduler, TLC

\* Tick sets currentTime before it reads it, and nothing else reads it.
LiveState ==
  <<now, lock, current, active, schedule, nTasks, tick, taskVars, pc, frame, early, fault,
    [c \in Core |-> IF tick[c] = "off" THEN 0 ELSE currentTime[c]]>>

TaskSymmetry == Permutations(Task)
================================================================================
