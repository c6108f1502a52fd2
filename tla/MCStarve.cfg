\* One core, two tasks: the rotation over the active list.
SPECIFICATION EagerSpec
CONSTANTS
  NCores = 1
  Task = {t1, t2}
  Idle = Idle
  Free = Free
  TickIsr = TickIsr
  MaxTime = 0
  Period = 1
PROPERTY EveryActiveTaskRuns
