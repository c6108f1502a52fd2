\* Two cores, four tasks: progress of a core whose lock tasks of the other one take.
SPECIFICATION LiveSpec
CONSTANTS
  NCores = 2
  Task = {t1, t2, t3, t4}
  Runner = t1
  Watched = t4
  Idle = Idle
  Free = Free
  TickIsr = TickIsr
  MaxTime = 0
  Period = 1
PROPERTIES DueTaskActivated EndedTaskReaped
