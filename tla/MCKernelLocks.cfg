\* Two cores, two tasks on the first of them, two calls at a time and every handler.
SPECIFICATION Spec
CONSTANTS
  NCores = 2
  a1 = a1
  a2 = a2
  b1 = b1
  Task = {a1, a2, b1}
  CoreOf <- MCCoreOf
  MaxBusy = 2
  Free = Free
SYMMETRY SameCore
INVARIANTS
  LocksOrdered
  DeadlocksExplained
CHECK_DEADLOCK FALSE
