\* Two cores and two tasks: every safety property of Scheduler.
SPECIFICATION Spec
CONSTANTS
  NCores = 2
  Task = {t1, t2}
  Idle = Idle
  Free = Free
  TickIsr = TickIsr
  MaxTime = 1
  Period = 1
VIEW LiveState
SYMMETRY TaskSymmetry
INVARIANTS
  TypeOK
  FaultsExplained
  ActiveListWellFormed
  QueueConsistent
  CountConsistent
  OnlyCurrentEnded
  ParkedIsSuspended
  IInv
PROPERTY ImplementsLife
