SPECIFICATION AvlSpec
CHECK_DEADLOCK FALSE
CONSTANTS
  MaxKey = 9
  Ascending = TRUE
INVARIANTS
  TasksKept
  ParentsConsistent
  BalancedWhileGrowing
PROPERTY OrderKept
