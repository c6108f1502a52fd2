\* Up to six tasks with three start times; the array doubles twice.
SPECIFICATION PQFairSpec
CONSTANTS
  Task = {0, 1, 2, 3, 4, 5}
  NoTask = NoTask
  startTime <- StartTimes
  InitSize = 2
INVARIANTS
  PQTypeOK
  BoundsRespected
  HeapOrdered
PROPERTIES
  OperationsEnd
  ImplementsQueue
