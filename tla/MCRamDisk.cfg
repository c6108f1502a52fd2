\* Any four calls on five paths, two of whose names begin alike.
SPECIFICATION Spec
CONSTANTS
  Name <- MCName
  Prefix <- MCPrefix
  Path <- MCPath
  Stray <- MCStray
  Content <- MCContent
  NDirect = 1
  Span = 2
  PerBlock = 2
  MaxCalls = 4
INVARIANTS
  OwnedOnce
  ReadsContent
PROPERTIES
  WriteIsolated
  WriteFaults
CHECK_DEADLOCK FALSE
