\* Up to seven blocks: every split and every merge.
SPECIFICATION HeapSpec
CONSTANTS
  HeapSize = 14
  Hdr = 1
  Requests = {1, 2, 3}
INVARIANTS
  HeapTypeOK
  Tiled
  ListConsistent
  Coalesced
PROPERTY ImplementsAllocator
CHECK_DEADLOCK FALSE
