\* Four memory maps, two of them with too few pages before the largest region, two stacks,
\* two processes, and the window manager's call.
SPECIFICATION BootSpec
CONSTANTS
  KeMain = KeMain
  Dwm = Dwm
  Caller = {KeMain, Dwm}
  WordBits = 2
  NWords = 6
  Reserved = 1
  MaxBlocks = 3
  Radix = 2
  NCores = 2
  Maps <- MCMaps
  BlockPages = 2
  MapSizes = {1, 2, 3, 4, 5, 6, 7, 8}
INVARIANTS
  SysTypeOK
  GrantsDisjoint
  NoBlockLost
  FailsOnlyWhenFull
  IdentityMapped
  ClashExact
CHECK_DEADLOCK FALSE
