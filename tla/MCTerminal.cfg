\* Four key events, tasks on two cores, a ring of three that they may lap.
SPECIFICATION TerminalSpec
CONSTANTS
  Writers = {w1, w2}
  Reader = Reader
  Free = Free
  Size = 3
  MaxChars = 4
  Plain = {"a"}
  Extended = {"up"}
  MaxKeys = 4
VIEW Alike
SYMMETRY Cores
INVARIANTS
  InOrder
  TypedAsMeant
  KeysKept
CHECK_DEADLOCK FALSE
