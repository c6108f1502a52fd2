\* Does a sleeping reader get woken when there is something to read?
SPECIFICATION StdinFairSpec
CONSTANTS
  Writers = {w1, w2}
  Reader = Reader
  Free = Free
  Size = 3
  MaxChars = 2
PROPERTY SleeperWoken
CHECK_DEADLOCK FALSE
