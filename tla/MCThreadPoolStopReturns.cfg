SPECIFICATION FairSpec
CONSTANTS
  Task = {x1}
  Fifo = TRUE
  priority <- NoPriorities
  Client = {c1}
  MaxThreads = 2
  Sizes = {1, 2}
  SizeMod = 8
  Calls = {"StopWait"}
  Spurious = FALSE
PROPERTY StopReturns
CHECK_DEADLOCK FALSE
