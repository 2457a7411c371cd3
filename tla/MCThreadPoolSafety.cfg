SPECIFICATION Spec
CONSTANTS
  Task = {x1, x2}
  Fifo = TRUE
  priority <- NoPriorities
  Client = {c1, c2}
  MaxThreads = 3
  Sizes = {0, 1, 2}
  SizeMod = 8
  Calls = {"Pop", "ClearQueue", "StopNow", "StopWait", "Destroy"}
  Spurious = TRUE
SYMMETRY FifoSymmetry
INVARIANTS TypeOK NothingStranded NobodyLeavesUntold ShrinkFlagsTheRest ReturnedPushesRun
PROPERTY ImplementsExecutor
CHECK_DEADLOCK FALSE
