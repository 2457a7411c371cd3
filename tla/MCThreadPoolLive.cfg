SPECIFICATION FairSpec
CONSTANTS
  Task = {1, 2}
  Fifo = FALSE
  priority <- UrgentTail
  Client = {c1, c2}
  MaxThreads = 3
  Sizes = {1, 2}
  SizeMod = 8
  Calls = {}
  Spurious = FALSE
PROPERTY EveryTaskRuns
PROPERTY ToldWorkersLeave
CHECK_DEADLOCK FALSE
