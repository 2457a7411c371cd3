SPECIFICATION Spec
CONSTANTS
  Task = {x1}
  Fifo = TRUE
  priority <- NoPriorities
  Client = {c1}
  MaxThreads = 3
  Sizes = {1, 2}
  SizeMod = 8
  Calls = {"Destroy"}
  Spurious = FALSE
INVARIANT NoWorkerOutlivesPool
CHECK_DEADLOCK FALSE
