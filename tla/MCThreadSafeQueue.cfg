SPECIFICATION FairSpec
CONSTANTS
  Task = {1, 2, 3}
  priority <- ThreePriorities
  Consumer = {c1, c2, c3}
INVARIANTS NothingLost UrgentFirst NothingStranded
PROPERTIES ElementsMeetWaiters WaitReturns
CHECK_DEADLOCK FALSE
