SPECIFICATION Spec
CONSTANTS
  t1 = t1
  t2 = t2
  o1 = o1
  o2 = o2
  o3 = o3
  Thread = {t1, t2}
  Object = {o1, o2, o3}
  owner <- TwoThreads
  MaxNested = 2
INVARIANTS CountersAddUp ExclusionUntilStray WakeupsKeptUntilStray DeadlockNeedsNesting
CHECK_DEADLOCK FALSE
