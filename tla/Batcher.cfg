SPECIFICATION FairSpec
CONSTANTS
  Thread = {t1, t2}
  Item = {x1, x2, x3, x4}
  BatchSizes = {2, 3}
INVARIANTS InOrder FullBatches
PROPERTY AddItemReturns
CHECK_DEADLOCK FALSE
