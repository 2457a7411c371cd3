SPECIFICATION FairSpec
CONSTANTS
  Main = main
  Reader = {r1, r2}
  test_time = 2
INVARIANTS OwnersExclude LocksLeftFree
PROPERTIES BenchmarkReturns UnlocksOnlyItsOwn
