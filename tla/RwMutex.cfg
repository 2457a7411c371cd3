SPECIFICATION FairSpec
CONSTANT Thread = {t1, t2, t3, t4}
INVARIANTS TypeOK CountsExact MutualExclusion NoLostReaderWakeup NoLostWriterWakeup
PROPERTIES ImplementsRwLock ReadersNotStarved WritersNotStarved
