CONSTANTS
  p1 = p1
  p2 = p2
  v1 = v1
  v2 = v2
  Brokers <- TwoBrokers
  Values <- TwoValues
  None = None
  Partial = Partial
  Foreign = Foreign
  MaxCounter = 2
  MaxInodes = 4
  MaxUnsettled = 1
  MaxFaults = 1
SPECIFICATION FairSpec
INVARIANTS TypeOK EntryIsWhole
PROPERTIES StoreIsAtomic StoreRecovers
CHECK_DEADLOCK FALSE
