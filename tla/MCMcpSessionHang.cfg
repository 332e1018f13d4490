CONSTANTS
  c1 = c1
  c2 = c2
  l1 = l1
  Callers <- TwoCalls
  Listers <- NoLister
  Broker = broker
  Free = free
  Slots = 2
  MaxProcs = 1
  MaxWire = 1
  MaxPages = 2
SPECIFICATION FairSpec
PROPERTIES InterruptedCallReturns
CHECK_DEADLOCK FALSE
