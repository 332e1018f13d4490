CONSTANTS
  c1 = c1
  c2 = c2
  l1 = l1
  Callers <- CallAndList
  Listers <- OneLister
  Broker = broker
  Free = free
  Slots = 2
  MaxProcs = 2
  MaxWire = 1
  MaxPages = 2
SPECIFICATION Spec
INVARIANTS NoProcessOutlivesBroker
CHECK_DEADLOCK FALSE
