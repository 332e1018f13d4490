CONSTANTS
  l1 = l1
  c1 = c1
  c2 = c2
  Lists <- NoList
  Calls <- TwoCalls
  Targets <- OneTarget
  TargetOf <- OnFirst
  Free = free
  Shape <- Compatible1
  Stored <- NothingStored
  LastVersion <- One
  MaxConns <- One
SPECIFICATION Spec
INVARIANTS BusyCallNotQueued
