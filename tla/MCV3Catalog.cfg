CONSTANTS
  l1 = l1
  c1 = c1
  c2 = c2
  Lists <- OneList
  Calls <- TwoCalls
  Targets <- TwoTargets
  TargetOf <- OnFirst
  Free = free
  Shape <- Missing2
  Stored <- FirstStored
  LastVersion <- TwoThenOne
  MaxConns <- TwoThenOne
SPECIFICATION FairSpec
INVARIANTS TypeOK ClientInformed ChangeNotForgotten VerdictFromDiscovery NoLostRefresh
PROPERTIES RequestsAnswered
