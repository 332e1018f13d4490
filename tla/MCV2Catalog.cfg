CONSTANTS
  b1 = b1
  r = r
  p = p
  list = list
  call = call
  d1 = d1
  d2 = d2
  d3 = d3
  None = None
  Brokers <- MCBrokers
  Restricted <- MCRestricted
  Proxies <- MCProxies
  Lists <- MCLists
  Calls <- MCCalls
  Definitions <- MCDefinitions
  Derivable <- MCDerivable
  Compatible <- MCCompatible
  MaxChanges = 1
  MaxCrashes = 1
SPECIFICATION Spec
INVARIANTS TypeOK DurableBeforePublic ReasonGiven StaysOffered ClientInformed
PROPERTIES FrozenStays
CHECK_DEADLOCK FALSE
