CONSTANTS
  c1 = c1
  Calls <- OneCall
  Slots = 1
  Limit = 1
SPECIFICATION FairSpec
INVARIANTS TypeOK GroupReaped ResultIsComplete NoReaderLeft PermitCoversChild
PROPERTIES CallEnds
CHECK_DEADLOCK FALSE
