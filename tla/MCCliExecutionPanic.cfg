CONSTANTS
  c1 = c1
  Calls <- OneCall
  Slots = 1
  Limit = 1
SPECIFICATION Spec
INVARIANTS EveryCallAnswered
CHECK_DEADLOCK FALSE
