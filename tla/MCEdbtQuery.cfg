CONSTANTS
  Run <- MCRun
  Garbage = {0, 7}
  TRange = 8
  KeyRange = 4
  GroupCapacity = 1
  MAX_GROUPS = 3
SPECIFICATION Spec
INVARIANTS
  PassComputesTheQuery
  GroupsFit
CHECK_DEADLOCK FALSE
