CONSTANTS
  Scan <- EveryScan
  Limit = 3
SPECIFICATION SlctSpec
INVARIANTS
  RowsFit
  
PROPERTY ImplementsSelection
CHECK_DEADLOCK FALSE
