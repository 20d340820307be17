\* Experiments that scan the window, one after the other, killed anywhere.
CONSTANTS
  Command <- MCCommand
  Rows = 2
  RowSizes <- MCRowSizes
  FixedRowSize = 8
  ColSizes = 2
  Enabled <- MCEnabled
  Row <- MCRow
  MaxGroups = 2
SPECIFICATION Spec
INVARIANTS
  WindowIsCurrent
  DramIsCurrent
  ColdIsCold
  
