\* Queries one after the other, killed anywhere, whatever a reset does to the
\* CPU's copies of the window.
CONSTANTS
  Request <- MCRequest
  Row <- MCRow
  MaxGroups = 2
SPECIFICATION Spec
INVARIANTS
  IInv
  EngineIsCurrent
  ReadsAreCurrent
  DramIsCurrent
PROPERTY StaleOnlyFromOldCopies
