\* Scripts one after the other, tools failing and scripts interrupted anywhere.
CONSTANTS
  Script <- MCScript
  Rows = 1
  Row <- MCRow
  MaxGroups = 1
  MaxFaults = 2
SPECIFICATION Spec
INVARIANTS
  WindowIsCurrent
PROPERTY
  StaleOnlyFromOldCopies
