\* Descriptors of an EDBT process, counters refused at will; the process ends.
CONSTANTS
  Command <- MCCommand
  Limits <- MCLimits
SPECIFICATION FairSpec
INVARIANTS
  OnlyMemLeaks
  ExitLeavesEngineEmpty
  LinesAreTrue
PROPERTY
  Completes
CHECK_DEADLOCK FALSE
