CONSTANTS
  Run <- MCRun
  CAPACITY = 3
  TRange = 16
SPECIFICATION Spec
INVARIANTS
  HashKeepsThree
  NeverFull
  AnswersTheJoin
CHECK_DEADLOCK FALSE
