CONSTANTS
  JoinQuery <- MCQuery
  Stores = {"ROW", "COL", "RME"}
  Limit = 3
  CAPACITY = 150
  Garbage <- MCGarbage
SPECIFICATION JoinSpec
INVARIANTS
  HashesS
  ShowsTheJoin
  PairsFit
CHECK_DEADLOCK FALSE
