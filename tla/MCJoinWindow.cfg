\* The window, over R.
CONSTANTS
  JoinQuery <- HashedQuery
  Stores = {"RME"}
  Limit = 3
  CAPACITY = 150
  Garbage <- MCGarbage
SPECIFICATION JoinSpec
INVARIANT ShowsTheJoinInEveryStore
CHECK_DEADLOCK FALSE
