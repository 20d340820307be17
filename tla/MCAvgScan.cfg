CONSTANTS
  AvgQuery <- MCQuery
  SumMod = 512
SPECIFICATION AvgSpec
INVARIANT AverageUnlessItWraps
CHECK_DEADLOCK FALSE
