\* Four keys and more in one bucket.
CONSTANTS
  Run <- CrowdedRun
  CAPACITY = 3
  TRange = 16
SPECIFICATION Spec
INVARIANT InsertsUnlessFull
CHECK_DEADLOCK FALSE
