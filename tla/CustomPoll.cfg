CONSTANTS
  NPoints = 3
  Period <- SmallPeriod
  Gap = 1
  MaxElapsed = 3
  Latencies <- SmallLatencies
  RetryFloor = 3
  BackoffUnit = 3
  BackoffCap = 5
  BackoffSteps = 2
  StaleFloor = 4
  MaxTime = 16
SPECIFICATION Spec
INVARIANTS
  Inv
  AgeIsWithinOneSweep
  NothingFromBeforeSilence
PROPERTIES
  ImplementsContract
CHECK_DEADLOCK FALSE
