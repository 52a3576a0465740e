CONSTANTS
  NPoints = 10
  Period <- MixedPeriod
  Gap = 1
  MaxElapsed = 5
  Latencies <- MixedLatencies
  RetryFloor = 20
  BackoffUnit = 20
  BackoffCap = 120
  BackoffSteps = 6
  StaleFloor = 20
  MaxTime = 160
SPECIFICATION HealthySpec
INVARIANTS
  HealthyIsFresh
CHECK_DEADLOCK FALSE
