CONSTANTS
  NBlocks = 2
  Period <- MCPeriod
  Stale <- MCStale
  Gap = 1
  MaxElapsed = 1
  RetryDelay = 3
  BackoffUnit = 2
  BackoffCap = 5
  BackoffSteps = 3
  RejectDelay = 4
  RecheckDelay = 4
  Controllers <- MCControllers
  MaxTime = 12
SPECIFICATION Spec
INVARIANTS
  Inv
  OldRegistersOnlyOnConfirmedController
  NothingIsGoodWhileDistrusted
  GoodDataWasRecentlyConfirmed
PROPERTIES
  NoBlockIsPassedTwice
  ImplementsContract
