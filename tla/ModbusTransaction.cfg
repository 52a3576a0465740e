CONSTANTS
  Timeout = 3
  RequestSize = 2
  HeaderSize = 2
  MaxBody = 2
  MaxTime = 5
SPECIFICATION FairSpec
INVARIANTS
  Inv
  AnsweredInTime
PROPERTY CallReturns
