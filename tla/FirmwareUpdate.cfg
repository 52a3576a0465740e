CONSTANTS
  Images = {good, bad}
  Healthy = {good}
  Broken = broken
  HealthDelay = 2
  Deadline = 7
  Samples = 3
SPECIFICATION FairSpec
INVARIANTS
  Inv
  SomeSlotIsProven
  NeverLockedOut
PROPERTIES
  PendingIsResolved
  UnhealthyIsRolledBack
