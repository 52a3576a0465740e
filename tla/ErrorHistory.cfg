CONSTANTS
  Capacity = 3
  FlushInterval = 2
  MaxBootId = 3
  MaxErrors = 7
SPECIFICATION FairSpec
INVARIANTS
  Inv
  NothingDirtyIsForgotten
PROPERTIES
  StoredHistoryIsKept
  ImplementsLog
  EveryChangeIsSavedOrReported
