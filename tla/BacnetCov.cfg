CONSTANTS
  object = object
  Objects = {object}
  NSubscribers = 3
  Monitors <- MCMonitors
  Answering <- MCAnswering
  MaxTransactions = 2
  Capacity = 2
  RecoveryDelay = 1
  MaxValue = 1
SPECIFICATION FairSpec
INVARIANTS
  Inv
  NothingIsForgotten
PROPERTIES
  SubscriberIsTold
