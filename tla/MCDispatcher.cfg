SPECIFICATION FairSpec
CONSTANTS
  Workers = {w1, w2}
  MaxQueueSize = 2
  MaxRetries = 1
  MaxItems = 3
CHECK_DEADLOCK FALSE
INVARIANTS
  TypeOK
  OnePlace
  SettledOnce
  AttemptsBounded
  AbandonedWasTried
  StopAccounts
  DrainNeverDry
PROPERTIES
  ItemsSettle
  StopReturns
  ImplementsOutbox
