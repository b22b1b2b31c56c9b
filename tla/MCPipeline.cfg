SPECIFICATION FairSpec
CONSTANTS
  Workers = {w1}
  MaxQueueSize = 1
  MaxRetries = 1
  TrackSize = 1
  MaxSubscribe = 1
  MaxLogs = 2
CHECK_DEADLOCK FALSE
INVARIANTS
  OneFate
  LossHasACause
  ProcessedWasReceived
  DelayInBounds
PROPERTIES
  RunReturns
  LogsAreCounted
  ImplementsPromise
