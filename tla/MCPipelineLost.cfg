SPECIFICATION Spec
CONSTANTS
  Workers = {w1}
  MaxQueueSize = 1
  MaxRetries = 0
  TrackSize = 1
  MaxSubscribe = 1
  MaxLogs = 2
CHECK_DEADLOCK FALSE
INVARIANT FailedCountsUnshipped
