SPECIFICATION Spec
CONSTANTS
  MaxLogs = 2
  MaxTime = 3
CHECK_DEADLOCK FALSE
INVARIANT SkippedOnlyIfProcessed
