SPECIFICATION FairSpec
CONSTANTS
  MaxLogs = 3
  MaxTime = 5
CHECK_DEADLOCK FALSE
PROPERTIES
  SentInOrder
  EveryLogForwarded
