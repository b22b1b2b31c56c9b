SPECIFICATION FairSpec
CONSTANTS
  Deploy = deploy
  HttpLogs = http
  Patience = 1
  MaxPayloads = 2
CHECK_DEADLOCK FALSE
INVARIANTS
  ExitZeroIsClean
  DrainIsCutOnlyByFailure
PROPERTIES
  SignalOrFailureEnds
  StatusCatchesUp
