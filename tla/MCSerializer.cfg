SPECIFICATION Spec
CONSTANTS
  Inputs <- MCInputs
  Batches <- MCBatches
  Flatten <- LeavesUnder
  Reread <- ReadAndWritten
INVARIANTS
  WarningsFit
  RecordsAreTheLogs
  FieldsSurvive
CHECK_DEADLOCK FALSE
