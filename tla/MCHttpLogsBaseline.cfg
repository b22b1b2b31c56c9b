SPECIFICATION FairSpec
CONSTANTS
  Ids = {d1, d2}
  DoneSize = 1
  MayReturn = FALSE
  MaxVersion = 2
CHECK_DEADLOCK FALSE
PROPERTY NewDeploymentsPickedUp
