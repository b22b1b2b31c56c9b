SPECIFICATION FairSpec
CONSTANTS
  Ids = {d1, d2}
  DoneSize = 1
  MayReturn = TRUE
  MaxVersion = 3
CHECK_DEADLOCK FALSE
INVARIANT
  RunningIsExact
PROPERTIES
  NeverAllGone
  UnwantedStops
  FirstComersAreTailed
  ChangesAreNoticed
  Returns
