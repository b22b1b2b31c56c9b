SPECIFICATION Spec
CONSTANTS
  Life = 2
  MaxReaders = 3
  MaxNames = 1
  MaxTime = 3
  MaxBatch = 2
CHECK_DEADLOCK FALSE
INVARIANT WritesArePrivate
PROPERTY NamesWereRecent
