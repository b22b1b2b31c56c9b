SPECIFICATION FairSpec
CONSTANTS
  Subs = {s1, s2}
  Sockets = {k1, k2}
  NoSocket = nil
  MaxOpens = 1
  MaxTries = 1
CHECK_DEADLOCK FALSE
INVARIANTS
  SlotsAreOpens
  NoSocketLeaks
  FruitlessBacksOff
PROPERTIES
  OpenersAreServed
  DeadLinkIsLeft
  CancelReturns
