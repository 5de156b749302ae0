CONSTANTS
  None = None
  r1 = r1
  r2 = r2
  Request = {r1, r2}
  TurnOf <- MCSameTurn
  GameLength = 2
  TurnTime = 1
  BatchSize = 2
  EventRows = 2
  Faults = {"d1", "ratings", "crash"}
  MaxFaults = 2
  SlowBodies = TRUE
SPECIFICATION FairSpec
INVARIANTS
  UnfinishedHasAlarm
PROPERTIES
  EventuallyFinalized
CHECK_DEADLOCK FALSE
