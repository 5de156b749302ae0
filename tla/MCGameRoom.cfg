CONSTANTS
  None = None
  r1 = r1
  r2 = r2
  Request = {r1, r2}
  TurnOf <- MCTurnOf
  GameLength = 2
  TurnTime = 1
  BatchSize = 2
  EventRows = 1
  Faults = {"put", "setAlarm", "d1", "ratings", "crash"}
  MaxFaults = 3
  SlowBodies = FALSE
SPECIFICATION Spec
INVARIANTS
  AckedMoveIsDurable
  FailedMoveNeverLands
  StoredGameIsCoherent
  ArchiveIsTheGame
PROPERTIES
  StoredGameOnlyGrows
CHECK_DEADLOCK FALSE
