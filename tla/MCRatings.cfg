CONSTANTS
  None = None
  Game = {"g1", "g2", "g3"}
  Agent = {1, 2, 3, 4, 5}
  House = {4, 5}
  SeatsOf <- MCSeatsOf
  MinReal <- MCMinReal
  Queue <- MCQueue
  Column <- MCColumn
  Results <- MCResults
  Call = {c1, c2}
  MaxFaults = 1
SPECIFICATION Spec
INVARIANTS
  RebuildAgrees
  DecompositionIsFair
PROPERTIES
  ImplementsLedger
CHECK_DEADLOCK FALSE
