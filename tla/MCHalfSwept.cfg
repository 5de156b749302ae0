CONSTANTS
  None = None
  NAgents = 6
  House = {4, 5, 6}
  Entry <- MCEntry
  OperatorOf <- MCOperator
  Rating <- MCRating
  NQueues = 2
  SeatsFor <- MCSeats
  Roster <- MCRoster
  Isolate = {i1}
  NRequests = 2
  BaseBand = 150
  BandStep = 100
  UnboundedAfter = 2
  BackfillAfter = 1
  HouseConcurrency = 1
  DailyJoins = 2
  ConcurrentGames = 1
  Fault = {"create"}
  MaxFaults = 1
  MaxJoins = 2
SPECIFICATION Spec
INVARIANTS
  OneGamePerJoin
CHECK_DEADLOCK FALSE
