CONSTANTS
  None = None
  Handle = {h1, h2, h3}
  PubKey = {k1, k2}
  Operator = {o1}
  c1 = c1
  Challenge = {c1, c2}
  Enrolled <- MCEnrolled
  h1 = h1
  h2 = h2
  h3 = h3
  k1 = k1
  k2 = k2
  o1 = o1
  Message <- MCMessage
  Slot = {s1, s2}
  Ttl = 1
  Grace = 1
  MaxFaults = 1
  a1 = a1
  Agent = {a1}
  Url = {u1, u2}
  Game = {g1, g2}
  Controls <- MCControls
  Seats <- MCSeats
  Request = {r1}
  Cron = {k3}
  MaxFailures = 2
  MaxTurns = 1
  MaxRegistrations = 2
  House = {1, 2, 3}
  Real = {4}
  Silent = {2}
  Movers <- MCMovers
  PerWake = 2
  Delay = 2
  Retry = 1
  AlarmRetry = 2
  Budget = 8
  SlowAdapters = TRUE
  Faults = {"arm", "drive", "crash", "torn"}
  MaxDriverFaults = 1
  LateAlarm = TRUE
  u1 = u1
  u2 = u2
  g1 = g1
  g2 = g2
  t1 = t1
  t2 = t2
  Unread = Unread
  Length <- MCLength
  RowBatch = 2
  MaxLeaves = 8
  LogTick = {t1, t2}
SPECIFICATION ServicesSpec
INVARIANTS
  ChallengeSpentOnce
  AgentsProveTheirKey
  OneActiveForm
  RungUrlIsProved
  FailuresInARow
  EntriesAreProvable
  HouseSeatsMoveInTime
PROPERTIES
  ChallengesGo
  LogIsSigned
  GameIsOver
CHECK_DEADLOCK FALSE
