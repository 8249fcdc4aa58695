SPECIFICATION FairGamesSpec
CONSTANTS
  Games <- BothGames
  Pids <- Pids3
  None = None
  Callers = {c1, c2}
  Loop = c1
  Pollers = {m}
  Monitor = m
  Countdowns = TRUE
  MaxRequests = 3
  MaxRestarts = 1
INVARIANTS
  OneServer
  StatusPasses
  StopStops
PROPERTIES
  CrashIsReported
CHECK_DEADLOCK FALSE
