SPECIFICATION FairSpec
CONSTANTS
  user = user
  agent = agent
  Writers <- MCWriters
  Chapters = {1, 2}
  MaxSaves = 2
  Capacity = 1
  MaxRetries = 2
  MaxRebuilds = 1
  CanStop = TRUE
INVARIANTS
  SettledFresh
PROPERTIES
  WorkedOff
  StopReturns
CHECK_DEADLOCK FALSE
