SPECIFICATION FairSpec
CONSTANTS
  ChanCap = 2
  MaxPieces = 1
  MaxCalls = 2
  MaxFaults = 2
  MaxTurns = 2
  MaxLLMRetries = 1
  FailLimit = 2
  StuckAfter = 1
  UserRetain = 2
  MinTurns = 1
  MaxAdvances = 1
  MaxCompressions = 2
INVARIANTS
  CallsAnswered
  NoOrphanResults
  TextStored
PROPERTIES
  RefinesDialogue
  RunEnds
CHECK_DEADLOCK FALSE
