SPECIFICATION FairSpec
CONSTANTS
  Tokens <- MCTokens
  Blocks <- MCBlocks
  MinChapters = 2
  ContextWindows = {11, 16}
  LargeWindow = 16
  LargeBudget = 8
  FinalBudget = 9
  MinReduction = 35
  MaxStallRounds = 2
  LookAhead = 2
  SummaryTokens = 3
  MaxRuns = 2
  MaxOthers = 1
INVARIANTS
  FinalFits
PROPERTIES
  SummariesKept
  ExtractionEnds
CHECK_DEADLOCK FALSE
