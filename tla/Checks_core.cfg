SPECIFICATION Spec
CONSTANTS
  People = {"ann", "bob"}
  Items = {"ring", "sword"}
  Threads = {1, 2}
  Nodes = {1, 2}
  Plans <- MCPlans
  Bodies <- MCBodies
  Texts <- MCTexts
  ThreadTargets <- MCTargets
  NodeTargets <- MCTargets
  Targets = {2, 4}
  Vanish = 1
  Lookback = 3
  MinGap = 2
  Tolerance = 1
  DriftWindow = 3
  DriftSample = 2
  DriftActions = 2
  Window = 2
  Lag = 1
  Lead = 1
  LedgerCap = 1
  ScopeCap = 1
  SceneCap = 1
  Begun = 3
  MaxChapter = 4
  MaxChanges = 3
  Recent = 1
  Cap = 1
  Listed = 2
  Stop = 1
INVARIANTS
  ContradictionsReported
  NothingUnwatched
  WindowsAgree
CHECK_DEADLOCK FALSE
