SPECIFICATION FairSpec
CONSTANTS
  c1 = c1
  m1 = m1
  NoOp = NoOp
  Chats <- MCOneChat
  Compressions <- MCCompressions
  Timeouts = TRUE
INVARIANTS
  NoDoubleClose
  SoloStoppable
  CleanDelete
PROPERTIES
  DeleteReturns
  CancelledEnds
CHECK_DEADLOCK FALSE
