SPECIFICATION FairSpec
CONSTANTS
  e1 = e1
  e2 = e2
  t1 = t1
  t2 = t2
  NoEdit = NoEdit
  Edits <- MCEdits
  Ids <- MCIds
  Texts <- MCTexts
INVARIANTS
  Answerable
PROPERTIES
  ConsentedWrites
  SeesWhatItReplaces
  Unblocked
CHECK_DEADLOCK FALSE
