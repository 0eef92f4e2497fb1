SPECIFICATION Spec
CONSTANTS
  s1 = s1
  s2 = s2
  Sessions = {s1, s2}
  User = User
  None = None
  Tables <- MCTables
  Unreadable <- MCUnreadable
  Beginning <- MCBeginning
  MaxRows = 3
  MaxTurns = 2
  MaxSteps <- MCMaxSteps
INVARIANTS
  LoggedTurnUndone
PROPERTIES
  EndsStand
  FinalsStand
  OneHolds
SYMMETRY Symmetry
CHECK_DEADLOCK FALSE
