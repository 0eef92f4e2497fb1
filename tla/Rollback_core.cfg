\* One session with two turns over two chapters.
SPECIFICATION Spec
CONSTANTS
  Sessions = {s1}
  NoSession = none
  Files = {f1, f2}
  MaxTurns = 2
  MaxEvents = 4
  MaxCommits = 3
PROPERTIES
  FilesRestored
  NothingHalfUndone
  EveryTextKept
CHECK_DEADLOCK FALSE
