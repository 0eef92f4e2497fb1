SPECIFICATION Spec
CONSTANTS
  Patterns = {1, 2, 3}
  Loose = 2
  MaxTitle = 5
  GapSample = 2
  ReliableGap = 6
  SmallestGap = 4
  ChapterLength = 16
  Slack = 1
  Files <- MCFiles
  Spines <- MCSpines
  MaxChapter = 3
  Written = {1, 2}
  Continued <- MCContinued
  Contents <- MCContents
  MinWords = 1
  MaxWords = 1
  MaxLogged = 2
INVARIANTS
  CountCheckTrue
  ProgressCovers
  ImportWhole
CHECK_DEADLOCK FALSE
