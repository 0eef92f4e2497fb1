SPECIFICATION Spec
CONSTANTS
  NL = "nl"
  Ascii = "quote"
  Variants = {"curly"}
  Letters = {"a", ".", " "}
  Searches <- MCSearches
  Contents <- MCContents
  DefaultEnd = 3
  MaxLen = 4
  Blanks = {" "}
  Ends = {"."}
  ChunkSizes = {1, 2, 3}
  Overlaps = {0, 1, 2}
  PreviewLen = 2
  Radius = 1
  ContentLimit = 2
  TopK = 2
  Gram = 2
INVARIANTS
  NumbersTrue
  IndexTrue
PROPERTIES
  EditsLocal
