CONSTANTS
  LineShapes <- MCLines
  MaxLines = 4
  MaxLevel = 3
  Titles = {"a", "b"}
  TitleLen = 1
  Sizes = {9, 16}
  MinRepeats = 2
  MinTarget = 6
  Cuts <- MCCuts
  HeaderLens = {3}
SPECIFICATION FairSpec
CHECK_DEADLOCK FALSE
INVARIANTS
  TypeOK
  CrumbsTrue
  ChunksAreStretches
  NothingLeftToJoin
PROPERTIES
  CoversDocument
  Terminates
