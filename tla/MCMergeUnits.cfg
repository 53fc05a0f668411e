CONSTANTS
  NoHeader = NoHeader
  SepLen = 1
  UnitShapes <- MCShapes
  Configs <- MCConfigs
  DefaultSize = 4
  AbsMax = 7
  BreakWindow = 3
  MaxUnits = 4
SPECIFICATION FairSpec
CHECK_DEADLOCK FALSE
INVARIANTS
  TypeOK
  ChunksAreSlices
  LengthsAreExact
  WithinBudget
  EveryChunkIsNew
  RepeatedHeadersDoNotFit
  HeaderStaysInItsTables
  RowsCarryHeader
PROPERTIES
  CoversDocument
  Terminates
