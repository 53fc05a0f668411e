CONSTANTS
  NoHeader = NoHeader
  SepLen = 1
  UnitShapes <- TableShapes
  Configs <- MCConfigs
  DefaultSize = 4
  AbsMax = 7
  BreakWindow = 3
  MaxUnits = 5
SPECIFICATION Spec
CHECK_DEADLOCK FALSE
INVARIANTS
  EveryTableCarriesHeader
