CONSTANTS
  NoHeader = NoHeader
  SepLen = 1
  UnitShapes <- MCShapes
  Configs <- MCConfigs
  DefaultSize = 4
  AbsMax = 7
  BreakWindow = 3
  MaxUnits = 4
SPECIFICATION Spec
CHECK_DEADLOCK FALSE
INVARIANTS
  HeaderIsOwn
