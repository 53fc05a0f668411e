CONSTANTS
  LineShapes <- MCLines
  MaxLines = 5
  Configs <- MCConfigs
  MinFloor = 2
  Cuts <- MCCuts
SPECIFICATION Spec
CHECK_DEADLOCK FALSE
INVARIANTS
  TypeOK
  NoTextLost
  InOrder
  WithinSlack

