CONSTANTS
  Documents <- MCDocuments
  ParentConfigs <- LegacyConfig
  ChildConfigs <- LegacyConfig
  DefaultSize = 10
  DefaultOverlap = 4
  HeaderLens = {2}
  Cuts <- MCCuts
SPECIFICATION Spec
CHECK_DEADLOCK FALSE
INVARIANT
  ChildOffsetsRight
