CONSTANTS
  Documents <- MCDocuments
  ParentConfigs <- MCParents
  ChildConfigs <- MCChildren
  DefaultSize = 10
  DefaultOverlap = 4
  HeaderLens = {2}
  Cuts <- MCCuts
SPECIFICATION Spec
CHECK_DEADLOCK FALSE
INVARIANTS
  OneConfigForAll
  NoTextLost
  ChildrenLinked
