CONSTANTS
  Paragraphs <- MCParagraphs
  MaxParagraphs = 4
  MaxWorkers = 2
  MaxPages = 2
  LargeDocument = 3
  ParasPerPage = 2
  TmpIsDefault = TRUE
SPECIFICATION FairSpec
CHECK_DEADLOCK FALSE
INVARIANTS
  TypeOK
  SharedWhileNeeded
  NothingLeftBehind
  PagesInOrder
PROPERTY
  EveryParseEnds
