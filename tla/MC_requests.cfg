CONSTANTS
  r1 = r1
  r2 = r2
  r3 = r3
  NoTask = NoTask
  NoName = NoName
  Tasks <- ThreeTasks
  Names <- MCNames
  MaxWorkers <- OneSlot
  Workloads <- MixedWork
  GrpcWorkers = 2
  MaxImages = 1
SPECIFICATION FairSpec
CHECK_DEADLOCK FALSE
INVARIANTS
  TypeOK
  PermitsConserved
  NoSlotOutsideItsStage
  FailsOnlyWhenExhausted
  AnswersAreComplete
PROPERTIES
  SectionsAreLimited
  EveryRequestEnds
