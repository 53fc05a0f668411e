CONSTANTS
  r1 = r1
  r2 = r2
  r3 = r3
  NoTask = NoTask
  NoName = NoName
  Tasks <- ThreeTasks
  Names <- MCNames
  MaxWorkers <- TwoSlots
  Workloads <- PdfWork
  GrpcWorkers = 3
  MaxImages = 1
SPECIFICATION Spec
SYMMETRY Symmetry
CHECK_DEADLOCK FALSE
PROPERTIES
  SectionsAreLimited
