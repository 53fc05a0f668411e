CONSTANTS
  Jobs = {a, b}
  Uploads <- MCUploads
  Products <- MCProducts
  NormalSuffixes <- MCSuffixes
  MaxAttempts = 2
SPECIFICATION FairSpec
CHECK_DEADLOCK FALSE
INVARIANTS
  DiskIsOwn
  RefusedForAReason
PROPERTY
  EveryConversionEnds
