SPECIFICATION FairSpec
CONSTANTS
  Targets <- MCTargets
  Contents <- MCContents
  Missing = "missing"
  Readable <- MCReadable
  Compiles <- MCCompiles
  Empty = "empty"
  Capacity = 4
  Reverts = FALSE
CHECK_DEADLOCK FALSE
PROPERTIES
  ShutdownReturns
