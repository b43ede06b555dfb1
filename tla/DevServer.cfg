SPECIFICATION FairSpec
CONSTANTS
  Targets <- MCTargets
  Contents <- MCContents
  Missing = "missing"
  Readable <- MCReadable
  Compiles <- MCCompiles
  Empty = "empty"
  Capacity = 2
  Reverts = FALSE
CHECK_DEADLOCK FALSE
INVARIANTS
  QuietIsCurrent
  BuildsCounted
PROPERTIES
  EditsBuilt
  DroppedHandleEnds
