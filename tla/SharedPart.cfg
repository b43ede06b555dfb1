SPECIFICATION FairSpec
CONSTANTS
  Fetchers = {f1, f2}
  Locked <- OnePackage
  Size = 2
  Inodes = {1, 2, 3, 4, 5}
  Ranges = {FALSE}
  MaxFaults = 0
CHECK_DEADLOCK FALSE
INVARIANTS
  CacheIntegrity
