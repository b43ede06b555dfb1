SPECIFICATION FairSpec
CONSTANTS
  Fetchers = {f1}
  Locked <- TwoPackages
  Size = 3
  Inodes = {1, 2, 3, 4}
  Ranges = {TRUE, FALSE}
  MaxFaults = 2
CHECK_DEADLOCK FALSE
INVARIANTS
  CacheIntegrity
  PartAligned
  VendorComplete
PROPERTIES
  FetchCompletes
