SPECIFICATION FairSpec
CONSTANTS
  Fetchers = {f1}
  Locked <- OnePackage
  Size = 2
  Inodes = {1, 2, 3}
  Ranges = {TRUE}
  MaxFaults = 1
CHECK_DEADLOCK FALSE
PROPERTIES
  ResumedFetchCompletes
