SPECIFICATION FairSpec
CONSTANTS
  Addrs <- ThreeHosts
  Subnets <- ThreeHostSubnets
  Scans = {s1}
  Hooks = {h1}
  NoScan = NoScan
  MaxConcurrent = 2
  MaxEdits = 0
  MaxCrashes = 1
INVARIANTS
  CompleteIsSaved
PROPERTIES
  ProgressForward
  WatcherTold
CHECK_DEADLOCK FALSE
