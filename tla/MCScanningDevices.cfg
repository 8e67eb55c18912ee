SPECIFICATION Spec
CONSTANTS
  Addrs <- TwoHosts
  Subnets <- TwoHostSubnets
  Scans = {s1, s2}
  Hooks = {}
  NoScan = NoScan
  MaxConcurrent = 2
  MaxEdits = 1
  MaxCrashes = 0
INVARIANTS
  TypeOK
  NoGhosts
  NoLockCycle
CHECK_DEADLOCK FALSE
