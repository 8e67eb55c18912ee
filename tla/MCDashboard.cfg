SPECIFICATION FairSpec
CONSTANTS
  Devices = {d1}
  Hires = {u1}
  Weeks = {w1}
  Entries = {1, 2}
  FeedSize = 1
  MaxChanges = 2
  MaxFaults = 1
INVARIANTS TypeOK CountsAddUp
PROPERTY DashboardConverges
