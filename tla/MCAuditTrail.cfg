SPECIFICATION Spec
CONSTANTS
  Entries = {1, 2, 3, 4}
  Own = {2, 3}
  Limit = 2
  Views = 3
  Faults = 1
INVARIANTS TypeOK NoGap ShownMatches
