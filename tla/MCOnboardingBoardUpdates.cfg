SPECIFICATION Spec
CONSTANTS
  Hires = {u1}
  Jobs = {1,2}
  NoJob = 0
  Separators <- ServerSeparator
  MaxEvents = 2
  MaxFaults = 1
PROPERTIES LiveUpdates
