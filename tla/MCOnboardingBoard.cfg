SPECIFICATION FairSpec
CONSTANTS
  Hires = {u1}
  Jobs = {1,2}
  NoJob = 0
  Separators <- BothSeparators
  MaxEvents = 2
  MaxFaults = 1
INVARIANTS TypeOK ShownStatusHappened
PROPERTIES OptimismKept ListConverges
