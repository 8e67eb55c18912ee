SPECIFICATION Spec
CONSTANTS
  Devices = {1, 2}
  Nameless = {1, 2}
  Found = {1}
  NoDevice = 0
  Searches = {"", "some"}
  Picks = {"all", "critical"}
  Sizes = {1, 2}
  Size = 1
  Presses = {p1, p2}
  MaxEvents = 2
SYMMETRY Symmetric
INVARIANTS TypeOK BulkToastTrue DeletedLeaves
PROPERTY DeletesChosen
