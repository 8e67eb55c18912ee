SPECIFICATION FairSpec
CONSTANTS
  Data = {d1, d2}
  Boots = {b1, b2}
  Kept = b2
  Login = login
  MaxReloads = 1
INVARIANTS
  TypeOK
  GateOpensComplete
  SignedOutStays
PROPERTIES
  RequestsSettle
