SPECIFICATION PasswordFairSpec
CONSTANTS
  Users = {u1}
  Emails = {e1}
  Uids = {d1}
  Jobs = {j1, j2}
  Requests = {r1}
  Nobody = Nobody
  NoEmail = NoEmail
  NoJob = NoJob
  Uid <- OneUid
  Provider = "ldap"
  MaxCopies = 1
  MaxCrashes = 1
  SlowTasks = FALSE
  LateAck = TRUE
INVARIANT PasswordInv
PROPERTY EventuallySettles
CHECK_DEADLOCK FALSE
