SPECIFICATION Spec
CONSTANTS
  Users = {u1}
  Emails = {e1}
  Uids = {d1}
  Jobs = {j1, j2}
  Requests = {r1}
  Nobody = Nobody
  NoEmail = NoEmail
  NoJob = NoJob
  Uid <- OneUid
  Provider = "ldap"
  MaxCopies = 1
  MaxCrashes = 0
  SlowTasks = FALSE
  LateAck = FALSE
SYMMETRY Symmetric
PROPERTIES AuditFailureHarmless
CHECK_DEADLOCK FALSE
