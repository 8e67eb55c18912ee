SPECIFICATION PasswordSpec
CONSTANTS
  Users = {u1, u2}
  Emails = {e1}
  Uids = {d1}
  Jobs = {j1, j2}
  Requests = {r1, r2}
  Nobody = Nobody
  NoEmail = NoEmail
  NoJob = NoJob
  Uid <- OneUid
  Provider = "ldap"
  MaxCopies = 1
  MaxCrashes = 0
  SlowTasks = TRUE
  LateAck = FALSE
SYMMETRY Symmetric
INVARIANTS TypeOK NotifiedHasAccount MailedPasswordWorks PasswordOfOwner CompletedConfirmed RollbackAudited
PROPERTY KeepsLedger
CHECK_DEADLOCK FALSE
