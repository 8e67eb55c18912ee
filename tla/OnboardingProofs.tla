-------------------------- MODULE OnboardingProofs --------------------------
(***************************************************************************)
(* Proofs about the onboarding saga, for every number of hires, jobs and   *)
(* restarts and for each provider: the inductive invariant IInv and what   *)
(* follows from it; the refinement of OnboardingLedger; and, over the      *)
(* history of module OnboardingPasswords, whose password is in force.      *)
(***************************************************************************)
EXTENDS OnboardingPasswords, TLAPS

\* What a step does to the task of job j and to the row of user u, as the
\* invariants see it: others keep theirs, and no task changes its hire.
TaskMoves(j, pcs) ==
  /\ task' \in [Jobs -> Task]
  /\ \A i \in Jobs : /\ task'[i].user = task[i].user /\ task'[i].rot = task[i].rot
                     /\ task'[i].pc \in {task[i].pc} \cup pcs
  /\ \A i \in Jobs : i # j => task'[i].pc = task[i].pc
  /\ task'[j].pc \in pcs
RowBecomes(u, r) ==
  /\ rec' \in [Users -> Record]
  /\ \A v \in Users : v # u => rec'[v] = rec[v]
  /\ rec'[u] = r

\* Goto moves one task and nothing else.
LEMMA GotoMoves ==
  ASSUME task \in [Jobs -> Task], NEW j \in Jobs, NEW pc \in Pcs, Goto(j, pc)
  PROVE  TaskMoves(j, {pc})
<1> DEFINE t == [task[j] EXCEPT !.pc = pc, !.seen = Unloaded]
<1>1. Unloaded \in Loaded
  BY DEF Unloaded, Loaded
<1>2. t \in Task /\ t.pc = pc /\ t.user = task[j].user /\ t.rot = task[j].rot
  BY <1>1 DEF Task
<1>3. task' = [task EXCEPT ![j] = t]
  BY DEF Goto
<1> HIDE DEF t
<1> QED BY <1>2, <1>3 DEF TaskMoves

\* A task that loads its row moves on and keeps its hire.
LEMMA LoadMoves ==
  ASSUME rec \in [Users -> Record], task \in [Jobs -> Task], NEW j \in Jobs,
         NEW pc \in Pcs, task[j].user \in Users,
         task' = [task EXCEPT ![j].pc = pc, ![j].seen = Load(task[j].user)]
  PROVE  TaskMoves(j, {pc})
<1> DEFINE t == [task[j] EXCEPT !.pc = pc, !.seen = Load(task[j].user)]
<1>1. Load(task[j].user) \in Loaded
  BY DEF Load, Loaded, Record
<1>2. t \in Task /\ t.pc = pc /\ t.user = task[j].user /\ t.rot = task[j].rot
  BY <1>1 DEF Task
<1>3. task' = [task EXCEPT ![j] = t]
  OBVIOUS
<1> HIDE DEF t
<1> QED BY <1>2, <1>3 DEF TaskMoves

\* An UPDATE by primary key changes one row.
LEMMA RowUpdate ==
  ASSUME rec \in [Users -> Record], NEW u \in Users, NEW r \in Record,
         rec' = [rec EXCEPT ![u] = r]
  PROVE  RowBecomes(u, r)
BY DEF RowBecomes

\* A status write keeps the job and the external_id of its row.
LEMMA StatusUpdate ==
  ASSUME rec \in [Users -> Record], NEW u \in Users, NEW s \in JobStatus,
         rec' = [rec EXCEPT ![u].jstat = s]
  PROVE  \E r \in Record : /\ RowBecomes(u, r)
                           /\ r.job = rec[u].job /\ r.jstat = s /\ r.ext = rec[u].ext
<1> DEFINE r == [rec[u] EXCEPT !.jstat = s]
<1>1. r \in Record /\ r.job = rec[u].job /\ r.jstat = s /\ r.ext = rec[u].ext
  BY DEF Record
<1>2. rec' = [rec EXCEPT ![u] = r]
  OBVIOUS
<1> HIDE DEF r
<1> QED BY <1>1, <1>2, RowUpdate

\* What upsert_onboarding_record writes: the row carries a job of its hire,
\* never loses its status, and has an external_id exactly under LDAP.
LEMMA UpsertedRow ==
  ASSUME TypeOK, SentinelAssumption, NEW j \in Jobs, NEW s \in JobStatus,
         task[j].user \in Users, CanUpsert(j), JobsStayWithHires
  PROVE  LET u == task[j].user
             r == Upserted(j, s)
         IN /\ r \in Record
            /\ r.ext = (Provider = "ldap")
            /\ r.job \in Jobs /\ r.job \in {j, rec[u].job}
            /\ r.jstat # "none" /\ r.jstat \in {s, rec[u].jstat}
<1> DEFINE u == task[j].user
<1>1. rec[u] \in Record /\ task[j].seen \in Loaded
  BY DEF TypeOK, Task
<1>2. CASE task[j].seen = Unloaded
  BY <1>2 DEF Upserted, SyncedExt, Record, JobStatus
<1>3. CASE task[j].seen # Unloaded
  <2> DEFINE old == task[j].seen
             n == IF old.job = j THEN rec[u].job ELSE j
             t == IF old.jstat = s THEN rec[u].jstat ELSE s
             r == [rec[u] EXCEPT !.job = n, !.jstat = t, !.ext = (Provider = "ldap")]
  <2>1. rec[u].jstat # "none" /\ rec[u].job \in Jobs
    BY <1>3 DEF CanUpsert, HasRow, JobsStayWithHires
  <2>2. n \in Jobs /\ n \in {j, rec[u].job} /\ t \in {s, rec[u].jstat} /\ t # "none"
        /\ t \in JobStatus \cup {"none"}
    BY <2>1, <1>1 DEF Record, JobStatus
  <2> HIDE DEF n, t
  <2>3. r \in Record /\ r.job = n /\ r.jstat = t /\ r.ext = (Provider = "ldap")
    BY <2>2, <1>1 DEF Record
  <2>4. Upserted(j, s) = r
    BY <1>3 DEF Upserted, SyncedExt, n, t
  <2> QED BY <2>2, <2>3, <2>4
<1> QED BY <1>2, <1>3

\* What resume_onboarding_pipeline writes first.
LEMMA ClaimedRow ==
  ASSUME rec \in [Users -> Record], NEW j \in Jobs, task[j].user \in Users,
         ResumeClaim(j), HasRow(task[j].user)
  PROVE  \E r \in Record : /\ RowBecomes(task[j].user, r)
                           /\ r.job \in {j, rec[task[j].user].job}
                           /\ r.jstat \in {"AD_CREATING", rec[task[j].user].jstat}
                           /\ r.ext = rec[task[j].user].ext
<1> DEFINE u == task[j].user
           n == IF task[j].seen.job = j THEN rec[u].job ELSE j
           t == IF task[j].seen.jstat = "AD_CREATING" THEN rec[u].jstat ELSE "AD_CREATING"
           r == [rec[u] EXCEPT !.job = n, !.jstat = t]
<1>1. n \in Jobs \cup {NoJob} /\ t \in JobStatus \cup {"none"}
  BY DEF Record, JobStatus
<1>2. n \in {j, rec[u].job} /\ t \in {"AD_CREATING", rec[u].jstat}
  OBVIOUS
<1>3. rec' = [rec EXCEPT ![u] = r]
  BY DEF ResumeClaim
<1> HIDE DEF n, t
<1>4. r \in Record /\ r.job = n /\ r.jstat = t /\ r.ext = rec[u].ext
  BY <1>1, ZenonT(40) DEF Record
<1> HIDE DEF r
<1> QED BY <1>2, <1>3, <1>4, RowUpdate

\* Offboarding keeps job, status and external_id.
LEMMA OffboardedRow ==
  ASSUME rec \in [Users -> Record], NEW u \in Users,
         rec' = [rec EXCEPT ![u].st = "offboarded"]
  PROVE  \E r \in Record : /\ RowBecomes(u, r)
                           /\ r.job = rec[u].job /\ r.jstat = rec[u].jstat
                           /\ r.ext = rec[u].ext
<1> DEFINE r == [rec[u] EXCEPT !.st = "offboarded"]
<1>1. r \in Record /\ r.job = rec[u].job /\ r.jstat = rec[u].jstat /\ r.ext = rec[u].ext
  BY DEF Record
<1>2. rec' = [rec EXCEPT ![u] = r]
  OBVIOUS
<1> HIDE DEF r
<1> QED BY <1>1, <1>2, RowUpdate

\* The sweeper resolves rows in progress and leaves the rest alone.
LEMMA SweptRows ==
  ASSUME rec \in [Users -> Record], Sweep
  PROVE  /\ UNCHANGED <<emailOf, task, writes, wf, net, audit>>
         /\ rec' \in [Users -> Record]
         /\ \A u \in Users : /\ rec'[u].job = rec[u].job /\ rec'[u].ext = rec[u].ext
                             /\ rec'[u].jstat = rec[u].jstat
                                \/ /\ rec[u].jstat \in StaleStatuses
                                   /\ rec'[u].jstat = Resolved(u)
<1>1. ASSUME NEW u \in Users
      PROVE  LET r == [rec[u] EXCEPT !.jstat = Resolved(u)]
             IN /\ r \in Record /\ r.job = rec[u].job /\ r.ext = rec[u].ext
                /\ r.jstat = Resolved(u)
  BY DEF Record, Resolved, JobStatus
<1> QED BY <1>1, ZenonT(40) DEF Sweep, Stale

\* A rollback or offboard handler goes on to its commit, or answers.
LEMMA Responds ==
  ASSUME req \in [Requests -> Request], NEW q \in Requests, Proceed(q) \/ Respond(q)
  PROVE  /\ req' \in [Requests -> Request]
         /\ req'[q].user \in {req[q].user, Nobody}
         /\ \A p \in Requests : p # q => req'[p] = req[p]
<1>1. [req[q] EXCEPT !.pc = "commit"] \in Request
  BY DEF Request
<1>2. NoRequest \in Request /\ NoRequest.user = Nobody
  BY DEF Request, NoRequest
<1>3. [req[q] EXCEPT !.pc = "commit"].user = req[q].user
  BY DEF Request
<1>4. CASE Proceed(q)
  <2>1. req' = [req EXCEPT ![q] = [req[q] EXCEPT !.pc = "commit"]]
    BY <1>4 DEF Proceed
  <2> QED BY <1>1, <1>3, <2>1
<1>5. CASE Respond(q)
  BY <1>2, <1>5 DEF Respond
<1> QED BY <1>4, <1>5

\* A request takes a free place for a hire with a row.
LEMMA Accepted ==
  ASSUME req \in [Requests -> Request], NEW q \in Requests, NEW u \in Users,
         RollbackRead(q, u) \/ OffboardRead(q, u)
  PROVE  /\ req' \in [Requests -> Request] /\ req'[q].user = u /\ HasRow(u)
         /\ \A p \in Requests : p # q => req'[p] = req[p]
<1>1. /\ [op |-> "rollback", user |-> u, pc |-> "directory"] \in Request
      /\ [op |-> "rollback", user |-> u, pc |-> "commit"] \in Request
      /\ [op |-> "offboard", user |-> u, pc |-> "directory"] \in Request
  BY DEF Request
<1> QED BY <1>1 DEF RollbackRead, OffboardRead, Accept

\* A started status update has a row or nothing to write.
LEMMA StartUpdateType ==
  ASSUME writes \in [Jobs -> [Reported -> Users \cup {Nobody}]],
         NEW j \in Jobs, NEW s \in Reported, StartUpdate(j, s) \/ UNCHANGED writes
  PROVE  writes' \in [Jobs -> [Reported -> Users \cup {Nobody}]]
BY DEF StartUpdate

\* Types of the records that several actions build.
LEMMA SmallTypes ==
  /\ \A e \in Entry, j \in Jobs : [e EXCEPT !.pw = j] \in Entry
  /\ \A t \in Task : LET n == [t EXCEPT !.pc = "done", !.seen = Unloaded]
                     IN n \in Task /\ n.pc = "done" /\ n.user = t.user /\ n.rot = t.rot
  /\ NoRecord \in Record
<1>1. Unloaded \in Loaded
  BY DEF Unloaded, Loaded
<1>2. \A e \in Entry, j \in Jobs : [e EXCEPT !.pw = j] \in Entry
  BY DEF Entry
<1>3. ASSUME NEW t \in Task
      PROVE  LET n == [t EXCEPT !.pc = "done", !.seen = Unloaded]
             IN n \in Task /\ n.pc = "done" /\ n.user = t.user /\ n.rot = t.rot
  BY <1>1 DEF Task, Pcs
<1>4. NoRecord \in Record
  BY DEF NoRecord, Record
<1> QED BY <1>2, <1>3, <1>4

\* Setting a password keeps the directory's type.
LEMMA PasswordType ==
  ASSUME dir \in [Uids -> Entry], NEW d, NEW j \in Jobs
  PROVE  [dir EXCEPT ![d].pw = j] \in [Uids -> Entry]
<1>1. ASSUME d \in Uids PROVE [dir[d] EXCEPT !.pw = j] \in Entry
  BY <1>1, SmallTypes
<1> QED BY <1>1

\* Every step keeps the types.
LEMMA TypeStep ==
  ASSUME TypeOK, TasksHaveHires, JobsStayWithHires, [Next]_vars
  PROVE  TypeOK'
<1>1. ASSUME NEW u \in Users, NEW e \in Emails, NEW j \in Jobs, Onboard(u, e, j)
      PROVE  TypeOK'
  <2>1. [job |-> j, jstat |-> "PENDING", ext |-> FALSE, st |-> "active"] \in Record
    BY DEF Record, JobStatus
  <2>2. [NoTask EXCEPT !.pc = "start", !.user = u] \in Task
    BY DEF Task, NoTask, Unloaded, Loaded, Pcs
  <2>3. [task[j] EXCEPT !.pc = "done"] \in Task
    BY ZenonT(40) DEF Task, TypeOK, Pcs
  <2> QED BY <1>1, <2>1, <2>2, <2>3 DEF TypeOK, Onboard
<1>2. ASSUME NEW u \in Users, NEW j \in Jobs, NEW rot \in BOOLEAN, Retry(u, j, rot)
      PROVE  TypeOK'
  <2>1. [rec[u] EXCEPT !.job = j, !.jstat = "PENDING"] \in Record
    BY ZenonT(40) DEF Record, JobStatus, TypeOK
  <2>2. rec' = [rec EXCEPT ![u] = [rec[u] EXCEPT !.job = j, !.jstat = "PENDING"]]
    BY <1>2 DEF Retry
  <2>3. rec' \in [Users -> Record]
    BY <2>1, <2>2 DEF TypeOK
  <2>4. /\ [NoTask EXCEPT !.pc = "start", !.user = u] \in Task
        /\ [NoTask EXCEPT !.pc = "rload", !.kind = "resume", !.user = u, !.rot = rot] \in Task
    BY DEF Task, NoTask, Unloaded, Loaded, Pcs
  <2>5. task' \in [Jobs -> Task]
    BY <1>2, <2>4 DEF TypeOK, Retry
  <2> QED BY <1>2, <2>3, <2>5 DEF TypeOK, Retry
<1>3. ASSUME NEW q \in Requests, NEW u \in Users, RollbackRead(q, u) PROVE TypeOK'
  BY <1>3, Accepted DEF TypeOK, RollbackRead
<1>4. ASSUME NEW q \in Requests, NEW u \in Users, OffboardRead(q, u) PROVE TypeOK'
  BY <1>4, Accepted DEF TypeOK, OffboardRead
<1>5. ASSUME NEW j \in Jobs, Start(j) PROVE TypeOK'
  BY <1>5, GotoMoves DEF TypeOK, Start, TaskMoves, Pcs
<1>6. ASSUME NEW j \in Jobs, Create(j) PROVE TypeOK'
  <2>1. task' \in [Jobs -> Task]
    BY <1>6, GotoMoves DEF TypeOK, Create, CreateLdap, CreateLocal, TaskMoves, Pcs
  <2>2. ASSUME NEW u \in Users \cup {Nobody} PROVE [NoEntry EXCEPT !.emp = u] \in Entry
    BY DEF NoEntry, Entry
  <2>3. task[j].user \in Users \cup {Nobody}
    BY DEF TypeOK, Task
  <2>4. dir' \in [Uids -> Entry]
    BY <1>6, <2>2, <2>3 DEF TypeOK, Create, CreateLdap, CreateLocal
  <2> QED BY <1>6, <2>1, <2>4 DEF TypeOK, Create
<1>7. ASSUME NEW j \in Jobs, LoadRow(j, "load1", "store1") PROVE TypeOK'
  BY <1>7, LoadMoves DEF TypeOK, LoadRow, TaskMoves, Pcs, TasksHaveHires, Ended
<1>8. ASSUME NEW j \in Jobs, SaveAccount(j) PROVE TypeOK'
  <2>1. task' \in [Jobs -> Task]
    BY <1>8, GotoMoves DEF TypeOK, SaveAccount, TaskMoves, Pcs
  <2>2. task[j].user \in Users
    BY <1>8 DEF SaveAccount, TasksHaveHires, Ended
  <2>3. rec' \in [Users -> Record]
    BY <1>8, <2>2, UpsertedRow, SentinelAssumption DEF TypeOK, SaveAccount, JobStatus
  <2> QED BY <1>8, <2>1, <2>2, <2>3 DEF TypeOK, SaveAccount
<1>9. ASSUME NEW j \in Jobs, SetPassword(j) PROVE TypeOK'
  <2>1. task' \in [Jobs -> Task]
    BY <1>9, GotoMoves DEF TypeOK, SetPassword, TaskMoves, Pcs
  <2>2. dir' \in [Uids -> Entry]
    <3> DEFINE d == Uid[emailOf[task[j].user]]
    <3>1. dir' = dir \/ dir' = [dir EXCEPT ![d].pw = j]
      BY <1>9 DEF SetPassword
    <3> HIDE DEF d
    <3>2. dir \in [Uids -> Entry]
      BY DEF TypeOK
    <3>3. [dir EXCEPT ![d].pw = j] \in [Uids -> Entry]
      BY <3>2, PasswordType, Zenon
    <3> QED BY <3>1, <3>2, <3>3
  <2> QED BY <1>9, <2>1, <2>2 DEF TypeOK, SetPassword
<1>10. ASSUME NEW j \in Jobs, LoadRow(j, "load2", "store2") PROVE TypeOK'
  BY <1>10, LoadMoves DEF TypeOK, LoadRow, TaskMoves, Pcs, TasksHaveHires, Ended
<1>11. ASSUME NEW j \in Jobs, Announce(j) PROVE TypeOK'
  <2>1. task' \in [Jobs -> Task]
    BY <1>11, GotoMoves DEF TypeOK, Announce, TaskMoves, Pcs
  <2>2. task[j].user \in Users
    BY <1>11 DEF Announce, TasksHaveHires, Ended
  <2>3. rec' \in [Users -> Record]
    BY <1>11, <2>2, UpsertedRow, SentinelAssumption DEF TypeOK, Announce, JobStatus
  <2> QED BY <1>11, <2>1, <2>2, <2>3 DEF TypeOK, Announce
<1>12. ASSUME NEW j \in Jobs, ResumeLoad(j) PROVE TypeOK'
  BY <1>12, LoadMoves, GotoMoves DEF TypeOK, ResumeLoad, TaskMoves, Pcs, TasksHaveHires, Ended
<1>13. ASSUME NEW j \in Jobs, ResumeClaim(j) PROVE TypeOK'
  <2>1. task' \in [Jobs -> Task]
    BY <1>13, GotoMoves DEF TypeOK, ResumeClaim, TaskMoves, Pcs
  <2>2. rec' \in [Users -> Record]
    BY <1>13, ClaimedRow DEF TypeOK, ResumeClaim, RowBecomes, TasksHaveHires, Ended
  <2> QED BY <1>13, <2>1, <2>2 DEF TypeOK, ResumeClaim
<1>14. ASSUME NEW j \in Jobs, ResumeAnnounce(j) PROVE TypeOK'
  <2>1. task' \in [Jobs -> Task]
    BY <1>14, GotoMoves DEF TypeOK, ResumeAnnounce, TaskMoves, Pcs
  <2>2. rec' \in [Users -> Record]
    BY <1>14, StatusUpdate DEF TypeOK, ResumeAnnounce, RowBecomes,
       TasksHaveHires, Ended, JobStatus
  <2> QED BY <1>14, <2>1, <2>2 DEF TypeOK, ResumeAnnounce
<1>15. ASSUME NEW j \in Jobs, Dispatch(j) PROVE TypeOK'
  BY <1>15, GotoMoves DEF TypeOK, Dispatch, TaskMoves, Pcs, Workflow
<1>16. ASSUME NEW j \in Jobs, NotDispatched(j) PROVE TypeOK'
  <2>1. writes' \in [Jobs -> [Reported -> Users \cup {Nobody}]]
    BY <1>16, StartUpdateType DEF TypeOK, NotDispatched, Reported, CallbackStatus
  <2> QED BY <1>16, <2>1, GotoMoves DEF TypeOK, NotDispatched, TaskMoves, Pcs
<1>17. ASSUME NEW j \in Jobs, Raise(j) PROVE TypeOK'
  BY <1>17, GotoMoves DEF TypeOK, Raise, TaskMoves, Pcs
<1>18. ASSUME NEW j \in Jobs, MarkFailed(j) PROVE TypeOK'
  <2>1. writes' \in [Jobs -> [Reported -> Users \cup {Nobody}]]
    BY <1>18, StartUpdateType DEF TypeOK, MarkFailed, Reported, CallbackStatus
  <2> QED BY <1>18, <2>1, GotoMoves DEF TypeOK, MarkFailed, TaskMoves, Pcs
<1>19. ASSUME NEW j \in Jobs, N8nMail(j) PROVE TypeOK'
  BY <1>19, BoundAssumption DEF TypeOK, N8nMail, N8nStep, Send, Workflow, CallbackStatus
<1>20. ASSUME NEW j \in Jobs, N8nIssue(j) PROVE TypeOK'
  BY <1>20, BoundAssumption DEF TypeOK, N8nIssue, N8nStep, Send, Workflow, CallbackStatus
<1>21. ASSUME NEW j \in Jobs, N8nError(j) PROVE TypeOK'
  BY <1>21, BoundAssumption DEF TypeOK, N8nError, N8nStep, Send, Workflow, CallbackStatus
<1>22. ASSUME NEW j \in Jobs, N8nDies(j) PROVE TypeOK'
  BY <1>22 DEF TypeOK, N8nDies, Workflow
<1>23. ASSUME NEW j \in Jobs, NEW s \in CallbackStatus, ReportJobStatus(j, s)
       PROVE  TypeOK'
  <2>1. writes' \in [Jobs -> [Reported -> Users \cup {Nobody}]]
    BY <1>23, StartUpdateType DEF TypeOK, ReportJobStatus, Reported
  <2>2. net' \in [Jobs -> [CallbackStatus -> 0..MaxCopies]]
    BY <1>23, BoundAssumption DEF TypeOK, ReportJobStatus
  <2>3. wf' \in [Jobs -> Workflow]
    BY <1>23 DEF TypeOK, ReportJobStatus, Answer, Workflow
  <2> QED BY <1>23, <2>1, <2>2, <2>3 DEF TypeOK, ReportJobStatus
<1>24. ASSUME NEW j \in Jobs, NEW s \in Reported, CommitStatus(j, s) PROVE TypeOK'
  <2>1. task' \in [Jobs -> Task]
    BY <1>24, GotoMoves DEF TypeOK, CommitStatus, TaskMoves, Pcs
  <2>2. rec' \in [Users -> Record]
    BY <1>24, StatusUpdate DEF TypeOK, CommitStatus, RowBecomes, Reported,
       CallbackStatus, JobStatus
  <2>3. writes' \in [Jobs -> [Reported -> Users \cup {Nobody}]] /\ wf' \in [Jobs -> Workflow]
    BY <1>24 DEF TypeOK, CommitStatus, Answer, Workflow
  <2> QED BY <1>24, <2>1, <2>2, <2>3 DEF TypeOK, CommitStatus
<1>25. ASSUME NEW q \in Requests, NEW u \in Users, RollbackDirectory(q, u) PROVE TypeOK'
  <2>1. dir' \in [Uids -> Entry]
    BY <1>25 DEF TypeOK, RollbackDirectory, NoEntry, Entry
  <2>2. req' \in [Requests -> Request]
    BY <1>25, Responds DEF TypeOK, RollbackDirectory
  <2> QED BY <1>25, <2>1, <2>2 DEF TypeOK, RollbackDirectory
<1>26. ASSUME NEW q \in Requests, NEW u \in Users, RollbackCommit(q, u) PROVE TypeOK'
  <2>1. rec' \in [Users -> Record]
    BY <1>26, SmallTypes DEF TypeOK, RollbackCommit
  <2>2. req' \in [Requests -> Request]
    BY <1>26, Responds DEF TypeOK, RollbackCommit
  <2> QED BY <1>26, <2>1, <2>2 DEF TypeOK, RollbackCommit
<1>27. ASSUME NEW q \in Requests, NEW u \in Users, OffboardDirectory(q, u) PROVE TypeOK'
  <2>1. dir' \in [Uids -> Entry]
    <3>1. ASSUME NEW d \in Uids PROVE [dir[d] EXCEPT !.st = "offboarded"] \in Entry
      BY DEF TypeOK, Entry
    <3> QED BY <1>27, <3>1 DEF TypeOK, OffboardDirectory
  <2>2. req' \in [Requests -> Request]
    BY <1>27, Responds DEF TypeOK, OffboardDirectory
  <2> QED BY <1>27, <2>1, <2>2 DEF TypeOK, OffboardDirectory
<1>28. ASSUME NEW q \in Requests, NEW u \in Users, OffboardCommit(q, u) PROVE TypeOK'
  <2>1. rec' \in [Users -> Record]
    BY <1>28, OffboardedRow DEF TypeOK, OffboardCommit, RowBecomes
  <2>2. req' \in [Requests -> Request]
    BY <1>28, Responds DEF TypeOK, OffboardCommit
  <2> QED BY <1>28, <2>1, <2>2 DEF TypeOK, OffboardCommit
<1>29. ASSUME Sweep PROVE TypeOK'
  BY <1>29, SweptRows DEF TypeOK, Sweep
<1>30. ASSUME Crash PROVE TypeOK'
  <2>1. task' \in [Jobs -> Task]
    BY <1>30, SmallTypes DEF TypeOK, Crash
  <2>2. writes' \in [Jobs -> [Reported -> Users \cup {Nobody}]]
    BY <1>30 DEF Crash, NoWrites
  <2>3. req' \in [Requests -> Request]
    BY <1>30 DEF Crash, NoRequest, Request
  <2>4. crashes' \in 0..MaxCrashes
    <3>1. crashes \in 0..MaxCrashes
      BY DEF TypeOK
    <3>2. crashes < MaxCrashes /\ crashes' = crashes + 1
      BY <1>30 DEF Crash
    <3> QED BY <3>1, <3>2, BoundAssumption
  <2> QED BY <1>30, <2>1, <2>2, <2>3, <2>4 DEF TypeOK, Crash
<1>31. ASSUME NEW q \in Requests, NEW u \in Users, RequestRaises(q, u) PROVE TypeOK'
  BY <1>31, Responds DEF TypeOK, RequestRaises
<1>32. ASSUME UNCHANGED vars PROVE TypeOK'
  BY <1>32 DEF TypeOK, vars
<1> QED
  BY <1>1, <1>2, <1>3, <1>4, <1>5, <1>6, <1>7, <1>8, <1>9, <1>10, <1>11, <1>12,
     <1>13, <1>14, <1>15, <1>16, <1>17, <1>18, <1>19, <1>20, <1>21, <1>22,
     <1>23, <1>24, <1>25, <1>26, <1>27, <1>28, <1>29, <1>30, <1>31,
     <1>32 DEF Next, Admin, Pipeline, N8n, Handler

-----------------------------------------------------------------------------
(***************************************************************************)
(* The effect of each action that writes rows, in terms of TaskMoves and   *)
(* RowBecomes.                                                             *)
(***************************************************************************)
Upsert(j, statuses) ==
  \E r \in Record :
    /\ RowBecomes(task[j].user, r)
    /\ r.ext = (Provider = "ldap")
    /\ r.job \in Jobs /\ r.job \in {j, rec[task[j].user].job}
    /\ r.jstat # "none" /\ r.jstat \in statuses \cup {rec[task[j].user].jstat}

\* The first upsert saves external_id or fails the task.
LEMMA SaveAccountEffect ==
  ASSUME TypeOK, TasksHaveHires, JobsStayWithHires, NEW j \in Jobs, SaveAccount(j)
  PROVE  /\ task[j].user \in Users /\ task[j].pc = "store1"
         /\ UNCHANGED <<emailOf, writes, wf, net, audit>>
         /\ \/ TaskMoves(j, {"fail"}) /\ rec' = rec
            \/ TaskMoves(j, {"setpw"}) /\ Upsert(j, {"AD_CREATING"})
<1>1. task[j].user \in Users
  BY DEF SaveAccount, TasksHaveHires, Ended
<1>4. /\ task[j].pc = "store1"
      /\ UNCHANGED <<emailOf, writes, wf, net, audit>>
  BY DEF SaveAccount
<1>2. CASE ~ CanUpsert(j)
  BY <1>1, <1>2, GotoMoves DEF SaveAccount, TypeOK, Pcs
<1>3. CASE CanUpsert(j)
  <2> DEFINE r == Upserted(j, "AD_CREATING")
  <2>1. TaskMoves(j, {"setpw"})
    BY <1>3, GotoMoves DEF SaveAccount, TypeOK, Pcs
  <2>2. /\ r \in Record /\ r.ext = (Provider = "ldap")
        /\ r.job \in Jobs /\ r.job \in {j, rec[task[j].user].job}
        /\ r.jstat # "none" /\ r.jstat \in {"AD_CREATING", rec[task[j].user].jstat}
    BY <1>1, <1>3, UpsertedRow, SentinelAssumption DEF JobStatus
  <2>3. rec' = [rec EXCEPT ![task[j].user] = r] /\ rec \in [Users -> Record]
    BY <1>3 DEF SaveAccount, TypeOK
  <2> HIDE DEF r
  <2>4. RowBecomes(task[j].user, r)
    BY <1>1, <2>2, <2>3, RowUpdate
  <2> QED BY <1>1, <1>4, <2>1, <2>2, <2>4 DEF Upsert
<1> QED BY <1>1, <1>2, <1>3 DEF SaveAccount

\* The second upsert commits, is rolled back with its audit entry, or fails.
LEMMA AnnounceEffect ==
  ASSUME TypeOK, TasksHaveHires, JobsStayWithHires, NEW j \in Jobs, Announce(j)
  PROVE  /\ task[j].user \in Users /\ task[j].pc = "store2"
         /\ UNCHANGED <<emailOf, writes, wf, net, audit>>
         /\ \/ TaskMoves(j, {"fail"}) /\ rec' = rec
            \/ TaskMoves(j, {"dispatch"}) /\ rec' = rec
            \/ TaskMoves(j, {"dispatch"}) /\ Upsert(j, {"EMAIL_SENDING"})
<1>1. task[j].user \in Users
  BY DEF Announce, TasksHaveHires, Ended
<1>4. /\ task[j].pc = "store2"
      /\ UNCHANGED <<emailOf, writes, wf, net, audit>>
  BY DEF Announce
<1>2. CASE ~ CanUpsert(j)
  BY <1>1, <1>2, GotoMoves DEF Announce, TypeOK, Pcs
<1>3. CASE CanUpsert(j)
  <2> DEFINE r == Upserted(j, "EMAIL_SENDING")
  <2>1. TaskMoves(j, {"dispatch"})
    BY <1>3, GotoMoves DEF Announce, TypeOK, Pcs
  <2>2. /\ r \in Record /\ r.ext = (Provider = "ldap")
        /\ r.job \in Jobs /\ r.job \in {j, rec[task[j].user].job}
        /\ r.jstat # "none" /\ r.jstat \in {"EMAIL_SENDING", rec[task[j].user].jstat}
    BY <1>1, <1>3, UpsertedRow, SentinelAssumption DEF JobStatus
  <2>3. /\ rec' = rec \/ rec' = [rec EXCEPT ![task[j].user] = r]
        /\ rec \in [Users -> Record]
    BY <1>3 DEF Announce, TypeOK
  <2> HIDE DEF r
  <2>4. rec' = rec \/ RowBecomes(task[j].user, r)
    BY <1>1, <2>2, <2>3, RowUpdate
  <2> QED BY <1>1, <1>4, <2>1, <2>2, <2>4 DEF Upsert
<1> QED BY <1>1, <1>2, <1>3 DEF Announce

\* A resumed task claims a row that exists, or fails.
LEMMA ResumeClaimEffect ==
  ASSUME TypeOK, TasksHaveHires, NEW j \in Jobs, ResumeClaim(j)
  PROVE  /\ task[j].user \in Users /\ task[j].pc = "rstore1"
         /\ UNCHANGED <<emailOf, writes, wf, net, audit>>
         /\ \/ TaskMoves(j, {"fail"}) /\ rec' = rec
            \/ /\ HasRow(task[j].user)
               /\ TaskMoves(j, {"setpw", "rstore2"})
               /\ \E r \in Record : /\ RowBecomes(task[j].user, r)
                                    /\ r.job \in {j, rec[task[j].user].job}
                                    /\ r.jstat \in {"AD_CREATING", rec[task[j].user].jstat}
                                    /\ r.ext = rec[task[j].user].ext
<1>1. task[j].user \in Users /\ rec \in [Users -> Record] /\ task \in [Jobs -> Task]
  BY DEF ResumeClaim, TasksHaveHires, Ended, TypeOK
<1>4. /\ task[j].pc = "rstore1"
      /\ UNCHANGED <<emailOf, writes, wf, net, audit>>
  BY DEF ResumeClaim
<1>2. CASE ~ HasRow(task[j].user)
  BY <1>1, <1>2, GotoMoves DEF ResumeClaim, Pcs
<1>3. CASE HasRow(task[j].user)
  <2>1. TaskMoves(j, {"setpw"}) \/ TaskMoves(j, {"rstore2"})
    BY <1>1, <1>3, GotoMoves DEF ResumeClaim, Pcs
  <2>2. TaskMoves(j, {"setpw", "rstore2"})
    BY <2>1 DEF TaskMoves
  <2> QED BY <1>1, <1>4, <1>3, <2>2, ClaimedRow
<1> QED BY <1>1, <1>2, <1>3 DEF ResumeClaim

\* A resumed task announces the mail on a row that exists, or fails.
LEMMA ResumeAnnounceEffect ==
  ASSUME TypeOK, TasksHaveHires, NEW j \in Jobs, ResumeAnnounce(j)
  PROVE  /\ task[j].user \in Users /\ task[j].pc = "rstore2"
         /\ UNCHANGED <<emailOf, writes, wf, net, audit>>
         /\ \/ TaskMoves(j, {"fail"}) /\ rec' = rec
            \/ /\ HasRow(task[j].user)
               /\ TaskMoves(j, {"dispatch"})
               /\ \E r \in Record : /\ RowBecomes(task[j].user, r)
                                    /\ r.job = rec[task[j].user].job
                                    /\ r.jstat = "EMAIL_SENDING"
                                    /\ r.ext = rec[task[j].user].ext
<1>1. task[j].user \in Users /\ rec \in [Users -> Record] /\ task \in [Jobs -> Task]
  BY DEF ResumeAnnounce, TasksHaveHires, Ended, TypeOK
<1>2. CASE ~ HasRow(task[j].user)
  BY <1>1, <1>2, GotoMoves DEF ResumeAnnounce, Pcs
<1>3. CASE HasRow(task[j].user)
  <2>1. TaskMoves(j, {"dispatch"})
    BY <1>1, <1>3, GotoMoves DEF ResumeAnnounce, Pcs
  <2> QED BY <1>1, <1>3, <2>1, StatusUpdate DEF ResumeAnnounce, JobStatus
<1> QED BY <1>1, <1>2, <1>3 DEF ResumeAnnounce

\* A status update commits its status on its own row, or is dropped.
LEMMA CommitStatusEffect ==
  ASSUME TypeOK, NEW j \in Jobs, NEW s \in Reported, CommitStatus(j, s)
  PROVE  LET u == writes[j][s]
         IN /\ u \in Users /\ UNCHANGED <<emailOf, net, audit>>
            /\ \A i \in Jobs : wf'[i] = wf[i] \/ (wf[i] = "mailed" /\ wf'[i] = "jira")
            /\ \/ rec' = rec
               \/ /\ HasRow(u)
                  /\ \E r \in Record : /\ RowBecomes(u, r)
                                       /\ r.job = rec[u].job /\ r.jstat = s
                                       /\ r.ext = rec[u].ext
            /\ \/ task' = task
               \/ s = "PARTIALLY_COMPLETE" /\ TaskMoves(j, {"done", "fail"})
            /\ writes' \in [Jobs -> [Reported -> Users \cup {Nobody}]]
            /\ \A i \in Jobs, t \in Reported :
                 writes'[i][t] = IF i = j /\ t = s THEN Nobody ELSE writes[i][t]
<1> DEFINE u == writes[j][s]
<1>1. u \in Users /\ rec \in [Users -> Record] /\ task \in [Jobs -> Task]
  BY DEF CommitStatus, TypeOK
<1>2. \/ task' = task
      \/ s = "PARTIALLY_COMPLETE" /\ (Goto(j, "done") \/ Goto(j, "fail"))
  BY DEF CommitStatus
<1>3. \/ task' = task
      \/ s = "PARTIALLY_COMPLETE" /\ TaskMoves(j, {"done", "fail"})
  <2>1. TaskMoves(j, {"done"}) => TaskMoves(j, {"done", "fail"})
    BY DEF TaskMoves
  <2>2. TaskMoves(j, {"fail"}) => TaskMoves(j, {"done", "fail"})
    BY DEF TaskMoves
  <2> QED BY <1>1, <1>2, <2>1, <2>2, GotoMoves DEF Pcs
<1>4. s \in JobStatus
  BY DEF Reported, CallbackStatus, JobStatus
<1>5. \/ rec' = rec
      \/ HasRow(u) /\ rec' = [rec EXCEPT ![u].jstat = s]
  BY DEF CommitStatus
<1>6. writes' = [writes EXCEPT ![j][s] = Nobody]
  BY DEF CommitStatus
<1>7. /\ writes' \in [Jobs -> [Reported -> Users \cup {Nobody}]]
      /\ \A i \in Jobs, t \in Reported :
           writes'[i][t] = IF i = j /\ t = s THEN Nobody ELSE writes[i][t]
  BY <1>6 DEF TypeOK
<1>8. /\ UNCHANGED <<emailOf, net, audit>>
      /\ \A i \in Jobs : wf'[i] = wf[i] \/ (wf[i] = "mailed" /\ wf'[i] = "jira")
  BY DEF CommitStatus, Answer, TypeOK
<1> HIDE DEF u
<1> QED BY <1>1, <1>3, <1>4, <1>5, <1>7, <1>8, StatusUpdate DEF u

\* A request inserts a PENDING row for a new hire, or answers 409.
LEMMA OnboardEffect ==
  ASSUME TypeOK, NEW u \in Users, NEW e \in Emails, NEW j \in Jobs, Onboard(u, e, j)
  PROVE  /\ task' \in [Jobs -> Task] /\ task[j].pc = "none" /\ emailOf[u] = NoEmail
         /\ UNCHANGED <<writes, wf, net, audit>>
         /\ \A i \in Jobs : i # j => task'[i] = task[i]
         /\ \/ /\ rec' = rec /\ emailOf' = emailOf
               /\ task'[j].pc = "done" /\ task'[j].user = task[j].user
            \/ /\ emailOf' = [emailOf EXCEPT ![u] = e]
               /\ task'[j].pc = "start" /\ task'[j].user = u
               /\ \E r \in Record : /\ RowBecomes(u, r)
                                    /\ r.job = j /\ r.jstat = "PENDING" /\ ~ r.ext
<1> DEFINE r == [job |-> j, jstat |-> "PENDING", ext |-> FALSE, st |-> "active"]
           t1 == [NoTask EXCEPT !.pc = "start", !.user = u]
           t2 == [task[j] EXCEPT !.pc = "done"]
<1>1. r \in Record /\ r.job = j /\ r.jstat = "PENDING" /\ ~ r.ext
  BY DEF Record, JobStatus
<1>2. t1 \in Task /\ t1.pc = "start" /\ t1.user = u
  BY DEF NoTask, Task, Unloaded, Loaded, Pcs
<1>3. t2 \in Task /\ t2.pc = "done" /\ t2.user = task[j].user
  BY DEF TypeOK, Task, Pcs
<1>4. \/ rec' = rec /\ emailOf' = emailOf /\ task' = [task EXCEPT ![j] = t2]
      \/ /\ rec' = [rec EXCEPT ![u] = r] /\ emailOf' = [emailOf EXCEPT ![u] = e]
         /\ task' = [task EXCEPT ![j] = t1]
  BY DEF Onboard
<1>5. rec \in [Users -> Record] /\ task \in [Jobs -> Task]
  BY DEF TypeOK
<1>6. /\ task[j].pc = "none" /\ emailOf[u] = NoEmail
      /\ UNCHANGED <<writes, wf, net, audit>>
  BY DEF Onboard, Fresh
<1> HIDE DEF r, t1, t2
<1> QED BY <1>1, <1>2, <1>3, <1>4, <1>5, <1>6, RowUpdate

\* A retry hands the hire's row to a new job.
LEMMA RetryEffect ==
  ASSUME TypeOK, NEW u \in Users, NEW j \in Jobs, NEW rot \in BOOLEAN, Retry(u, j, rot)
  PROVE  /\ task' \in [Jobs -> Task] /\ task[j].pc = "none" /\ HasRow(u)
         /\ UNCHANGED <<emailOf, writes, wf, net, audit>>
         /\ \A i \in Jobs : i # j => task'[i] = task[i]
         /\ task'[j].user = u
         /\ task'[j].pc = IF rec[u].ext THEN "rload" ELSE "start"
         /\ \E r \in Record : /\ RowBecomes(u, r)
                              /\ r.job = j /\ r.jstat = "PENDING" /\ r.ext = rec[u].ext
<1> DEFINE r == [rec[u] EXCEPT !.job = j, !.jstat = "PENDING"]
           t == IF rec[u].ext
                THEN [NoTask EXCEPT !.pc = "rload", !.kind = "resume",
                                    !.user = u, !.rot = rot]
                ELSE [NoTask EXCEPT !.pc = "start", !.user = u]
<1>1. r \in Record /\ r.job = j /\ r.jstat = "PENDING" /\ r.ext = rec[u].ext
  BY DEF TypeOK, Record, JobStatus
<1>2. t \in Task /\ t.user = u /\ t.pc = IF rec[u].ext THEN "rload" ELSE "start"
  BY DEF NoTask, Task, Unloaded, Loaded, Pcs
<1>3. rec' = [rec EXCEPT ![u] = r] /\ task' = [task EXCEPT ![j] = t]
  BY DEF Retry
<1>4. rec \in [Users -> Record] /\ task \in [Jobs -> Task]
  BY DEF TypeOK
<1>5. /\ task[j].pc = "none" /\ HasRow(u)
      /\ UNCHANGED <<emailOf, writes, wf, net, audit>>
  BY DEF Retry, Fresh
<1> HIDE DEF r, t
<1> QED BY <1>1, <1>2, <1>3, <1>4, <1>5, RowUpdate

\* A rollback removes the row together with its audit entry, or neither.
LEMMA RollbackCommitEffect ==
  ASSUME TypeOK, NEW q \in Requests, NEW u \in Users, RollbackCommit(q, u)
  PROVE  /\ UNCHANGED <<emailOf, task, writes, wf, net>>
         /\ \/ rec' = rec /\ audit' = audit
            \/ RowBecomes(u, NoRecord) /\ audit' = audit \cup {u}
<1>1. rec \in [Users -> Record] /\ NoRecord \in Record
  BY SmallTypes DEF TypeOK
<1> QED BY <1>1, RowUpdate DEF RollbackCommit

\* Offboarding touches neither job nor status.
LEMMA OffboardCommitEffect ==
  ASSUME TypeOK, NEW q \in Requests, NEW u \in Users, OffboardCommit(q, u)
  PROVE  /\ UNCHANGED <<emailOf, task, writes, wf, net, audit>>
         /\ \/ rec' = rec
            \/ \E r \in Record : /\ RowBecomes(u, r)
                                 /\ r.job = rec[u].job /\ r.jstat = rec[u].jstat
                                 /\ r.ext = rec[u].ext
<1>1. rec \in [Users -> Record]
  BY DEF TypeOK
<1> QED BY <1>1, OffboardedRow DEF OffboardCommit

\* A restart ends every task and drops the updates in flight.
LEMMA CrashEffect ==
  ASSUME TypeOK, Crash
  PROVE  /\ UNCHANGED <<rec, emailOf, wf, net, audit>>
         /\ task' \in [Jobs -> Task]
         /\ \A i \in Jobs : /\ task'[i].user = task[i].user /\ task'[i].rot = task[i].rot
                            /\ task'[i].pc = IF task[i].pc = "none" THEN "none" ELSE "done"
         /\ \A i \in Jobs, s \in Reported : writes'[i][s] = Nobody
<1>1. \A i \in Jobs : LET n == [task[i] EXCEPT !.pc = "done", !.seen = Unloaded]
                      IN n \in Task /\ n.pc = "done" /\ n.user = task[i].user
                         /\ n.rot = task[i].rot
  BY SmallTypes DEF TypeOK
<1>2. /\ task' \in [Jobs -> Task]
      /\ \A i \in Jobs : /\ task'[i].user = task[i].user /\ task'[i].rot = task[i].rot
                         /\ task'[i].pc = IF task[i].pc = "none" THEN "none" ELSE "done"
  BY <1>1 DEF Crash, Fresh, TypeOK
<1>3. \A i \in Jobs, s \in Reported : writes'[i][s] = Nobody
  BY DEF Crash, NoWrites
<1> QED BY <1>2, <1>3 DEF Crash

\* A status update starts only for the row that carries the job, and touches
\* no other update in flight.
LEMMA StartUpdateEffect ==
  ASSUME TypeOK, NEW j \in Jobs, NEW s \in Reported, StartUpdate(j, s) \/ UNCHANGED writes
  PROVE  \/ writes' = writes
         \/ \E u \in Users :
              /\ rec[u].job = j
              /\ \A i \in Jobs, t \in Reported :
                   writes'[i][t] = IF i = j /\ t = s THEN u ELSE writes[i][t]
<1>1. CASE UNCHANGED writes
  BY <1>1
<1>2. CASE \E u \in Users : Locates(j, s, u) /\ writes' = [writes EXCEPT ![j][s] = u]
  <2>1. PICK u \in Users : Locates(j, s, u) /\ writes' = [writes EXCEPT ![j][s] = u]
    BY <1>2
  <2>2. \A i \in Jobs, t \in Reported :
          writes'[i][t] = IF i = j /\ t = s THEN u ELSE writes[i][t]
    BY <2>1 DEF TypeOK
  <2>3. rec[u].job = j
    BY <2>1 DEF Locates
  <2> QED BY <2>2, <2>3
<1> QED BY <1>1, <1>2 DEF StartUpdate

-----------------------------------------------------------------------------
(***************************************************************************)
(* The steps as the invariants see them: Quiet steps only move a task,     *)
(* Untouched ones leave everything the invariants read as it is.           *)
(***************************************************************************)
Quiet(j) ==
  \/ Start(j) \/ Create(j) \/ SetPassword(j) \/ ResumeLoad(j) \/ Raise(j)
  \/ LoadRow(j, "load1", "store1") \/ LoadRow(j, "load2", "store2")
Untouched == UNCHANGED <<rec, emailOf, task, writes, wf, net, audit>>

\* A quiet step keeps a live task undispatched or lets it fail.
LEMMA QuietEffect ==
  ASSUME TypeOK, TasksHaveHires, NEW j \in Jobs, Quiet(j)
  PROVE  /\ UNCHANGED <<rec, emailOf, writes, wf, net, audit>>
         /\ task[j].pc \notin Ended \cup {"closing"}
         /\ \E pcs \in SUBSET Pcs :
              /\ TaskMoves(j, pcs)
              /\ task[j].pc \in Undispatched \/ pcs = {"fail"}
              /\ task[j].pc \in Saved \/ pcs \cap Saved = {}
              /\ pcs \cap {"partial", "closing", "none"} = {}
<1>1. task \in [Jobs -> Task] /\ rec \in [Users -> Record]
  BY DEF TypeOK
<1>2. CASE Start(j)
  <2>1. TaskMoves(j, {"done"}) \/ TaskMoves(j, {"create"})
    BY <1>1, <1>2, GotoMoves DEF Start, Pcs
  <2> QED BY <1>2, <2>1 DEF Start, Ended, Undispatched, Saved, Pcs
<1>3. CASE Create(j)
  <2>1. TaskMoves(j, {"fail"}) \/ TaskMoves(j, {"load1"})
    BY <1>1, <1>3, GotoMoves DEF Create, CreateLdap, CreateLocal, Pcs
  <2>2. UNCHANGED <<rec, emailOf, writes, wf, net, audit>> /\ task[j].pc = "create"
    BY <1>3 DEF Create
  <2> QED BY <2>1, <2>2 DEF Ended, Undispatched, Saved, Pcs
<1>4. CASE SetPassword(j)
  <2>1. TaskMoves(j, {"fail"}) \/ TaskMoves(j, {"load2"}) \/ TaskMoves(j, {"rstore2"})
    BY <1>1, <1>4, GotoMoves DEF SetPassword, Pcs
  <2>2. UNCHANGED <<rec, emailOf, writes, wf, net, audit>> /\ task[j].pc = "setpw"
    BY <1>4 DEF SetPassword
  <2> QED BY <2>1, <2>2 DEF Ended, Undispatched, Saved, Pcs
<1>5. CASE ResumeLoad(j)
  <2>1. task[j].pc = "rload" /\ task[j].user \in Users
    BY <1>5 DEF ResumeLoad, TasksHaveHires, Ended
  <2>2. TaskMoves(j, {"rstore1"}) \/ TaskMoves(j, {"done"})
    BY <1>1, <1>5, <2>1, GotoMoves, LoadMoves DEF ResumeLoad, Pcs
  <2> QED BY <1>5, <2>1, <2>2 DEF ResumeLoad, Ended, Undispatched, Saved, Pcs
<1>6. CASE Raise(j)
  <2>1. TaskMoves(j, {"fail"})
    BY <1>1, <1>6, GotoMoves DEF Raise, Pcs
  <2>2. UNCHANGED <<rec, emailOf, writes, wf, net, audit>>
        /\ task[j].pc \notin Ended \cup {"closing"}
    BY <1>6 DEF Raise, Ended
  <2> QED BY <2>1, <2>2 DEF Saved, Pcs
<1>7. ASSUME NEW at, NEW next \in {"store1", "store2"}, LoadRow(j, at, next),
             at \in {"load1", "load2"}
      PROVE  /\ UNCHANGED <<rec, emailOf, writes, wf, net, audit>>
             /\ task[j].pc = at /\ TaskMoves(j, {next})
  <2>1. task[j].user \in Users
    BY <1>7 DEF LoadRow, TasksHaveHires, Ended
  <2> QED BY <1>1, <1>7, <2>1, LoadMoves DEF LoadRow, Pcs
<1>8. CASE LoadRow(j, "load1", "store1")
  <2>1. /\ UNCHANGED <<rec, emailOf, writes, wf, net, audit>>
        /\ task[j].pc = "load1" /\ TaskMoves(j, {"store1"})
    BY <1>7, <1>8
  <2> QED BY <2>1 DEF Ended, Undispatched, Saved, Pcs
<1>9. CASE LoadRow(j, "load2", "store2")
  <2>1. /\ UNCHANGED <<rec, emailOf, writes, wf, net, audit>>
        /\ task[j].pc = "load2" /\ TaskMoves(j, {"store2"})
    BY <1>7, <1>9
  <2> QED BY <2>1 DEF Ended, Undispatched, Saved, Pcs
<1> QED BY <1>2, <1>3, <1>4, <1>5, <1>6, <1>8, <1>9 DEF Quiet

\* The webhook begins at most the execution of its own, new job.
LEMMA DispatchEffect ==
  ASSUME TypeOK, TasksHaveHires, NEW j \in Jobs, Dispatch(j)
  PROVE  /\ task[j].pc = "dispatch" /\ wf[j] = "idle"
         /\ TaskMoves(j, {"partial", "done"})
         /\ wf' \in {wf, [wf EXCEPT ![j] = "email"]}
         /\ UNCHANGED <<rec, emailOf, writes, net, audit>>
<1>1. TaskMoves(j, {"partial"}) \/ TaskMoves(j, {"done"})
  BY GotoMoves DEF Dispatch, TypeOK, Pcs
<1>2. TaskMoves(j, {"partial", "done"})
  BY <1>1 DEF TaskMoves
<1> QED BY <1>2 DEF Dispatch, TasksHaveHires, Undispatched

\* A failed dispatch ends the task or leaves an update in flight.
LEMMA NotDispatchedEffect ==
  ASSUME TypeOK, NEW j \in Jobs, NotDispatched(j)
  PROVE  /\ task[j].pc = "partial"
         /\ \/ writes' = writes /\ TaskMoves(j, {"done"})
            \/ /\ TaskMoves(j, {"closing"})
               /\ \E u \in Users :
                    /\ rec[u].job = j
                    /\ \A i \in Jobs, t \in Reported :
                         writes'[i][t] = IF i = j /\ t = "PARTIALLY_COMPLETE" THEN u
                                         ELSE writes[i][t]
         /\ UNCHANGED <<rec, emailOf, wf, net, audit>>
<1>1. CASE writes' = writes
  BY <1>1, GotoMoves DEF NotDispatched, TypeOK, Pcs
<1>2. CASE writes' # writes
  <2>1. TaskMoves(j, {"closing"})
    BY <1>2, GotoMoves DEF NotDispatched, TypeOK, Pcs
  <2> QED BY <1>2, <2>1, StartUpdateEffect DEF NotDispatched, Reported
<1> QED BY <1>1, <1>2

\* _mark_job_failed ends the task and starts at most a FAILED update.
LEMMA MarkFailedEffect ==
  ASSUME TypeOK, NEW j \in Jobs, MarkFailed(j)
  PROVE  /\ task[j].pc = "fail" /\ TaskMoves(j, {"done"})
         /\ \/ writes' = writes
            \/ \E u \in Users :
                 /\ rec[u].job = j
                 /\ \A i \in Jobs, t \in Reported :
                      writes'[i][t] = IF i = j /\ t = "FAILED" THEN u ELSE writes[i][t]
         /\ UNCHANGED <<rec, emailOf, wf, net, audit>>
<1>1. TaskMoves(j, {"done"})
  BY GotoMoves DEF MarkFailed, TypeOK, Pcs
<1>2. "FAILED" \in Reported
  BY DEF Reported, CallbackStatus
<1> QED BY <1>1, <1>2, StartUpdateEffect DEF MarkFailed

\* n8n begins no execution by itself and ends none twice.
LEMMA N8nEffect ==
  ASSUME TypeOK, NEW j \in Jobs, N8n(j)
  PROVE  /\ wf[j] \notin {"idle", "done"} /\ wf'[j] # "idle"
         /\ \A i \in Jobs : i # j => wf'[i] = wf[i]
         /\ \A i \in Jobs, s \in CallbackStatus :
              net'[i][s] > 0 => \/ net[i][s] > 0
                                \/ i = j /\ (s = "COMPLETED" => wf'[j] = "done")
         /\ net'[j]["COMPLETED"] > 0 => net[j]["COMPLETED"] > 0 \/ wf'[j] = "done"
         /\ UNCHANGED <<rec, emailOf, task, writes, audit>>
BY SMTT(20) DEF N8n, N8nMail, N8nIssue, N8nError, N8nDies, N8nStep, Send, TypeOK,
   CallbackStatus

\* A callback is consumed and starts at most its own update.
LEMMA ReportEffect ==
  ASSUME TypeOK, NEW j \in Jobs, NEW s \in CallbackStatus, ReportJobStatus(j, s)
  PROVE  /\ net[j][s] > 0
         /\ \A i \in Jobs, t \in CallbackStatus : net'[i][t] > 0 => net[i][t] > 0
         /\ \/ writes' = writes
            \/ \E u \in Users :
                 /\ rec[u].job = j
                 /\ \A i \in Jobs, t \in Reported :
                      writes'[i][t] = IF i = j /\ t = s THEN u ELSE writes[i][t]
         /\ \A i \in Jobs : wf'[i] = wf[i] \/ (wf[i] = "mailed" /\ wf'[i] = "jira")
         /\ UNCHANGED <<rec, emailOf, task, audit>>
<1>1. s \in Reported
  BY DEF Reported
<1>2. \/ writes' = writes
      \/ \E u \in Users :
           /\ rec[u].job = j
           /\ \A i \in Jobs, t \in Reported :
                writes'[i][t] = IF i = j /\ t = s THEN u ELSE writes[i][t]
  <2>1. StartUpdate(j, s) \/ UNCHANGED writes
    BY DEF ReportJobStatus
  <2> QED BY <1>1, <2>1, StartUpdateEffect
<1>3. net[j][s] > 0 /\ \A i \in Jobs, t \in CallbackStatus : net'[i][t] > 0 => net[i][t] > 0
  BY BoundAssumption DEF ReportJobStatus, TypeOK
<1>4. \A i \in Jobs : wf'[i] = wf[i] \/ (wf[i] = "mailed" /\ wf'[i] = "jira")
  BY DEF ReportJobStatus, Answer, TypeOK
<1> QED BY <1>2, <1>3, <1>4 DEF ReportJobStatus

\* Every step is one of these.
LEMMA StepCases ==
  ASSUME [Next]_vars
  PROVE  \/ \E u \in Users, e \in Emails, j \in Jobs : Onboard(u, e, j)
         \/ \E u \in Users, j \in Jobs, rot \in BOOLEAN : Retry(u, j, rot)
         \/ \E j \in Jobs : \/ Quiet(j) \/ SaveAccount(j) \/ Announce(j) \/ ResumeClaim(j)
                            \/ ResumeAnnounce(j) \/ Dispatch(j) \/ NotDispatched(j)
                            \/ MarkFailed(j) \/ N8n(j)
         \/ \E j \in Jobs, s \in CallbackStatus : ReportJobStatus(j, s)
         \/ \E j \in Jobs, s \in Reported : CommitStatus(j, s)
         \/ \E q \in Requests, u \in Users : RollbackCommit(q, u) \/ OffboardCommit(q, u)
         \/ Sweep \/ Crash \/ Untouched
<1>1. ASSUME NEW q \in Requests, NEW u \in Users,
             \/ RollbackRead(q, u) \/ RollbackDirectory(q, u)
             \/ OffboardRead(q, u) \/ OffboardDirectory(q, u)
             \/ RequestRaises(q, u)
      PROVE  Untouched
  BY <1>1 DEF RollbackRead, OffboardRead, RollbackDirectory, OffboardDirectory,
     RequestRaises, Untouched
<1>2. CASE UNCHANGED vars
  BY <1>2 DEF vars, Untouched
<1>3. CASE Next
  BY <1>1, <1>3 DEF Next, Admin, Pipeline, Handler, Quiet
<1> QED BY <1>2, <1>3

\* Every step keeps live tasks on requested hires, and executions behind the dispatch.
LEMMA TasksStep ==
  ASSUME TypeOK, TasksHaveHires, JobsStayWithHires, [Next]_vars
  PROVE  TasksHaveHires'
<1>1. ASSUME NEW u \in Users, NEW e \in Emails, NEW j \in Jobs, Onboard(u, e, j)
      PROVE  TasksHaveHires'
  <2> DEFINE Kept(i) ==
               /\ task'[i].pc = "none" => task'[i].user = Nobody
               /\ task'[i].pc \notin Ended => task'[i].user \in Users
               /\ task'[i].user \in Users => emailOf'[task'[i].user] # NoEmail
               /\ task'[i].pc \in Undispatched => wf'[i] = "idle"
  <2>1. \A v \in Users : emailOf[v] # NoEmail => emailOf'[v] # NoEmail
    BY <1>1, OnboardEffect, SentinelAssumption DEF TypeOK
  <2>2. ASSUME NEW i \in Jobs, i # j PROVE Kept(i)
    BY <1>1, <2>1, <2>2, OnboardEffect DEF TasksHaveHires
  <2>3. wf'[j] = "idle" /\ task[j].user = Nobody
    BY <1>1, OnboardEffect DEF TasksHaveHires, Undispatched
  <2>4. ASSUME task'[j].pc = "done", task'[j].user = task[j].user PROVE Kept(j)
    BY <2>3, <2>4, SentinelAssumption DEF Ended, Undispatched
  <2>5. ASSUME task'[j].pc = "start", task'[j].user = u,
               emailOf' = [emailOf EXCEPT ![u] = e]
        PROVE  Kept(j)
    <3>1. emailOf'[u] # NoEmail
      BY <2>5, SentinelAssumption DEF TypeOK
    <3> QED BY <2>3, <2>5, <3>1
  <2>6. Kept(j)
    BY <1>1, <2>4, <2>5, OnboardEffect
  <2> QED BY <2>2, <2>6 DEF TasksHaveHires
<1>2. ASSUME NEW u \in Users, NEW j \in Jobs, NEW rot \in BOOLEAN, Retry(u, j, rot)
      PROVE  TasksHaveHires'
  BY <1>2, RetryEffect, SentinelAssumption DEF TasksHaveHires, TaskMoves, Ended,
     Undispatched, JobsStayWithHires
<1>3. ASSUME NEW j \in Jobs, Quiet(j) PROVE TasksHaveHires'
  BY <1>3, QuietEffect DEF TasksHaveHires, TaskMoves, Ended, Undispatched
<1>4. ASSUME NEW j \in Jobs, SaveAccount(j) PROVE TasksHaveHires'
  BY <1>4, SaveAccountEffect DEF TasksHaveHires, TaskMoves, Ended, Undispatched
<1>5. ASSUME NEW j \in Jobs, Announce(j) PROVE TasksHaveHires'
  BY <1>5, AnnounceEffect DEF TasksHaveHires, TaskMoves, Ended, Undispatched
<1>6. ASSUME NEW j \in Jobs, ResumeClaim(j) PROVE TasksHaveHires'
  BY <1>6, ResumeClaimEffect DEF TasksHaveHires, TaskMoves, Ended, Undispatched
<1>7. ASSUME NEW j \in Jobs, ResumeAnnounce(j) PROVE TasksHaveHires'
  BY <1>7, ResumeAnnounceEffect DEF TasksHaveHires, TaskMoves, Ended, Undispatched
<1>8. ASSUME NEW j \in Jobs, Dispatch(j) PROVE TasksHaveHires'
  <2>1. /\ \A i \in Jobs : i # j => wf'[i] = wf[i]
        /\ TaskMoves(j, {"partial", "done"}) /\ task[j].pc = "dispatch" /\ emailOf' = emailOf
    BY <1>8, DispatchEffect DEF TypeOK
  <2> QED BY <2>1 DEF TasksHaveHires, TaskMoves, Ended, Undispatched
<1>9. ASSUME NEW j \in Jobs, NotDispatched(j) PROVE TasksHaveHires'
  BY <1>9, NotDispatchedEffect DEF TasksHaveHires, TaskMoves, Ended, Undispatched
<1>10. ASSUME NEW j \in Jobs, MarkFailed(j) PROVE TasksHaveHires'
  BY <1>10, MarkFailedEffect DEF TasksHaveHires, TaskMoves, Ended, Undispatched
<1>11. ASSUME NEW j \in Jobs, N8n(j) PROVE TasksHaveHires'
  BY <1>11, N8nEffect DEF TasksHaveHires, TaskMoves, Ended, Undispatched
<1>12. ASSUME NEW j \in Jobs, NEW s \in CallbackStatus, ReportJobStatus(j, s)
       PROVE  TasksHaveHires'
  BY <1>12, ReportEffect DEF TasksHaveHires, TaskMoves, Ended, Undispatched
<1>13. ASSUME NEW j \in Jobs, NEW s \in Reported, CommitStatus(j, s)
       PROVE  TasksHaveHires'
  BY <1>13, CommitStatusEffect, SentinelAssumption DEF TasksHaveHires,
     TaskMoves, Ended, Undispatched, JobsStayWithHires
<1>14. ASSUME NEW q \in Requests, NEW u \in Users, RollbackCommit(q, u)
       PROVE  TasksHaveHires'
  BY <1>14, RollbackCommitEffect DEF TasksHaveHires, TaskMoves, Ended, Undispatched
<1>15. ASSUME NEW q \in Requests, NEW u \in Users, OffboardCommit(q, u)
       PROVE  TasksHaveHires'
  BY <1>15, OffboardCommitEffect DEF TasksHaveHires, TaskMoves, Ended, Undispatched
<1>16. CASE Sweep
  BY <1>16, SweptRows DEF TasksHaveHires, TaskMoves, Ended, Undispatched, TypeOK
<1>17. CASE Crash
  BY <1>17, CrashEffect DEF TasksHaveHires, TaskMoves, Ended, Undispatched
<1>18. CASE Untouched
  BY <1>18 DEF Untouched, TasksHaveHires, TaskMoves, Ended, Undispatched
<1> QED
  BY <1>1, <1>2, <1>3, <1>4, <1>5, <1>6, <1>7, <1>8, <1>9, <1>10, <1>11, <1>12,
     <1>13, <1>14, <1>15, <1>16, <1>17, <1>18, StepCases

\* Every step keeps a job with the hire it was created for.
LEMMA JobsStep ==
  ASSUME TypeOK, TasksHaveHires, JobsStayWithHires, CallbacksFromN8n, [Next]_vars
  PROVE  JobsStayWithHires'
<1>1. ASSUME NEW u \in Users, NEW e \in Emails, NEW j \in Jobs, Onboard(u, e, j)
      PROVE  JobsStayWithHires'
  <2>1. \A v \in Users : rec[v].job # j
    BY <1>1, OnboardEffect, SentinelAssumption DEF TasksHaveHires, JobsStayWithHires
  <2>2. \A s \in Reported : writes[j][s] = Nobody
    BY <1>1, OnboardEffect, SentinelAssumption DEF TasksHaveHires,
       JobsStayWithHires, TypeOK
  <2>3. \A v \in Users : emailOf[v] # NoEmail => emailOf'[v] # NoEmail
    BY <1>1, OnboardEffect, SentinelAssumption DEF TypeOK
  <2>4. CASE rec' = rec /\ emailOf' = emailOf
    BY <1>1, <2>1, <2>2, <2>4, OnboardEffect DEF JobsStayWithHires, HasRow
  <2>5. CASE /\ emailOf' = [emailOf EXCEPT ![u] = e] /\ task'[j].user = u
             /\ \E r \in Record : RowBecomes(u, r) /\ r.job = j /\ r.jstat = "PENDING"
    <3>1. emailOf'[u] # NoEmail
      BY <2>5, SentinelAssumption DEF TypeOK
    <3> QED
      BY <1>1, <2>1, <2>2, <2>3, <2>5, <3>1, OnboardEffect, SentinelAssumption
         DEF JobsStayWithHires, HasRow, RowBecomes
  <2> QED BY <1>1, <2>4, <2>5, OnboardEffect
<1>2. ASSUME NEW u \in Users, NEW j \in Jobs, NEW rot \in BOOLEAN, Retry(u, j, rot)
      PROVE  JobsStayWithHires'
  <2>1. \A v \in Users : rec[v].job # j
    BY <1>2, RetryEffect, SentinelAssumption DEF TasksHaveHires, JobsStayWithHires
  <2>2. \A s \in Reported : writes[j][s] = Nobody
    BY <1>2, RetryEffect, SentinelAssumption DEF TasksHaveHires,
       JobsStayWithHires, TypeOK
  <2>3. emailOf[u] # NoEmail
    BY <1>2, RetryEffect DEF JobsStayWithHires
  <2> QED
    BY <1>2, <2>1, <2>2, <2>3, RetryEffect, SentinelAssumption
       DEF JobsStayWithHires, HasRow, RowBecomes
<1>3. ASSUME NEW j \in Jobs, Quiet(j) PROVE JobsStayWithHires'
  BY <1>3, QuietEffect DEF JobsStayWithHires, RowBecomes, TaskMoves, HasRow
<1>4. ASSUME NEW j \in Jobs, SaveAccount(j) PROVE JobsStayWithHires'
  BY <1>4, SaveAccountEffect DEF JobsStayWithHires, RowBecomes, TaskMoves,
     HasRow, Upsert, TasksHaveHires
<1>5. ASSUME NEW j \in Jobs, Announce(j) PROVE JobsStayWithHires'
  BY <1>5, AnnounceEffect DEF JobsStayWithHires, RowBecomes, TaskMoves, HasRow,
     Upsert, TasksHaveHires
<1>6. ASSUME NEW j \in Jobs, ResumeClaim(j) PROVE JobsStayWithHires'
  BY <1>6, ResumeClaimEffect DEF JobsStayWithHires, RowBecomes, TaskMoves, HasRow
<1>7. ASSUME NEW j \in Jobs, ResumeAnnounce(j) PROVE JobsStayWithHires'
  BY <1>7, ResumeAnnounceEffect DEF JobsStayWithHires, RowBecomes, TaskMoves, HasRow
<1>8. ASSUME NEW j \in Jobs, Dispatch(j) PROVE JobsStayWithHires'
  BY <1>8, DispatchEffect DEF JobsStayWithHires, RowBecomes, TaskMoves, HasRow
<1>9. ASSUME NEW j \in Jobs, NotDispatched(j) PROVE JobsStayWithHires'
  BY <1>9, NotDispatchedEffect DEF JobsStayWithHires, RowBecomes, TaskMoves, HasRow
<1>10. ASSUME NEW j \in Jobs, MarkFailed(j) PROVE JobsStayWithHires'
  BY <1>10, MarkFailedEffect DEF JobsStayWithHires, RowBecomes, TaskMoves, HasRow
<1>11. ASSUME NEW j \in Jobs, N8n(j) PROVE JobsStayWithHires'
  BY <1>11, N8nEffect DEF JobsStayWithHires, RowBecomes, TaskMoves, HasRow
<1>12. ASSUME NEW j \in Jobs, NEW s \in CallbackStatus, ReportJobStatus(j, s)
       PROVE  JobsStayWithHires'
  BY <1>12, ReportEffect DEF JobsStayWithHires, RowBecomes, TaskMoves, HasRow
<1>13. ASSUME NEW j \in Jobs, NEW s \in Reported, CommitStatus(j, s)
       PROVE  JobsStayWithHires'
  <2> DEFINE v == writes[j][s]
  <2>1. /\ \A i \in Jobs : task'[i].user = task[i].user
        /\ \A i \in Jobs, t \in Reported : writes'[i][t] \in {writes[i][t], Nobody}
        /\ emailOf' = emailOf
    BY <1>13, CommitStatusEffect DEF TaskMoves
  <2>2. \A w \in Users :
          /\ rec'[w].job = rec[w].job
          /\ rec'[w].jstat = "none" <=> rec[w].jstat = "none"
    <3>1. s # "none"
      BY DEF Reported, CallbackStatus
    <3> QED BY <1>13, <3>1, CommitStatusEffect DEF RowBecomes, HasRow
  <2>3. ASSUME NEW w \in Users
        PROVE  /\ rec'[w].job \in Jobs => task'[rec'[w].job].user = w
               /\ HasRow(w)' => rec'[w].job \in Jobs /\ emailOf'[w] # NoEmail
               /\ ~ HasRow(w)' => rec'[w].job = NoJob
    <3>1. rec'[w].job = rec[w].job /\ (HasRow(w)' <=> HasRow(w)) /\ emailOf' = emailOf
      BY <2>1, <2>2 DEF HasRow
    <3>2. rec[w].job \in Jobs => task'[rec[w].job].user = w
      BY <2>1 DEF JobsStayWithHires
    <3> QED BY <3>1, <3>2 DEF JobsStayWithHires
  <2>4. \A i \in Jobs, t \in Reported : writes'[i][t] # Nobody => task'[i].user = writes'[i][t]
    BY <2>1 DEF JobsStayWithHires
  <2> QED BY <2>3, <2>4 DEF JobsStayWithHires, HasRow
<1>14. ASSUME NEW q \in Requests, NEW u \in Users, RollbackCommit(q, u)
       PROVE  JobsStayWithHires'
  BY <1>14, RollbackCommitEffect, SentinelAssumption DEF JobsStayWithHires,
     RowBecomes, TaskMoves, HasRow, NoRecord
<1>15. ASSUME NEW q \in Requests, NEW u \in Users, OffboardCommit(q, u)
       PROVE  JobsStayWithHires'
  BY <1>15, OffboardCommitEffect DEF JobsStayWithHires, RowBecomes, TaskMoves,
     HasRow
<1>16. CASE Sweep
  <2>1. /\ \A i \in Jobs : task'[i].user = task[i].user
        /\ \A i \in Jobs, t \in Reported : writes'[i][t] \in {writes[i][t], Nobody}
        /\ emailOf' = emailOf
    BY <1>16, SweptRows DEF TypeOK
  <2>2. \A w \in Users :
          /\ rec'[w].job = rec[w].job
          /\ rec'[w].jstat = "none" <=> rec[w].jstat = "none"
    BY <1>16, SweptRows DEF TypeOK, Resolved, StaleStatuses
  <2>3. ASSUME NEW w \in Users
        PROVE  /\ rec'[w].job \in Jobs => task'[rec'[w].job].user = w
               /\ HasRow(w)' => rec'[w].job \in Jobs /\ emailOf'[w] # NoEmail
               /\ ~ HasRow(w)' => rec'[w].job = NoJob
    <3>1. rec'[w].job = rec[w].job /\ (HasRow(w)' <=> HasRow(w)) /\ emailOf' = emailOf
      BY <2>1, <2>2 DEF HasRow
    <3>2. rec[w].job \in Jobs => task'[rec[w].job].user = w
      BY <2>1 DEF JobsStayWithHires
    <3> QED BY <3>1, <3>2 DEF JobsStayWithHires
  <2>4. \A i \in Jobs, t \in Reported : writes'[i][t] # Nobody => task'[i].user = writes'[i][t]
    BY <2>1 DEF JobsStayWithHires
  <2> QED BY <2>3, <2>4 DEF JobsStayWithHires, HasRow
<1>17. CASE Crash
  BY <1>17, CrashEffect DEF JobsStayWithHires, RowBecomes, TaskMoves, HasRow
<1>18. CASE Untouched
  BY <1>18 DEF Untouched, JobsStayWithHires, RowBecomes, TaskMoves, HasRow
<1> QED
  BY <1>1, <1>2, <1>3, <1>4, <1>5, <1>6, <1>7, <1>8, <1>9, <1>10, <1>11, <1>12,
     <1>13, <1>14, <1>15, <1>16, <1>17, <1>18, StepCases

\* Every step keeps callbacks, and the updates they started, behind their execution.
LEMMA CallbackStep ==
  ASSUME TypeOK, TasksHaveHires, JobsStayWithHires, CallbacksFromN8n, [Next]_vars
  PROVE  CallbacksFromN8n'
<1>1. ASSUME NEW u \in Users, NEW e \in Emails, NEW j \in Jobs, Onboard(u, e, j)
      PROVE  CallbacksFromN8n'
  BY <1>1, OnboardEffect DEF CallbacksFromN8n, TaskMoves, TasksHaveHires,
     Undispatched, CallbackStatus, Reported
<1>2. ASSUME NEW u \in Users, NEW j \in Jobs, NEW rot \in BOOLEAN, Retry(u, j, rot)
      PROVE  CallbacksFromN8n'
  BY <1>2, RetryEffect DEF CallbacksFromN8n, TaskMoves, TasksHaveHires,
     Undispatched, CallbackStatus, Reported
<1>3. ASSUME NEW j \in Jobs, Quiet(j) PROVE CallbacksFromN8n'
  BY <1>3, QuietEffect DEF CallbacksFromN8n, TaskMoves
<1>4. ASSUME NEW j \in Jobs, SaveAccount(j) PROVE CallbacksFromN8n'
  BY <1>4, SaveAccountEffect DEF CallbacksFromN8n, TaskMoves, Upsert, Undispatched
<1>5. ASSUME NEW j \in Jobs, Announce(j) PROVE CallbacksFromN8n'
  BY <1>5, AnnounceEffect DEF CallbacksFromN8n, TaskMoves
<1>6. ASSUME NEW j \in Jobs, ResumeClaim(j) PROVE CallbacksFromN8n'
  BY <1>6, ResumeClaimEffect DEF CallbacksFromN8n, TaskMoves
<1>7. ASSUME NEW j \in Jobs, ResumeAnnounce(j) PROVE CallbacksFromN8n'
  BY <1>7, ResumeAnnounceEffect DEF CallbacksFromN8n, TaskMoves
<1>8. ASSUME NEW j \in Jobs, Dispatch(j) PROVE CallbacksFromN8n'
  BY <1>8, DispatchEffect DEF CallbacksFromN8n, TaskMoves, TypeOK, CallbackStatus
<1>9. ASSUME NEW j \in Jobs, NotDispatched(j) PROVE CallbacksFromN8n'
  BY <1>9, NotDispatchedEffect DEF CallbacksFromN8n, TaskMoves, Reported,
     CallbackStatus
<1>10. ASSUME NEW j \in Jobs, MarkFailed(j) PROVE CallbacksFromN8n'
  BY <1>10, MarkFailedEffect DEF CallbacksFromN8n, TaskMoves, Reported,
     CallbackStatus
<1>11. ASSUME NEW j \in Jobs, N8n(j) PROVE CallbacksFromN8n'
  BY <1>11, N8nEffect DEF CallbacksFromN8n, TaskMoves, TypeOK, CallbackStatus
<1>12. ASSUME NEW j \in Jobs, NEW s \in CallbackStatus, ReportJobStatus(j, s)
       PROVE  CallbacksFromN8n'
  BY <1>12, ReportEffect DEF CallbacksFromN8n, TaskMoves, Reported, CallbackStatus
<1>13. ASSUME NEW j \in Jobs, NEW s \in Reported, CommitStatus(j, s)
       PROVE  CallbacksFromN8n'
  BY <1>13, CommitStatusEffect DEF CallbacksFromN8n, TaskMoves, Reported,
     CallbackStatus
<1>14. ASSUME NEW q \in Requests, NEW u \in Users, RollbackCommit(q, u)
       PROVE  CallbacksFromN8n'
  BY <1>14, RollbackCommitEffect DEF CallbacksFromN8n, TaskMoves
<1>15. ASSUME NEW q \in Requests, NEW u \in Users, OffboardCommit(q, u)
       PROVE  CallbacksFromN8n'
  BY <1>15, OffboardCommitEffect DEF CallbacksFromN8n, TaskMoves
<1>16. CASE Sweep
  BY <1>16, SweptRows DEF CallbacksFromN8n, TaskMoves, TypeOK
<1>17. CASE Crash
  BY <1>17, CrashEffect DEF CallbacksFromN8n, TaskMoves, Reported, CallbackStatus
<1>18. CASE Untouched
  BY <1>18 DEF Untouched, CallbacksFromN8n, TaskMoves
<1> QED
  BY <1>1, <1>2, <1>3, <1>4, <1>5, <1>6, <1>7, <1>8, <1>9, <1>10, <1>11, <1>12,
     <1>13, <1>14, <1>15, <1>16, <1>17, <1>18, StepCases

\* Every step keeps external_id saved for whoever reports beyond it.
LEMMA AccountStep ==
  ASSUME TypeOK, TasksHaveHires, JobsStayWithHires, CallbacksFromN8n,
         ReportersSawAccount, [Next]_vars
  PROVE  ReportersSawAccount'
<1>1. ASSUME NEW u \in Users, NEW e \in Emails, NEW j \in Jobs, Onboard(u, e, j)
      PROVE  ReportersSawAccount'
  BY <1>1, OnboardEffect, SentinelAssumption DEF ReportersSawAccount,
     RowBecomes, TaskMoves, HasRow, Saved, OnLdap, TasksHaveHires, Undispatched
<1>2. ASSUME NEW u \in Users, NEW j \in Jobs, NEW rot \in BOOLEAN, Retry(u, j, rot)
      PROVE  ReportersSawAccount'
  BY <1>2, RetryEffect, SentinelAssumption DEF ReportersSawAccount, RowBecomes,
     TaskMoves, HasRow, Saved, OnLdap, TasksHaveHires, Undispatched
<1>3. ASSUME NEW j \in Jobs, Quiet(j) PROVE ReportersSawAccount'
  BY <1>3, QuietEffect DEF ReportersSawAccount, RowBecomes, TaskMoves, HasRow,
     Saved, OnLdap
<1>4. ASSUME NEW j \in Jobs, SaveAccount(j) PROVE ReportersSawAccount'
  <2>1. ASSUME rec' = rec, TaskMoves(j, {"fail"}) \/ task[j].pc \in Saved
        PROVE  ReportersSawAccount'
    BY <1>4, <2>1, SaveAccountEffect DEF ReportersSawAccount, TaskMoves,
       HasRow, Saved, OnLdap
  <2>2. ASSUME TaskMoves(j, {"setpw"}), Upsert(j, {"AD_CREATING"}) PROVE ReportersSawAccount'
    <3>1. /\ OnLdap => rec'[task[j].user].ext
          /\ \A v \in Users : v # task[j].user => rec'[v] = rec[v]
      BY <1>4, <2>2, SaveAccountEffect DEF Upsert, RowBecomes, OnLdap
    <3>2. \A i \in Jobs :
          /\ task'[i].user = task[i].user
          /\ task[i].user # task[j].user => task'[i].pc = task[i].pc
      BY <2>2 DEF TaskMoves
    <3> QED
      BY <1>4, <3>1, <3>2, SaveAccountEffect DEF ReportersSawAccount, HasRow, OnLdap
  <2>3. task[j].pc = "store2" => task[j].pc \in Saved
    BY DEF Saved
  <2> QED BY <1>4, <2>1, <2>2, <2>3, SaveAccountEffect
<1>5. ASSUME NEW j \in Jobs, Announce(j) PROVE ReportersSawAccount'
  <2>1. ASSUME rec' = rec, TaskMoves(j, {"fail"}) \/ task[j].pc \in Saved
        PROVE  ReportersSawAccount'
    BY <1>5, <2>1, AnnounceEffect DEF ReportersSawAccount, TaskMoves, HasRow,
       Saved, OnLdap
  <2>2. ASSUME TaskMoves(j, {"dispatch"}), Upsert(j, {"EMAIL_SENDING"}) PROVE
         ReportersSawAccount'
    <3>1. /\ OnLdap => rec'[task[j].user].ext
          /\ \A v \in Users : v # task[j].user => rec'[v] = rec[v]
      BY <1>5, <2>2, AnnounceEffect DEF Upsert, RowBecomes, OnLdap
    <3>2. \A i \in Jobs :
          /\ task'[i].user = task[i].user
          /\ task[i].user # task[j].user => task'[i].pc = task[i].pc
      BY <2>2 DEF TaskMoves
    <3> QED
      BY <1>5, <3>1, <3>2, AnnounceEffect DEF ReportersSawAccount, HasRow, OnLdap
  <2>3. task[j].pc = "store2" => task[j].pc \in Saved
    BY DEF Saved
  <2> QED BY <1>5, <2>1, <2>2, <2>3, AnnounceEffect
<1>6. ASSUME NEW j \in Jobs, ResumeClaim(j) PROVE ReportersSawAccount'
  BY <1>6, ResumeClaimEffect DEF ReportersSawAccount, RowBecomes, TaskMoves,
     HasRow, Saved, OnLdap
<1>7. ASSUME NEW j \in Jobs, ResumeAnnounce(j) PROVE ReportersSawAccount'
  BY <1>7, ResumeAnnounceEffect DEF ReportersSawAccount, RowBecomes, TaskMoves,
     HasRow, Saved, OnLdap
<1>8. ASSUME NEW j \in Jobs, Dispatch(j) PROVE ReportersSawAccount'
  BY <1>8, DispatchEffect, ZenonT(40) DEF ReportersSawAccount, RowBecomes, TaskMoves,
     HasRow, Saved, OnLdap, TypeOK
<1>9. ASSUME NEW j \in Jobs, NotDispatched(j) PROVE ReportersSawAccount'
  BY <1>9, NotDispatchedEffect DEF ReportersSawAccount, RowBecomes, TaskMoves,
     HasRow, Saved, OnLdap
<1>10. ASSUME NEW j \in Jobs, MarkFailed(j) PROVE ReportersSawAccount'
  BY <1>10, MarkFailedEffect DEF ReportersSawAccount, RowBecomes, TaskMoves,
     HasRow, Saved, OnLdap
<1>11. ASSUME NEW j \in Jobs, N8n(j) PROVE ReportersSawAccount'
  BY <1>11, N8nEffect DEF ReportersSawAccount, RowBecomes, TaskMoves, HasRow,
     Saved, OnLdap
<1>12. ASSUME NEW j \in Jobs, NEW s \in CallbackStatus, ReportJobStatus(j, s)
       PROVE  ReportersSawAccount'
  BY <1>12, ReportEffect DEF ReportersSawAccount, RowBecomes, TaskMoves, HasRow,
     Saved, OnLdap
<1>13. ASSUME NEW j \in Jobs, NEW s \in Reported, CommitStatus(j, s)
       PROVE  ReportersSawAccount'
  <2>1. \A w \in Users :
          /\ rec'[w].ext = rec[w].ext
          /\ HasRow(w)' => HasRow(w)
    BY <1>13, CommitStatusEffect DEF RowBecomes, HasRow
  <2>2. \A i \in Jobs :
          /\ task'[i].user = task[i].user
          /\ task'[i].pc \in Saved => task[i].pc \in Saved
          /\ wf'[i] # "idle" => wf[i] # "idle"
    BY <1>13, CommitStatusEffect DEF TaskMoves, Saved
  <2> QED BY <2>1, <2>2 DEF ReportersSawAccount, OnLdap
<1>14. ASSUME NEW q \in Requests, NEW u \in Users, RollbackCommit(q, u)
       PROVE  ReportersSawAccount'
  BY <1>14, RollbackCommitEffect DEF ReportersSawAccount, RowBecomes, TaskMoves,
     HasRow, Saved, OnLdap, NoRecord
<1>15. ASSUME NEW q \in Requests, NEW u \in Users, OffboardCommit(q, u)
       PROVE  ReportersSawAccount'
  BY <1>15, OffboardCommitEffect DEF ReportersSawAccount, RowBecomes, TaskMoves,
     HasRow, Saved, OnLdap
<1>16. CASE Sweep
  BY <1>16, SweptRows, SMTT(20) DEF ReportersSawAccount, HasRow, TypeOK, StaleStatuses
<1>17. CASE Crash
  BY <1>17, CrashEffect DEF ReportersSawAccount, RowBecomes, TaskMoves, HasRow,
     Saved, OnLdap
<1>18. CASE Untouched
  BY <1>18 DEF Untouched, ReportersSawAccount, RowBecomes, TaskMoves, HasRow,
     Saved, OnLdap
<1> QED
  BY <1>1, <1>2, <1>3, <1>4, <1>5, <1>6, <1>7, <1>8, <1>9, <1>10, <1>11, <1>12,
     <1>13, <1>14, <1>15, <1>16, <1>17, <1>18, StepCases

\* Every step keeps notified hires behind a saved account.
LEMMA NotifiedStep ==
  ASSUME TypeOK, TasksHaveHires, JobsStayWithHires, CallbacksFromN8n,
         ReportersSawAccount, NotifiedHasAccount, [Next]_vars
  PROVE  NotifiedHasAccount'
<1>1. ASSUME NEW u \in Users, NEW e \in Emails, NEW j \in Jobs, Onboard(u, e, j)
      PROVE  NotifiedHasAccount'
  BY <1>1, OnboardEffect DEF NotifiedHasAccount, RowBecomes, OnLdap
<1>2. ASSUME NEW u \in Users, NEW j \in Jobs, NEW rot \in BOOLEAN, Retry(u, j, rot)
      PROVE  NotifiedHasAccount'
  BY <1>2, RetryEffect DEF NotifiedHasAccount, RowBecomes, OnLdap
<1>3. ASSUME NEW j \in Jobs, Quiet(j) PROVE NotifiedHasAccount'
  BY <1>3, QuietEffect DEF NotifiedHasAccount, RowBecomes, OnLdap
<1>4. ASSUME NEW j \in Jobs, SaveAccount(j) PROVE NotifiedHasAccount'
  BY <1>4, SaveAccountEffect DEF NotifiedHasAccount, RowBecomes, OnLdap, Upsert
<1>5. ASSUME NEW j \in Jobs, Announce(j) PROVE NotifiedHasAccount'
  BY <1>5, AnnounceEffect DEF NotifiedHasAccount, RowBecomes, OnLdap, Upsert
<1>6. ASSUME NEW j \in Jobs, ResumeClaim(j) PROVE NotifiedHasAccount'
  BY <1>6, ResumeClaimEffect DEF NotifiedHasAccount, RowBecomes, OnLdap
<1>7. ASSUME NEW j \in Jobs, ResumeAnnounce(j) PROVE NotifiedHasAccount'
  BY <1>7, ResumeAnnounceEffect DEF NotifiedHasAccount, RowBecomes, OnLdap,
     ReportersSawAccount, Saved, HasRow
<1>8. ASSUME NEW j \in Jobs, Dispatch(j) PROVE NotifiedHasAccount'
  BY <1>8, DispatchEffect DEF NotifiedHasAccount, RowBecomes, OnLdap
<1>9. ASSUME NEW j \in Jobs, NotDispatched(j) PROVE NotifiedHasAccount'
  BY <1>9, NotDispatchedEffect DEF NotifiedHasAccount, RowBecomes, OnLdap
<1>10. ASSUME NEW j \in Jobs, MarkFailed(j) PROVE NotifiedHasAccount'
  BY <1>10, MarkFailedEffect DEF NotifiedHasAccount, RowBecomes, OnLdap
<1>11. ASSUME NEW j \in Jobs, N8n(j) PROVE NotifiedHasAccount'
  BY <1>11, N8nEffect DEF NotifiedHasAccount, RowBecomes, OnLdap
<1>12. ASSUME NEW j \in Jobs, NEW s \in CallbackStatus, ReportJobStatus(j, s)
       PROVE  NotifiedHasAccount'
  BY <1>12, ReportEffect DEF NotifiedHasAccount, RowBecomes, OnLdap
<1>13. ASSUME NEW j \in Jobs, NEW s \in Reported, CommitStatus(j, s)
       PROVE  NotifiedHasAccount'
  BY <1>13, CommitStatusEffect, SentinelAssumption DEF NotifiedHasAccount,
     RowBecomes, OnLdap, ReportersSawAccount, Saved, HasRow, CallbacksFromN8n,
     JobsStayWithHires, Reported, CallbackStatus
<1>14. ASSUME NEW q \in Requests, NEW u \in Users, RollbackCommit(q, u)
       PROVE  NotifiedHasAccount'
  BY <1>14, RollbackCommitEffect DEF NotifiedHasAccount, RowBecomes, OnLdap,
     NoRecord
<1>15. ASSUME NEW q \in Requests, NEW u \in Users, OffboardCommit(q, u)
       PROVE  NotifiedHasAccount'
  BY <1>15, OffboardCommitEffect DEF NotifiedHasAccount, RowBecomes, OnLdap
<1>16. CASE Sweep
  BY <1>16, SweptRows DEF NotifiedHasAccount, RowBecomes, OnLdap, Resolved,
     StaleStatuses, TypeOK
<1>17. CASE Crash
  BY <1>17, CrashEffect DEF NotifiedHasAccount, RowBecomes, OnLdap
<1>18. CASE Untouched
  BY <1>18 DEF Untouched, NotifiedHasAccount, RowBecomes, OnLdap
<1> QED
  BY <1>1, <1>2, <1>3, <1>4, <1>5, <1>6, <1>7, <1>8, <1>9, <1>10, <1>11, <1>12,
     <1>13, <1>14, <1>15, <1>16, <1>17, <1>18, StepCases

\* Every step keeps COMPLETED behind a finished n8n execution.
LEMMA ConfirmedStep ==
  ASSUME TypeOK, TasksHaveHires, JobsStayWithHires, CallbacksFromN8n,
         CompletedConfirmed, [Next]_vars
  PROVE  CompletedConfirmed'
<1>1. ASSUME NEW u \in Users, NEW e \in Emails, NEW j \in Jobs, Onboard(u, e, j)
      PROVE  CompletedConfirmed'
  BY <1>1, OnboardEffect DEF CompletedConfirmed, Owned, RowBecomes, TaskMoves,
     TasksHaveHires, Undispatched
<1>2. ASSUME NEW u \in Users, NEW j \in Jobs, NEW rot \in BOOLEAN, Retry(u, j, rot)
      PROVE  CompletedConfirmed'
  BY <1>2, RetryEffect DEF CompletedConfirmed, Owned, RowBecomes, TaskMoves,
     TasksHaveHires, Undispatched
<1>3. ASSUME NEW j \in Jobs, Quiet(j) PROVE CompletedConfirmed'
  BY <1>3, QuietEffect DEF CompletedConfirmed, Owned, RowBecomes, TaskMoves
<1>4. ASSUME NEW j \in Jobs, SaveAccount(j) PROVE CompletedConfirmed'
  BY <1>4, SaveAccountEffect DEF CompletedConfirmed, Owned, RowBecomes,
     TaskMoves, Upsert
<1>5. ASSUME NEW j \in Jobs, Announce(j) PROVE CompletedConfirmed'
  BY <1>5, AnnounceEffect DEF CompletedConfirmed, Owned, RowBecomes, TaskMoves,
     Upsert
<1>6. ASSUME NEW j \in Jobs, ResumeClaim(j) PROVE CompletedConfirmed'
  BY <1>6, ResumeClaimEffect DEF CompletedConfirmed, Owned, RowBecomes, TaskMoves
<1>7. ASSUME NEW j \in Jobs, ResumeAnnounce(j) PROVE CompletedConfirmed'
  BY <1>7, ResumeAnnounceEffect DEF CompletedConfirmed, Owned, RowBecomes, TaskMoves
<1>8. ASSUME NEW j \in Jobs, Dispatch(j) PROVE CompletedConfirmed'
  <2>1. /\ \A i \in Jobs : i # j => wf'[i] = wf[i]
        /\ \A i \in Jobs : task'[i].user = task[i].user
        /\ wf[j] = "idle" /\ rec' = rec
    BY <1>8, DispatchEffect DEF TypeOK, TaskMoves
  <2> QED BY <2>1 DEF CompletedConfirmed, Owned
<1>9. ASSUME NEW j \in Jobs, NotDispatched(j) PROVE CompletedConfirmed'
  BY <1>9, NotDispatchedEffect DEF CompletedConfirmed, Owned, RowBecomes, TaskMoves
<1>10. ASSUME NEW j \in Jobs, MarkFailed(j) PROVE CompletedConfirmed'
  BY <1>10, MarkFailedEffect DEF CompletedConfirmed, Owned, RowBecomes, TaskMoves
<1>11. ASSUME NEW j \in Jobs, N8n(j) PROVE CompletedConfirmed'
  BY <1>11, N8nEffect DEF CompletedConfirmed, Owned, RowBecomes, TaskMoves
<1>12. ASSUME NEW j \in Jobs, NEW s \in CallbackStatus, ReportJobStatus(j, s)
       PROVE  CompletedConfirmed'
  BY <1>12, ReportEffect DEF CompletedConfirmed, Owned, RowBecomes, TaskMoves
<1>13. ASSUME NEW j \in Jobs, NEW s \in Reported, CommitStatus(j, s)
       PROVE  CompletedConfirmed'
  <2> DEFINE v == writes[j][s]
  <2>1. /\ \A i \in Jobs : task'[i].user = task[i].user
        /\ \A i \in Jobs : wf[i] = "done" => wf'[i] = "done"
    BY <1>13, CommitStatusEffect DEF TaskMoves
  <2>2. ASSUME NEW w \in Users, rec'[w].jstat = "COMPLETED"
        PROVE  rec[w].jstat = "COMPLETED" \/ (w = v /\ s = "COMPLETED")
    BY <1>13, <2>2, CommitStatusEffect DEF RowBecomes
  <2>3. s = "COMPLETED" => wf[j] = "done" /\ task[j].user = v
    BY <1>13, CommitStatusEffect, SentinelAssumption DEF CallbacksFromN8n,
       JobsStayWithHires
  <2> QED BY <2>1, <2>2, <2>3 DEF CompletedConfirmed, Owned
<1>14. ASSUME NEW q \in Requests, NEW u \in Users, RollbackCommit(q, u)
       PROVE  CompletedConfirmed'
  BY <1>14, RollbackCommitEffect DEF CompletedConfirmed, Owned, RowBecomes,
     TaskMoves, NoRecord
<1>15. ASSUME NEW q \in Requests, NEW u \in Users, OffboardCommit(q, u)
       PROVE  CompletedConfirmed'
  BY <1>15, OffboardCommitEffect DEF CompletedConfirmed, Owned, RowBecomes,
     TaskMoves
<1>16. CASE Sweep
  <2>1. task' = task /\ wf' = wf
    BY <1>16, SweptRows DEF TypeOK
  <2>2. ASSUME NEW u \in Users, rec'[u].jstat = "COMPLETED"
        PROVE  rec[u].jstat = "COMPLETED"
    BY <1>16, <2>2, SweptRows DEF TypeOK, Resolved
  <2> QED BY <2>1, <2>2 DEF CompletedConfirmed, Owned
<1>17. CASE Crash
  BY <1>17, CrashEffect DEF CompletedConfirmed, Owned, RowBecomes, TaskMoves
<1>18. CASE Untouched
  BY <1>18 DEF Untouched, CompletedConfirmed, Owned, RowBecomes, TaskMoves
<1> QED
  BY <1>1, <1>2, <1>3, <1>4, <1>5, <1>6, <1>7, <1>8, <1>9, <1>10, <1>11, <1>12,
     <1>13, <1>14, <1>15, <1>16, <1>17, <1>18, StepCases

\* Every step keeps vanished rows audited.
LEMMA AuditedStep ==
  ASSUME TypeOK, TasksHaveHires, JobsStayWithHires, RollbackAudited, [Next]_vars
  PROVE  RollbackAudited'
<1>1. ASSUME NEW u \in Users, NEW e \in Emails, NEW j \in Jobs, Onboard(u, e, j)
      PROVE  RollbackAudited'
  <2>1. CASE rec' = rec /\ emailOf' = emailOf
    BY <1>1, <2>1, OnboardEffect DEF RollbackAudited, HasRow
  <2>2. CASE /\ emailOf' = [emailOf EXCEPT ![u] = e]
             /\ \E r \in Record : RowBecomes(u, r) /\ r.job = j /\ r.jstat = "PENDING"
    <3>1. rec'[u].jstat # "none" /\ \A v \in Users : v # u => rec'[v] = rec[v]
      BY <2>2 DEF RowBecomes
    <3>2. \A v \in Users : v # u => emailOf'[v] = emailOf[v]
      BY <2>2 DEF TypeOK
    <3> QED BY <1>1, <3>1, <3>2, OnboardEffect DEF RollbackAudited, HasRow
  <2> QED BY <1>1, <2>1, <2>2, OnboardEffect
<1>2. ASSUME NEW u \in Users, NEW j \in Jobs, NEW rot \in BOOLEAN, Retry(u, j, rot)
      PROVE  RollbackAudited'
  BY <1>2, RetryEffect DEF RollbackAudited, HasRow, RowBecomes
<1>3. ASSUME NEW j \in Jobs, Quiet(j) PROVE RollbackAudited'
  BY <1>3, QuietEffect DEF RollbackAudited, HasRow, RowBecomes
<1>4. ASSUME NEW j \in Jobs, SaveAccount(j) PROVE RollbackAudited'
  BY <1>4, SaveAccountEffect DEF RollbackAudited, HasRow, RowBecomes, Upsert
<1>5. ASSUME NEW j \in Jobs, Announce(j) PROVE RollbackAudited'
  BY <1>5, AnnounceEffect DEF RollbackAudited, HasRow, RowBecomes, Upsert
<1>6. ASSUME NEW j \in Jobs, ResumeClaim(j) PROVE RollbackAudited'
  BY <1>6, ResumeClaimEffect DEF RollbackAudited, HasRow, RowBecomes
<1>7. ASSUME NEW j \in Jobs, ResumeAnnounce(j) PROVE RollbackAudited'
  BY <1>7, ResumeAnnounceEffect DEF RollbackAudited, HasRow, RowBecomes
<1>8. ASSUME NEW j \in Jobs, Dispatch(j) PROVE RollbackAudited'
  BY <1>8, DispatchEffect DEF RollbackAudited, HasRow, RowBecomes
<1>9. ASSUME NEW j \in Jobs, NotDispatched(j) PROVE RollbackAudited'
  BY <1>9, NotDispatchedEffect DEF RollbackAudited, HasRow, RowBecomes
<1>10. ASSUME NEW j \in Jobs, MarkFailed(j) PROVE RollbackAudited'
  BY <1>10, MarkFailedEffect DEF RollbackAudited, HasRow, RowBecomes
<1>11. ASSUME NEW j \in Jobs, N8n(j) PROVE RollbackAudited'
  BY <1>11, N8nEffect DEF RollbackAudited, HasRow, RowBecomes
<1>12. ASSUME NEW j \in Jobs, NEW s \in CallbackStatus, ReportJobStatus(j, s)
       PROVE  RollbackAudited'
  BY <1>12, ReportEffect DEF RollbackAudited, HasRow, RowBecomes
<1>13. ASSUME NEW j \in Jobs, NEW s \in Reported, CommitStatus(j, s)
       PROVE  RollbackAudited'
  BY <1>13, CommitStatusEffect DEF RollbackAudited, HasRow, RowBecomes,
     Reported, CallbackStatus
<1>14. ASSUME NEW q \in Requests, NEW u \in Users, RollbackCommit(q, u)
       PROVE  RollbackAudited'
  BY <1>14, RollbackCommitEffect DEF RollbackAudited, HasRow, RowBecomes
<1>15. ASSUME NEW q \in Requests, NEW u \in Users, OffboardCommit(q, u)
       PROVE  RollbackAudited'
  BY <1>15, OffboardCommitEffect DEF RollbackAudited, HasRow, RowBecomes
<1>16. CASE Sweep
  BY <1>16, SweptRows DEF RollbackAudited, HasRow, RowBecomes, TypeOK, Resolved,
     StaleStatuses
<1>17. CASE Crash
  BY <1>17, CrashEffect DEF RollbackAudited, HasRow, RowBecomes
<1>18. CASE Untouched
  BY <1>18 DEF Untouched, RollbackAudited, HasRow, RowBecomes
<1> QED
  BY <1>1, <1>2, <1>3, <1>4, <1>5, <1>6, <1>7, <1>8, <1>9, <1>10, <1>11, <1>12,
     <1>13, <1>14, <1>15, <1>16, <1>17, <1>18, StepCases

-----------------------------------------------------------------------------
(***************************************************************************)
(* The theorems.                                                           *)
(***************************************************************************)

\* With empty tables, an empty directory and no task, everything holds.
LEMMA InitInv == Init => IInv
<1> SUFFICES ASSUME Init PROVE IInv
  OBVIOUS
<1>1. NoRecord \in Record /\ NoEntry \in Entry /\ NoTask \in Task /\ NoRequest \in Request
  BY DEF NoRecord, Record, NoEntry, Entry, NoTask, Task, Unloaded, Loaded, Pcs,
         NoRequest, Request
<1>2. TypeOK
  BY <1>1, BoundAssumption DEF Init, TypeOK, NoWrites, Workflow
<1>3. TasksHaveHires /\ CallbacksFromN8n
  BY SentinelAssumption
     DEF Init, TasksHaveHires, CallbacksFromN8n, NoTask, Ended, NoWrites, CallbackStatus,
         Reported
<1>4. \A u \in Users : rec[u].job = NoJob /\ rec[u].jstat = "none" /\ emailOf[u] = NoEmail
  BY DEF Init, NoRecord
<1>5. JobsStayWithHires /\ RollbackAudited
  BY <1>4, SentinelAssumption
     DEF Init, JobsStayWithHires, RollbackAudited, HasRow, NoWrites
<1>6. ReportersSawAccount /\ NotifiedHasAccount /\ CompletedConfirmed
  BY <1>4 DEF ReportersSawAccount, NotifiedHasAccount, CompletedConfirmed, HasRow
<1> QED BY <1>2, <1>3, <1>5, <1>6 DEF IInv

\* Every step of the saga, in any order of tasks, callbacks, sweeps, requests
\* and restarts, keeps the inductive invariant.
LEMMA StepInv == IInv /\ [Next]_vars => IInv'
<1> SUFFICES ASSUME IInv, [Next]_vars PROVE IInv'
  OBVIOUS
<1>1. /\ TypeOK /\ TasksHaveHires /\ JobsStayWithHires /\ ReportersSawAccount
      /\ CallbacksFromN8n /\ NotifiedHasAccount /\ CompletedConfirmed /\ RollbackAudited
  BY DEF IInv
<1>2. TypeOK' /\ TasksHaveHires' /\ JobsStayWithHires'
  BY <1>1, TypeStep, TasksStep, JobsStep
<1>3. ReportersSawAccount' /\ CallbacksFromN8n'
  BY <1>1, AccountStep, CallbackStep
<1>4. NotifiedHasAccount' /\ CompletedConfirmed' /\ RollbackAudited'
  BY <1>1, NotifiedStep, ConfirmedStep, AuditedStep
<1> QED BY <1>2, <1>3, <1>4 DEF IInv

\* The inductive invariant holds throughout every run of the saga.
THEOREM Invariance == Spec => []IInv
BY InitInv, StepInv, PTL DEF Spec

\* Rows, tasks, updates in flight, executions and callbacks keep their types.
THEOREM TypeCorrect == Spec => []TypeOK
<1>1. IInv => TypeOK
  BY DEF IInv
<1> QED BY <1>1, Invariance, PTL

\* Under LDAP no row claims that mails, an issue or completion followed unless
\* the account it is about was saved: what the first upsert of the pipeline is
\* there to guarantee, for any number of hires, jobs, restarts and duplicates.
THEOREM Notified == Spec => []NotifiedHasAccount
<1>1. IInv => NotifiedHasAccount
  BY DEF IInv
<1> QED BY <1>1, Invariance, PTL

\* A row becomes COMPLETED only through a callback of an n8n execution that
\* opened its issue: no sweep, retry or pipeline takes that decision.
THEOREM Confirmed == Spec => []CompletedConfirmed
<1>1. IInv => CompletedConfirmed
  BY DEF IInv
<1> QED BY <1>1, Invariance, PTL

\* Only a rollback removes a row, and its audit entry is committed with it,
\* however many rollback and offboard requests for one hire overlap.
THEOREM Audited == Spec => []RollbackAudited
<1>1. IInv => RollbackAudited
  BY DEF IInv
<1> QED BY <1>1, Invariance, PTL

-----------------------------------------------------------------------------
(***************************************************************************)
(* The refinement of OnboardingLedger.  The mapping reads IInv before and  *)
(* after a step, and two more facts.                                       *)
(***************************************************************************)
LedgerInv == IInv /\ RequestsOfHires /\ OnlyLdapHasIds

-----------------------------------------------------------------------------
(***************************************************************************)
(* The two more facts are invariant.                                       *)
(***************************************************************************)

\* No step forgets the address of a hire.
LEMMA AddressesStay ==
  ASSUME TypeOK, [Next]_vars, NEW u \in Users, emailOf[u] # NoEmail
  PROVE  emailOf'[u] = emailOf[u]
<1>1. ASSUME NEW v \in Users, NEW e \in Emails, NEW j \in Jobs, Onboard(v, e, j)
      PROVE  emailOf'[u] = emailOf[u]
  BY <1>1, OnboardEffect DEF TypeOK
<1>2. CASE emailOf' = emailOf
  BY <1>2
<1>3. \/ emailOf' = emailOf
      \/ \E v \in Users, e \in Emails, j \in Jobs : Onboard(v, e, j)
  <2>1. ASSUME NEW v \in Users, NEW j \in Jobs, NEW rot \in BOOLEAN, Retry(v, j, rot)
        PROVE  emailOf' = emailOf
    BY <2>1 DEF Retry
  <2>2. ASSUME NEW j \in Jobs, Pipeline(j) \/ N8n(j)
        PROVE  emailOf' = emailOf
    BY <2>2 DEF Pipeline, Start, Create, LoadRow, SaveAccount, SetPassword, Announce,
       ResumeLoad, ResumeClaim, ResumeAnnounce, Dispatch, NotDispatched, Raise,
       MarkFailed, N8n, N8nMail, N8nIssue, N8nError, N8nDies, N8nStep
  <2>3. ASSUME NEW j \in Jobs, NEW s \in CallbackStatus, ReportJobStatus(j, s)
        PROVE  emailOf' = emailOf
    BY <2>3 DEF ReportJobStatus
  <2>4. ASSUME NEW j \in Jobs, NEW s \in Reported, CommitStatus(j, s)
        PROVE  emailOf' = emailOf
    BY <2>4 DEF CommitStatus
  <2>5. ASSUME NEW q \in Requests,
               Handler(q) \/ \E v \in Users : RollbackRead(q, v) \/ OffboardRead(q, v)
        PROVE  emailOf' = emailOf
    BY <2>5 DEF RollbackRead, OffboardRead, Handler, RollbackDirectory, RollbackCommit,
       OffboardDirectory, OffboardCommit, RequestRaises
  <2>6. CASE Sweep \/ Crash \/ UNCHANGED vars
    BY <2>6 DEF Sweep, Crash, vars
  <2> QED BY <2>1, <2>2, <2>3, <2>4, <2>5, <2>6 DEF Next, Admin
<1> QED BY <1>1, <1>2, <1>3

\* A request starts for a hire with a row, and its later steps keep the hire.
LEMMA RequestsStep ==
  ASSUME TypeOK, JobsStayWithHires, RequestsOfHires, [Next]_vars
  PROVE  RequestsOfHires'
<1>1. SUFFICES ASSUME NEW p \in Requests, req'[p].user \in Users
               PROVE  emailOf[req'[p].user] # NoEmail
  BY AddressesStay, SentinelAssumption DEF RequestsOfHires
<1>2. CASE req' = req
  BY <1>1, <1>2 DEF RequestsOfHires
<1>3. ASSUME NEW q \in Requests, NEW v \in Users, RollbackRead(q, v) \/ OffboardRead(q, v)
      PROVE  emailOf[req'[p].user] # NoEmail
  BY <1>1, <1>3, Accepted DEF JobsStayWithHires, RequestsOfHires, TypeOK
<1>4. ASSUME NEW q \in Requests, Handler(q)
      PROVE  emailOf[req'[p].user] # NoEmail
  <2>1. Proceed(q) \/ Respond(q)
    BY <1>4 DEF Handler, RollbackDirectory, RollbackCommit, OffboardDirectory,
       OffboardCommit, RequestRaises
  <2> QED BY <1>1, <2>1, Responds, SentinelAssumption DEF RequestsOfHires, TypeOK
<1>5. CASE Crash
  BY <1>1, <1>5, SentinelAssumption DEF Crash, NoRequest
<1>6. \/ req' = req \/ Crash
      \/ \E q \in Requests, v \in Users : RollbackRead(q, v) \/ OffboardRead(q, v)
      \/ \E q \in Requests : Handler(q)
  <2>1. ASSUME NEW v \in Users, NEW e \in Emails, NEW j \in Jobs, Onboard(v, e, j)
        PROVE  req' = req
    BY <2>1 DEF Onboard
  <2>2. ASSUME NEW j \in Jobs, Pipeline(j) \/ N8n(j)
        PROVE  req' = req
    BY <2>2 DEF Pipeline, Start, Create, LoadRow, SaveAccount, SetPassword, Announce,
       ResumeLoad, ResumeClaim, ResumeAnnounce, Dispatch, NotDispatched, Raise,
       MarkFailed, N8n, N8nMail, N8nIssue, N8nError, N8nDies, N8nStep
  <2>3. ASSUME NEW j \in Jobs, NEW s \in CallbackStatus, ReportJobStatus(j, s)
        PROVE  req' = req
    BY <2>3 DEF ReportJobStatus
  <2>4. ASSUME NEW j \in Jobs, NEW s \in Reported, CommitStatus(j, s)
        PROVE  req' = req
    BY <2>4 DEF CommitStatus
  <2>6. CASE Sweep \/ UNCHANGED vars
    BY <2>6 DEF Sweep, vars
  <2>7. ASSUME NEW v \in Users, NEW j \in Jobs, NEW rot \in BOOLEAN, Retry(v, j, rot)
        PROVE  req' = req
    BY <2>7 DEF Retry
  <2> QED BY <2>1, <2>2, <2>3, <2>4, <2>6, <2>7 DEF Next, Admin
<1> QED BY <1>2, <1>3, <1>4, <1>5, <1>6

\* Only an upsert sets external_id, and only to what an LDAP provider returns.
LEMMA IdsStep ==
  ASSUME IInv, OnlyLdapHasIds, [Next]_vars
  PROVE  OnlyLdapHasIds'
<1> USE DEF IInv
<1>1. ASSUME NEW u \in Users, NEW e \in Emails, NEW j \in Jobs, Onboard(u, e, j)
      PROVE  OnlyLdapHasIds'
  <2> DEFINE r == [job |-> j, jstat |-> "PENDING", ext |-> FALSE, st |-> "active"]
  <2>1. rec \in [Users -> Record] /\ (rec' = rec \/ rec' = [rec EXCEPT ![u] = r])
    BY <1>1 DEF Onboard, TypeOK
  <2>2. r.ext = FALSE
    OBVIOUS
  <2> HIDE DEF r
  <2>3. \A v \in Users : rec'[v].ext \in {rec[v].ext, FALSE}
    BY <2>1, <2>2
  <2> QED BY <2>3 DEF OnlyLdapHasIds, OnLdap
<1>2. ASSUME NEW u \in Users, NEW j \in Jobs, NEW rot \in BOOLEAN, Retry(u, j, rot)
      PROVE  OnlyLdapHasIds'
  BY <1>2, RetryEffect DEF OnlyLdapHasIds, RowBecomes, OnLdap
<1>3. ASSUME NEW j \in Jobs, Quiet(j) PROVE OnlyLdapHasIds'
  BY <1>3, QuietEffect DEF OnlyLdapHasIds, OnLdap
<1>4. ASSUME NEW j \in Jobs, SaveAccount(j) PROVE OnlyLdapHasIds'
  BY <1>4, SaveAccountEffect DEF OnlyLdapHasIds, RowBecomes, OnLdap, Upsert
<1>5. ASSUME NEW j \in Jobs, Announce(j) PROVE OnlyLdapHasIds'
  BY <1>5, AnnounceEffect DEF OnlyLdapHasIds, RowBecomes, OnLdap, Upsert
<1>6. ASSUME NEW j \in Jobs, ResumeClaim(j) PROVE OnlyLdapHasIds'
  BY <1>6, ResumeClaimEffect DEF OnlyLdapHasIds, RowBecomes, OnLdap
<1>7. ASSUME NEW j \in Jobs, ResumeAnnounce(j) PROVE OnlyLdapHasIds'
  BY <1>7, ResumeAnnounceEffect DEF OnlyLdapHasIds, RowBecomes, OnLdap
<1>8. ASSUME NEW j \in Jobs, Dispatch(j) PROVE OnlyLdapHasIds'
  BY <1>8, DispatchEffect DEF OnlyLdapHasIds, OnLdap
<1>9. ASSUME NEW j \in Jobs, NotDispatched(j) PROVE OnlyLdapHasIds'
  BY <1>9, NotDispatchedEffect DEF OnlyLdapHasIds, OnLdap
<1>10. ASSUME NEW j \in Jobs, MarkFailed(j) PROVE OnlyLdapHasIds'
  BY <1>10, MarkFailedEffect DEF OnlyLdapHasIds, OnLdap
<1>11. ASSUME NEW j \in Jobs, N8n(j) PROVE OnlyLdapHasIds'
  BY <1>11, N8nEffect DEF OnlyLdapHasIds, OnLdap
<1>12. ASSUME NEW j \in Jobs, NEW s \in CallbackStatus, ReportJobStatus(j, s)
       PROVE  OnlyLdapHasIds'
  BY <1>12, ReportEffect DEF OnlyLdapHasIds, OnLdap
<1>13. ASSUME NEW j \in Jobs, NEW s \in Reported, CommitStatus(j, s)
       PROVE  OnlyLdapHasIds'
  BY <1>13, CommitStatusEffect DEF OnlyLdapHasIds, RowBecomes, OnLdap
<1>14. ASSUME NEW q \in Requests, NEW u \in Users, RollbackCommit(q, u)
       PROVE  OnlyLdapHasIds'
  BY <1>14, RollbackCommitEffect DEF OnlyLdapHasIds, RowBecomes, OnLdap, NoRecord
<1>15. ASSUME NEW q \in Requests, NEW u \in Users, OffboardCommit(q, u)
       PROVE  OnlyLdapHasIds'
  BY <1>15, OffboardCommitEffect DEF OnlyLdapHasIds, RowBecomes, OnLdap
<1>16. CASE Sweep
  BY <1>16, SweptRows DEF OnlyLdapHasIds, OnLdap, TypeOK
<1>17. CASE Crash
  BY <1>17, CrashEffect DEF OnlyLdapHasIds, OnLdap
<1>18. CASE Untouched
  BY <1>18 DEF Untouched, OnlyLdapHasIds, OnLdap
<1> QED
  BY <1>1, <1>2, <1>3, <1>4, <1>5, <1>6, <1>7, <1>8, <1>9, <1>10, <1>11, <1>12,
     <1>13, <1>14, <1>15, <1>16, <1>17, <1>18, StepCases

\* What the refinement reads is invariant.
LEMMA LedgerInvariance == Spec => []LedgerInv
<1>1. Init => LedgerInv
  <2>1. Init => RequestsOfHires /\ OnlyLdapHasIds
    BY SentinelAssumption DEF Init, RequestsOfHires, OnlyLdapHasIds, NoRequest, NoRecord
  <2> QED BY <2>1, InitInv DEF LedgerInv
<1>2. LedgerInv /\ [Next]_vars => LedgerInv'
  <2> SUFFICES ASSUME LedgerInv, [Next]_vars PROVE LedgerInv'
    OBVIOUS
  <2>1. IInv' /\ OnlyLdapHasIds'
    BY StepInv, IdsStep DEF LedgerInv
  <2>2. RequestsOfHires'
    BY RequestsStep DEF LedgerInv, IInv
  <2> QED BY <2>1, <2>2 DEF LedgerInv
<1> QED BY <1>1, <1>2, PTL DEF Spec

-----------------------------------------------------------------------------
(***************************************************************************)
(* How the parts of the ledger follow the parts of the saga.               *)
(***************************************************************************)

\* The stage of a hire with a row, by the status of the row.
LEMMA StageOfRow ==
  ASSUME TypeOK, NEW u \in Users, emailOf[u] # NoEmail, HasRow(u)
  PROVE  /\ StageOf(u) \in {"begun", "announced", "failed", "partial", "completed"}
         /\ StageOf(u) \in {"announced", "partial"} =>
              rec[u].jstat \in {"EMAIL_SENDING", "JIRA_CREATING", "PARTIALLY_COMPLETE"}
         /\ StageOf(u) = "completed" => rec[u].jstat = "COMPLETED"
         /\ rec[u].jstat \in {"PENDING", "AD_CREATING"} => StageOf(u) = "begun"
         /\ rec[u].jstat \in {"EMAIL_SENDING", "JIRA_CREATING"} => StageOf(u) = "announced"
         /\ rec[u].jstat = "PARTIALLY_COMPLETE" => StageOf(u) = "partial"
         /\ rec[u].jstat = "FAILED" => StageOf(u) = "failed"
<1>1. rec[u].jstat \in JobStatus \cup {"none"}
  BY DEF TypeOK, Record
<1>2. rec[u].jstat \in JobStatus
  BY <1>1 DEF HasRow
<1> QED BY <1>2 DEF StageOf, HasRow, JobStatus

\* The stage of a hire without a row.
LEMMA StageWithoutRow ==
  ASSUME NEW u \in Users
  PROVE  /\ emailOf[u] = NoEmail => StageOf(u) = "unknown"
         /\ emailOf[u] # NoEmail /\ ~ HasRow(u) => StageOf(u) = "gone"
BY DEF StageOf, HasRow

\* A step that leaves the row and the address of a hire alone leaves the stage.
LEMMA SameStage ==
  ASSUME NEW u \in Users, emailOf'[u] = emailOf[u], rec'[u].jstat = rec[u].jstat
  PROVE  StageOf(u)' = StageOf(u) /\ (HasRow(u)' <=> HasRow(u))
BY DEF StageOf, HasRow

\* A step that changes one row changes one stage.
LEMMA OneRow ==
  ASSUME NEW u \in Users, NEW r \in Record, RowBecomes(u, r), emailOf' = emailOf
  PROVE  /\ Stage' = [Stage EXCEPT ![u] = StageOf(u)']
         /\ Accounts' = IF r.jstat # "none" /\ r.ext THEN Accounts \cup {u}
                                                    ELSE Accounts \ {u}
<1>1. \A v \in Users : v # u => StageOf(v)' = StageOf(v) /\ (HasRow(v)' <=> HasRow(v))
  BY SameStage DEF RowBecomes
<1>2. Stage' = [v \in Users |-> StageOf(v)']
  BY DEF Stage
<1>3. Stage' = [Stage EXCEPT ![u] = StageOf(u)']
  BY <1>1, <1>2 DEF Stage
<1>4. HasRow(u)' <=> r.jstat # "none"
  BY DEF RowBecomes, HasRow
<1>5. \A v \in Users : v \in Accounts' <=> HasRow(v)' /\ rec'[v].ext
  BY DEF Accounts
<1>6. \A v \in Users : v \in Accounts <=> HasRow(v) /\ rec[v].ext
  BY DEF Accounts
<1>7. Accounts \subseteq Users /\ Accounts' \subseteq Users
  BY DEF Accounts
<1>8. Accounts' = IF r.jstat # "none" /\ r.ext THEN Accounts \cup {u} ELSE Accounts \ {u}
  BY <1>1, <1>4, <1>5, <1>6, <1>7 DEF RowBecomes
<1> QED BY <1>3, <1>8

\* A step that changes no row and no address changes neither.
LEMMA NoRow ==
  ASSUME rec' = rec, emailOf' = emailOf
  PROVE  Stage' = Stage /\ Accounts' = Accounts
BY DEF Stage, StageOf, HasRow, Accounts

\* Jobs that keep their hire and finish no execution leave the issues alone.
LEMMA NoIssue ==
  ASSUME \A i \in Jobs : task'[i].user = task[i].user,
         \A i \in Jobs : wf'[i] = "done" <=> wf[i] = "done"
  PROVE  Issues' = Issues
BY DEF Issues, Owned

\* A new job has not finished, so it brings its hire no issue.
LEMMA NewJob ==
  ASSUME NEW j \in Jobs, wf' = wf, wf[j] = "idle",
         \A i \in Jobs : i # j => task'[i] = task[i]
  PROVE  Issues' = Issues
BY DEF Issues, Owned

-----------------------------------------------------------------------------
(***************************************************************************)
(* Every step of the saga is a step of the ledger, or none.                *)
(***************************************************************************)
LStep == [Ledger!Next]_(Ledger!ledger)

\* What leaves the variables alone leaves the ledger alone.
LEMMA Stutter ==
  ASSUME Stage' = Stage, Accounts' = Accounts, Issues' = Issues, audit' = audit
  PROVE  LStep
BY DEF LStep, Ledger!ledger

\* A row that is written and keeps its external_id: what it now says is backed
\* by the invariants of the state it is written in.
LEMMA RowWritten ==
  ASSUME IInv, IInv', NEW u \in Users, HasRow(u), NEW r \in Record, RowBecomes(u, r),
         r.jstat # "none", r.ext = rec[u].ext, emailOf' = emailOf,
         Issues' = Issues, audit' = audit
  PROVE  LStep
<1>1. emailOf[u] # NoEmail /\ emailOf'[u] # NoEmail
  BY DEF IInv, JobsStayWithHires
<1>2. HasRow(u)' /\ rec'[u] = r
  BY DEF HasRow, RowBecomes
<1>3. Stage[u] \in {"begun", "announced", "failed", "partial", "completed"}
  BY <1>1, StageOfRow DEF Stage, IInv
<1>4. /\ StageOf(u)' \in {"begun", "announced", "failed", "partial", "completed"}
      /\ StageOf(u)' \in {"announced", "partial"} =>
           rec'[u].jstat \in {"EMAIL_SENDING", "JIRA_CREATING", "PARTIALLY_COMPLETE"}
      /\ StageOf(u)' = "completed" => rec'[u].jstat = "COMPLETED"
  <2>1. rec'[u].jstat \in JobStatus
    BY <1>2 DEF Record
  <2> QED BY <1>1, <2>1 DEF HasRow, StageOf, JobStatus
<1>5. /\ Stage' = [Stage EXCEPT ![u] = StageOf(u)']
      /\ Accounts' = Accounts
      /\ u \in Accounts <=> r.ext
  <2>1. u \in Accounts <=> rec[u].ext
    BY DEF Accounts
  <2>2. Accounts' = IF r.ext THEN Accounts \cup {u} ELSE Accounts \ {u}
    BY OneRow
  <2>3. Accounts' = Accounts
    BY <2>1, <2>2
  <2> QED BY <2>1, <2>3, OneRow
<1>6. StageOf(u)' \in {"announced", "partial", "completed"} => (OnLdap => u \in Accounts)
  BY <1>2, <1>4, <1>5 DEF IInv, NotifiedHasAccount, OnLdap
<1>7. StageOf(u)' = "completed" => u \in Issues
  <2>1. StageOf(u)' = "completed" => u \in Issues'
    BY <1>4 DEF IInv, CompletedConfirmed, Issues, Owned
  <2> QED BY <2>1
<1>8. CASE StageOf(u)' \in {"begun", "failed"}
  BY <1>3, <1>5, <1>8 DEF LStep, Ledger!Next, Ledger!Write, Ledger!Enters, Ledger!Recorded
<1>9. CASE StageOf(u)' \in {"announced", "partial"}
  BY <1>3, <1>5, <1>6, <1>9
     DEF LStep, Ledger!Next, Ledger!Announce, Ledger!Enters, Ledger!Recorded,
         Ledger!HasAccount
<1>10. CASE StageOf(u)' = "completed"
  BY <1>3, <1>5, <1>6, <1>7, <1>10
     DEF LStep, Ledger!Next, Ledger!Complete, Ledger!Enters, Ledger!Recorded,
         Ledger!HasAccount
<1> QED BY <1>4, <1>8, <1>9, <1>10

\* An upsert of an existing row puts the account on record, one of a row that
\* is gone records the hire anew.
LEMMA RowUpserted ==
  ASSUME LedgerInv, IInv', NEW u \in Users, NEW r \in Record, RowBecomes(u, r),
         r.jstat # "none", r.ext = OnLdap, emailOf[u] # NoEmail,
         r.jstat \in {"AD_CREATING", "EMAIL_SENDING", rec[u].jstat},
         r.jstat = "EMAIL_SENDING" /\ OnLdap /\ HasRow(u) => rec[u].ext,
         emailOf' = emailOf, Issues' = Issues, audit' = audit
  PROVE  LStep
<1> USE DEF LedgerInv
<1>1. HasRow(u)' /\ rec'[u] = r /\ rec[u].ext \in BOOLEAN /\ TypeOK /\ TypeOK'
  BY DEF HasRow, RowBecomes, IInv, TypeOK, Record
<1>2. /\ Stage' = [Stage EXCEPT ![u] = StageOf(u)']
      /\ Accounts' = IF OnLdap THEN Accounts \cup {u} ELSE Accounts \ {u}
  BY OneRow
<1>3. ~ OnLdap => ~ rec[u].ext /\ u \notin Accounts
  BY DEF OnlyLdapHasIds, Accounts
<1>4. CASE HasRow(u) /\ r.ext = rec[u].ext
  BY <1>4, RowWritten
<1>5. CASE HasRow(u) /\ r.ext # rec[u].ext
  <2>6. r.ext \in BOOLEAN
    BY DEF Record
  <2>7. OnLdap
    BY <1>1, <1>3, <1>5, <2>6
  <2>8. ~ rec[u].ext
    BY <1>1, <1>5, <2>6, <2>7
  <2>1. OnLdap /\ r.jstat \in {"AD_CREATING", rec[u].jstat}
    BY <1>5, <2>7, <2>8
  <2>2. Stage[u] = StageOf(u)
    BY DEF Stage
  <2>3. StageOf(u)' = "begun" \/ StageOf(u)' = StageOf(u)
    BY <1>1, <1>5, <2>1 DEF StageOf, HasRow
  <2>4. Stage' = Stage \/ Stage' = [Stage EXCEPT ![u] = "begun"]
    BY <1>2, <2>2, <2>3 DEF Stage
  <2>5. Stage[u] \in {"begun", "announced", "failed", "partial", "completed"}
    BY <1>1, <1>5, <2>2, StageOfRow
  <2> QED BY <1>2, <2>1, <2>4, <2>5
          DEF LStep, Ledger!Next, Ledger!SaveAccount, Ledger!Enters, Ledger!Recorded
<1>6. CASE ~ HasRow(u)
  <2>1. Stage[u] = "gone"
    BY <1>6, StageWithoutRow DEF Stage
  <2>2. r.jstat \in {"AD_CREATING", "EMAIL_SENDING"}
    BY <1>6 DEF HasRow
  <2>3. StageOf(u)' = "begun" \/ StageOf(u)' = "announced"
    BY <1>1, <2>2 DEF StageOf, HasRow
  <2>4. Accounts' = IF OnLdap THEN Accounts \cup {u} ELSE Accounts
    BY <1>2, <1>3
  <2> QED BY <1>2, <2>1, <2>3, <2>4
          DEF LStep, Ledger!Next, Ledger!Reappear, Ledger!Enters
<1> QED BY <1>4, <1>5, <1>6

\* A new hire is a request; a taken address changes nothing in the ledger.
LEMMA OnboardLedger ==
  ASSUME LedgerInv, NEW u \in Users, NEW e \in Emails, NEW j \in Jobs, Onboard(u, e, j)
  PROVE  LStep
<1> USE DEF LedgerInv, IInv
<1> DEFINE r == [job |-> j, jstat |-> "PENDING", ext |-> FALSE, st |-> "active"]
<1>1. Issues' = Issues
  <2>1. wf' = wf /\ wf[j] = "idle"
    BY OnboardEffect DEF TasksHaveHires, Undispatched
  <2> QED BY <2>1, NewJob, OnboardEffect
<1>2. audit' = audit
  BY OnboardEffect
<1>3. CASE rec' = rec /\ emailOf' = emailOf
  BY <1>1, <1>2, <1>3, NoRow, Stutter
<1>4. CASE rec' = [rec EXCEPT ![u] = r] /\ emailOf' = [emailOf EXCEPT ![u] = e]
  <2>1. r.jstat = "PENDING" /\ r.ext = FALSE
    OBVIOUS
  <2> HIDE DEF r
  <2>2. /\ rec'[u].jstat = "PENDING" /\ rec'[u].ext = FALSE /\ emailOf'[u] # NoEmail
        /\ \A v \in Users : v # u => rec'[v] = rec[v] /\ emailOf'[v] = emailOf[v]
    BY <1>4, <2>1, SentinelAssumption DEF TypeOK
  <2>3. emailOf[u] = NoEmail /\ ~ HasRow(u)
    BY OnboardEffect DEF JobsStayWithHires
  <2>4. Stage[u] = "unknown"
    BY <2>3, StageWithoutRow DEF Stage
  <2>5. StageOf(u)' = "begun"
    BY <2>2 DEF StageOf, HasRow
  <2>6. \A v \in Users : v # u => StageOf(v)' = StageOf(v) /\ (HasRow(v)' <=> HasRow(v))
    BY <2>2, SameStage
  <2>7. Stage' = [v \in Users |-> StageOf(v)']
    BY DEF Stage
  <2>8. Stage' = [Stage EXCEPT ![u] = "begun"]
    BY <2>5, <2>6, <2>7 DEF Stage
  <2>9. Accounts' = Accounts
    BY <2>2, <2>3, <2>6 DEF Accounts
  <2> QED BY <1>1, <1>2, <2>4, <2>8, <2>9
          DEF LStep, Ledger!Next, Ledger!Request, Ledger!Enters
<1> QED BY <1>3, <1>4 DEF Onboard

\* A rollback that commits removes the hire; one that finds the row gone, or
\* whose audit entry is not written, changes nothing.
LEMMA RollbackLedger ==
  ASSUME LedgerInv, NEW q \in Requests, NEW u \in Users, RollbackCommit(q, u)
  PROVE  LStep
<1> USE DEF LedgerInv, IInv
<1>1. Issues' = Issues
  BY NoIssue, RollbackCommitEffect
<1>2. emailOf' = emailOf /\ emailOf[u] # NoEmail
  BY RollbackCommitEffect DEF RollbackCommit, RequestsOfHires, Serves
<1>3. CASE rec' = rec /\ audit' = audit
  BY <1>1, <1>2, <1>3, NoRow, Stutter
<1>4. CASE RowBecomes(u, NoRecord) /\ audit' = audit \cup {u}
  <2>1. NoRecord \in Record /\ NoRecord.jstat = "none"
    BY DEF NoRecord, Record
  <2>2. Stage' = [Stage EXCEPT ![u] = StageOf(u)'] /\ Accounts' = Accounts \ {u}
    BY <1>2, <1>4, <2>1, OneRow
  <2>3. StageOf(u)' = "gone"
    BY <1>2, <1>4, <2>1 DEF StageOf, HasRow, RowBecomes
  <2>4. audit' = audit \cup {u}
    BY <1>4
  <2>5. CASE HasRow(u)
    <3>1. Stage[u] \in {"begun", "announced", "failed", "partial", "completed"}
      BY <1>2, <2>5, StageOfRow DEF Stage
    <3> QED BY <1>1, <2>2, <2>3, <2>4, <3>1
            DEF LStep, Ledger!Next, Ledger!Remove, Ledger!Enters, Ledger!Recorded
  <2>6. CASE ~ HasRow(u)
    <3>1. Stage[u] = "gone" /\ u \notin Accounts
      BY <1>2, <2>6, StageWithoutRow DEF Stage, Accounts
    <3>2. u \in audit
      BY <1>2, <2>6 DEF RollbackAudited
    <3>3. Stage' = Stage /\ Accounts' = Accounts /\ audit' = audit
      BY <2>2, <2>3, <2>4, <3>1, <3>2 DEF Stage
    <3> QED BY <1>1, <3>3, Stutter
  <2> QED BY <2>5, <2>6
<1> QED BY <1>3, <1>4, RollbackCommitEffect

\* A sweep settles, all at once, hires whose rows were in progress.
LEMMA SweepLedger ==
  ASSUME LedgerInv, Sweep
  PROVE  LStep
<1> USE DEF LedgerInv, IInv
<1>1. Issues' = Issues /\ audit' = audit /\ emailOf' = emailOf
  BY NoIssue, SweptRows DEF TypeOK
<1>2. PICK S \in (SUBSET Stale) \ {{}} :
        rec' = [u \in Users |-> IF u \in S THEN [rec[u] EXCEPT !.jstat = Resolved(u)]
                                ELSE rec[u]]
  BY DEF Sweep
<1>3. S \subseteq Users /\ rec \in [Users -> Record]
      /\ \A u \in S : rec[u].jstat \in StaleStatuses /\ HasRow(u) /\ emailOf[u] # NoEmail
  BY DEF Stale, StaleStatuses, HasRow, JobsStayWithHires, TypeOK
<1>4. ASSUME NEW u \in Users
      PROVE  /\ rec'[u].ext = rec[u].ext
             /\ rec'[u].jstat = IF u \in S THEN Resolved(u) ELSE rec[u].jstat
  BY <1>2, <1>3 DEF Record
<1>5. Accounts' = Accounts
  BY <1>3, <1>4 DEF Accounts, HasRow, Resolved
<1>6. \A u \in S : Stage[u] \in {"begun", "announced"}
  BY <1>3, StageOfRow DEF Stage, StaleStatuses
<1>7. ASSUME NEW u \in Users
      PROVE  StageOf(u)' = IF u \notin S THEN Stage[u]
                           ELSE IF u \in Accounts THEN "partial" ELSE "failed"
  <2>1. CASE u \notin S
    BY <1>1, <1>4, <2>1, SameStage DEF Stage
  <2>2. CASE u \in S
    <3>1. u \in Accounts <=> rec[u].ext
      BY <1>3, <2>2 DEF Accounts
    <3>2. rec'[u].jstat = IF u \in Accounts THEN "PARTIALLY_COMPLETE" ELSE "FAILED"
      BY <1>4, <2>2, <3>1 DEF Resolved
    <3>3. emailOf'[u] # NoEmail
      BY <1>1, <1>3, <2>2
    <3> QED BY <2>2, <3>2, <3>3 DEF StageOf, HasRow
  <2> QED BY <2>1, <2>2
<1>8. Stage' = [u \in Users |-> StageOf(u)']
  BY DEF Stage
<1>9. Ledger!Sweep(S)
  BY <1>1, <1>5, <1>6, <1>7, <1>8 DEF Ledger!Sweep
<1> QED BY <1>3, <1>9 DEF LStep, Ledger!Next

\* n8n opens issues, and each of its other steps is none of the ledger's.
LEMMA N8nLedger ==
  ASSUME LedgerInv, NEW j \in Jobs, N8n(j)
  PROVE  LStep
<1> USE DEF LedgerInv, IInv
<1>1. UNCHANGED <<rec, emailOf, task, audit>>
  BY N8nEffect
<1>2. Stage' = Stage /\ Accounts' = Accounts /\ audit' = audit
  BY <1>1, NoRow
<1>3. (\A i \in Jobs : i # j => wf'[i] = wf[i]) /\ wf[j] # "done"
  BY N8nEffect
<1>4. CASE wf'[j] # "done"
  BY <1>1, <1>2, <1>3, <1>4, NoIssue, Stutter
<1>5. CASE wf'[j] = "done" /\ task[j].user \in Users
  <2> DEFINE u == task[j].user
  <2>1. Issues' = Issues \cup {u}
    BY <1>1, <1>3, <1>5 DEF Issues, Owned
  <2>2. emailOf[u] # NoEmail
    BY <1>5 DEF TasksHaveHires
  <2>3. Stage[u] # "unknown"
    BY <1>5, <2>2, StageOfRow, StageWithoutRow DEF Stage
  <2> QED BY <1>2, <1>5, <2>1, <2>3 DEF LStep, Ledger!Next, Ledger!OpenIssue
<1>6. CASE wf'[j] = "done" /\ task[j].user \notin Users
  BY <1>1, <1>2, <1>3, <1>6, Stutter DEF Issues, Owned
<1> QED BY <1>4, <1>5, <1>6

\* The rest moves tasks, callbacks and updates in flight, or writes one row.
LEMMA StepLedger ==
  ASSUME LedgerInv, IInv', [Next]_vars
  PROVE  LStep
<1> USE DEF LedgerInv, IInv
<1>1. ASSUME rec' = rec, emailOf' = emailOf, Issues' = Issues, audit' = audit
      PROVE  LStep
  BY <1>1, NoRow, Stutter
<1>2. ASSUME NEW u \in Users, NEW j \in Jobs, NEW rot \in BOOLEAN, Retry(u, j, rot)
      PROVE  LStep
  <2>1. wf' = wf /\ wf[j] = "idle"
    BY <1>2, RetryEffect DEF TasksHaveHires, Undispatched
  <2>2. Issues' = Issues
    BY <1>2, <2>1, NewJob, RetryEffect
  <2> QED BY <1>2, <2>2, RetryEffect, RowWritten
<1>3. ASSUME NEW j \in Jobs, Quiet(j) PROVE LStep
  <2>1. Issues' = Issues
    BY <1>3, NoIssue, QuietEffect DEF TaskMoves
  <2> QED BY <1>1, <1>3, <2>1, QuietEffect
<1>4. ASSUME NEW j \in Jobs, SaveAccount(j) PROVE LStep
  <2>1. Issues' = Issues
    BY <1>4, NoIssue, SaveAccountEffect DEF TaskMoves
  <2>2. audit' = audit /\ emailOf' = emailOf /\ task[j].user \in Users
    BY <1>4, SaveAccountEffect
  <2>3. emailOf[task[j].user] # NoEmail
    BY <2>2 DEF TasksHaveHires
  <2>4. CASE Upsert(j, {"AD_CREATING"})
    <3>1. rec[task[j].user].jstat = "EMAIL_SENDING" /\ OnLdap => rec[task[j].user].ext
      BY <2>2 DEF NotifiedHasAccount
    <3> QED BY <2>1, <2>2, <2>3, <2>4, <3>1, RowUpserted DEF Upsert, OnLdap
  <2> QED BY <1>1, <1>4, <2>1, <2>2, <2>4, SaveAccountEffect
<1>5. ASSUME NEW j \in Jobs, Announce(j) PROVE LStep
  <2>1. Issues' = Issues
    BY <1>5, NoIssue, AnnounceEffect DEF TaskMoves
  <2>2. emailOf' = emailOf /\ task[j].user \in Users
    BY <1>5, AnnounceEffect
  <2>3. emailOf[task[j].user] # NoEmail
    BY <2>2 DEF TasksHaveHires
  <2>5. audit' = audit
    BY <1>5, AnnounceEffect
  <2>6. OnLdap /\ HasRow(task[j].user) => rec[task[j].user].ext
    BY <1>5, <2>2, AnnounceEffect DEF ReportersSawAccount, Saved
  <2>7. CASE Upsert(j, {"EMAIL_SENDING"})
    BY <2>1, <2>2, <2>3, <2>5, <2>6, <2>7, RowUpserted DEF Upsert, OnLdap
  <2> QED BY <1>1, <1>5, <2>1, <2>2, <2>5, <2>7, AnnounceEffect
<1>6. ASSUME NEW j \in Jobs, ResumeClaim(j) PROVE LStep
  <2>1. Issues' = Issues
    BY <1>6, NoIssue, ResumeClaimEffect DEF TaskMoves
  <2>2. audit' = audit /\ emailOf' = emailOf /\ task[j].user \in Users
    BY <1>6, ResumeClaimEffect
  <2>3. CASE rec' = rec
    BY <1>1, <2>1, <2>2, <2>3
  <2>4. CASE rec' # rec
    <3>1. /\ HasRow(task[j].user)
          /\ \E r \in Record : /\ RowBecomes(task[j].user, r)
                               /\ r.jstat \in {"AD_CREATING", rec[task[j].user].jstat}
                               /\ r.ext = rec[task[j].user].ext
      BY <1>6, <2>4, ResumeClaimEffect
    <3> QED BY <2>1, <2>2, <3>1, RowWritten DEF HasRow
  <2> QED BY <2>3, <2>4
<1>7. ASSUME NEW j \in Jobs, ResumeAnnounce(j) PROVE LStep
  <2>1. Issues' = Issues
    BY <1>7, NoIssue, ResumeAnnounceEffect DEF TaskMoves
  <2>2. audit' = audit /\ emailOf' = emailOf /\ task[j].user \in Users
    BY <1>7, ResumeAnnounceEffect
  <2>3. CASE rec' = rec
    BY <1>1, <2>1, <2>2, <2>3
  <2>4. CASE rec' # rec
    <3>1. /\ HasRow(task[j].user)
          /\ \E r \in Record : /\ RowBecomes(task[j].user, r)
                               /\ r.jstat = "EMAIL_SENDING"
                               /\ r.ext = rec[task[j].user].ext
      BY <1>7, <2>4, ResumeAnnounceEffect
    <3> QED BY <2>1, <2>2, <3>1, RowWritten
  <2> QED BY <2>3, <2>4
<1>8. ASSUME NEW j \in Jobs, Dispatch(j) PROVE LStep
  <2>1. \A i \in Jobs : wf'[i] = "done" <=> wf[i] = "done"
    BY <1>8, DispatchEffect DEF TypeOK
  <2>2. Issues' = Issues
    BY <1>8, <2>1, NoIssue, DispatchEffect DEF TaskMoves
  <2> QED BY <1>1, <1>8, <2>2, DispatchEffect
<1>9. ASSUME NEW j \in Jobs, NotDispatched(j) PROVE LStep
  <2>1. Issues' = Issues
    BY <1>9, NoIssue, NotDispatchedEffect DEF TaskMoves
  <2> QED BY <1>1, <1>9, <2>1, NotDispatchedEffect
<1>10. ASSUME NEW j \in Jobs, MarkFailed(j) PROVE LStep
  <2>1. Issues' = Issues
    BY <1>10, NoIssue, MarkFailedEffect DEF TaskMoves
  <2> QED BY <1>1, <1>10, <2>1, MarkFailedEffect
<1>11. ASSUME NEW j \in Jobs, N8n(j) PROVE LStep
  BY <1>11, N8nLedger
<1>12. ASSUME NEW j \in Jobs, NEW s \in CallbackStatus, ReportJobStatus(j, s)
       PROVE  LStep
  <2>1. Issues' = Issues
    BY <1>12, NoIssue, ReportEffect
  <2> QED BY <1>1, <1>12, <2>1, ReportEffect
<1>13. ASSUME NEW j \in Jobs, NEW s \in Reported, CommitStatus(j, s)
       PROVE  LStep
  <2>1. \A i \in Jobs : task'[i].user = task[i].user
    BY <1>13, CommitStatusEffect DEF TaskMoves
  <2>2. \A i \in Jobs : wf'[i] = "done" <=> wf[i] = "done"
    BY <1>13, CommitStatusEffect
  <2>3. Issues' = Issues
    BY <2>1, <2>2, NoIssue
  <2>4. audit' = audit /\ emailOf' = emailOf
    BY <1>13, CommitStatusEffect
  <2>5. s # "none"
    BY DEF Reported, CallbackStatus
  <2> QED BY <1>1, <1>13, <2>3, <2>4, <2>5, CommitStatusEffect, RowWritten
<1>14. ASSUME NEW q \in Requests, NEW u \in Users, RollbackCommit(q, u) PROVE LStep
  BY <1>14, RollbackLedger
<1>15. ASSUME NEW q \in Requests, NEW u \in Users, OffboardCommit(q, u) PROVE LStep
  <2>1. Issues' = Issues /\ emailOf' = emailOf
    BY <1>15, NoIssue, OffboardCommitEffect
  <2>3. audit' = audit
    BY <1>15, OffboardCommitEffect
  <2>4. CASE rec' = rec
    BY <1>1, <2>1, <2>3, <2>4
  <2>5. CASE rec' # rec
    <3>1. HasRow(u)
      BY <1>15, <2>5 DEF OffboardCommit
    <3> QED BY <1>15, <2>1, <2>3, <2>5, <3>1, OffboardCommitEffect, RowWritten DEF HasRow
  <2> QED BY <2>4, <2>5
<1>16. CASE Sweep
  BY <1>16, SweepLedger
<1>17. CASE Crash
  <2>1. Issues' = Issues
    BY <1>17, NoIssue, CrashEffect
  <2> QED BY <1>1, <1>17, <2>1, CrashEffect
<1>18. CASE Untouched
  <2>1. Issues' = Issues
    BY <1>18, NoIssue DEF Untouched
  <2> QED BY <1>1, <1>18, <2>1 DEF Untouched
<1>19. ASSUME NEW u \in Users, NEW e \in Emails, NEW j \in Jobs, Onboard(u, e, j)
       PROVE  LStep
  BY <1>19, OnboardLedger
<1> QED
  BY <1>2, <1>3, <1>4, <1>5, <1>6, <1>7, <1>8, <1>9, <1>10, <1>11, <1>12, <1>13, <1>14,
     <1>15, <1>16, <1>17, <1>18, <1>19, StepCases

\* Nobody is known before anybody is requested.
LEMMA InitLedger == Init => Ledger!Init
<1> SUFFICES ASSUME Init PROVE Ledger!Init
  OBVIOUS
<1>1. \A u \in Users : StageOf(u) = "unknown" /\ ~ HasRow(u)
  BY DEF Init, StageOf, HasRow, NoRecord
<1>2. (\A j \in Jobs : wf[j] # "done") /\ audit = {}
  BY DEF Init
<1>3. Issues = {} /\ audit = {} /\ Accounts = {}
  <2>1. Issues = {}
    BY <1>2 DEF Issues, Owned
  <2>2. Accounts = {}
    BY <1>1 DEF Accounts
  <2> QED BY <1>2, <2>1, <2>2
<1> QED BY <1>1, <1>3 DEF Ledger!Init, Stage

\* The onboarding saga implements the ledger: whatever tasks, callbacks, sweeps,
\* requests and restarts do to each other, a hire is announced only with an
\* account on record, completed only after the issue was opened, and removed
\* only together with the audit entry.
THEOREM Implements == Spec => KeepsLedger
<1>1. LedgerInv /\ LedgerInv' /\ [Next]_vars => [Ledger!Next]_(Ledger!ledger)
  BY StepLedger DEF LStep, LedgerInv
<1> QED BY <1>1, InitLedger, LedgerInvariance, PTL DEF Spec, KeepsLedger, Ledger!Spec

-----------------------------------------------------------------------------
(***************************************************************************)
(* What a step does to the directory, to a task that was handed out, to a  *)
(* new one and to a row.                                                   *)
(***************************************************************************)
Place(j) == Uid[emailOf[task[j].user]]
SameEntry(d) == dir'[d].emp = dir[d].emp /\ dir'[d].pw = dir[d].pw
Created(j) ==
  LET d == Place(j)
  IN /\ task[j].pc = "create" /\ task[j].user \in Users
     /\ dir[d].emp = Nobody
     /\ dir'[d].emp = task[j].user /\ dir'[d].pw = NoJob
     /\ \A c \in Uids \ {d} : SameEntry(c)
PasswordSet(j) ==
  LET d == Place(j)
  IN /\ OnLdap
     /\ task[j].pc = "setpw" /\ task[j].user \in Users
     /\ dir'[d].emp = dir[d].emp /\ dir'[d].pw = j
     /\ \A c \in Uids \ {d} : SameEntry(c)
AccountDeleted(u) ==
  \A d \in Uids : IF dir[d].emp = u THEN dir'[d].emp = Nobody /\ dir'[d].pw = NoJob
                  ELSE SameEntry(d)

\* The steps that change the directory.
LEMMA OthersKeepDirectory ==
  ASSUME [Next]_vars,
         \A j \in Jobs : ~ Create(j) /\ ~ SetPassword(j),
         \A q \in Requests, u \in Users : ~ RollbackDirectory(q, u) /\ ~ OffboardDirectory(q, u)
  PROVE  dir' = dir
<1>2. ASSUME NEW j \in Jobs, Pipeline(j) \/ N8n(j)
      PROVE  dir' = dir
  BY <1>2 DEF Pipeline, Start, LoadRow, SaveAccount, Announce, ResumeLoad, ResumeClaim,
     ResumeAnnounce, Dispatch, NotDispatched, Raise, MarkFailed, N8n, N8nMail, N8nIssue,
     N8nError, N8nDies, N8nStep
<1>3. ASSUME NEW j \in Jobs, NEW s \in CallbackStatus, ReportJobStatus(j, s)
      PROVE  dir' = dir
  BY <1>3 DEF ReportJobStatus
<1>4. ASSUME NEW j \in Jobs, NEW s \in Reported, CommitStatus(j, s)
      PROVE  dir' = dir
  BY <1>4 DEF CommitStatus
<1>5. ASSUME NEW q \in Requests,
             Handler(q) \/ \E u \in Users : RollbackRead(q, u) \/ OffboardRead(q, u)
      PROVE  dir' = dir
  BY <1>5 DEF RollbackRead, OffboardRead, Handler, RollbackCommit, OffboardCommit,
     RequestRaises
<1>6. CASE Sweep \/ Crash \/ UNCHANGED vars
  BY <1>6 DEF Sweep, Crash, vars
<1>7. ASSUME NEW u \in Users, NEW j \in Jobs, NEW rot \in BOOLEAN, Retry(u, j, rot)
      PROVE  dir' = dir
  BY <1>7 DEF Retry
<1>1. ASSUME NEW u \in Users, NEW e \in Emails, NEW j \in Jobs, Onboard(u, e, j)
      PROVE  dir' = dir
  BY <1>1 DEF Onboard
<1> QED BY <1>1, <1>2, <1>3, <1>4, <1>5, <1>6, <1>7 DEF Next, Admin

\* A live task's place is an entry of the directory.
LEMMA PlaceType ==
  ASSUME TypeOK, TasksHaveHires, NEW j \in Jobs, task[j].user \in Users
  PROVE  Place(j) \in Uids
BY UidAssumption DEF TypeOK, TasksHaveHires, Place

\* Creating an account takes the entry of the address, or changes nothing.
LEMMA CreateEffect ==
  ASSUME TypeOK, TasksHaveHires, NEW j \in Jobs, Create(j)
  PROVE  /\ dir' = dir \/ Created(j)
         /\ TaskMoves(j, {"fail"}) \/ (TaskMoves(j, {"load1"}) /\ (OnLdap => Created(j)))
         /\ wf' = wf /\ task[j].pc = "create"
<1> DEFINE u == task[j].user
           d == Uid[emailOf[u]]
           n == [NoEntry EXCEPT !.emp = u]
<1>1. task[j].pc = "create" /\ wf' = wf /\ u \in Users
  BY DEF Create, TasksHaveHires, Ended
<1>2. d \in Uids /\ dir \in [Uids -> Entry] /\ task \in [Jobs -> Task]
  BY <1>1, PlaceType DEF Place, TypeOK
<1>3. n.emp = u /\ n.pw = NoJob
  BY DEF NoEntry
<1>4. ASSUME dir[d].emp = Nobody, dir' = [dir EXCEPT ![d] = n]
      PROVE  Created(j)
  <2> HIDE DEF n
  <2>1. dir'[d] = n /\ \A c \in Uids \ {d} : dir'[c] = dir[c]
    BY <1>2, <1>4
  <2> QED BY <1>1, <1>3, <1>4, <2>1 DEF Created, Place, SameEntry
<1>5. TaskMoves(j, {"fail"}) \/ TaskMoves(j, {"load1"})
  BY <1>2, GotoMoves DEF Create, CreateLdap, CreateLocal, Pcs
<1>6. CASE OnLdap
  <2>1. \/ Goto(j, "fail") /\ dir' = dir
        \/ dir[d].emp = Nobody /\ dir' = [dir EXCEPT ![d] = n] /\ Goto(j, "load1")
        \/ dir[d].emp = Nobody /\ dir' = [dir EXCEPT ![d] = n] /\ Goto(j, "fail")
    BY <1>6 DEF Create, CreateLdap, OnLdap
  <2> HIDE DEF n, d, u
  <2>2. Goto(j, "fail") => TaskMoves(j, {"fail"})
    BY <1>2, GotoMoves DEF Pcs
  <2> QED BY <1>1, <1>4, <1>5, <2>1, <2>2
<1>7. CASE ~ OnLdap
  BY <1>1, <1>5, <1>7 DEF Create, CreateLocal, OnLdap
<1> QED BY <1>6, <1>7

\* The new password goes to the entry of the address, or the task fails.
LEMMA SetPasswordEffect ==
  ASSUME TypeOK, TasksHaveHires, NEW j \in Jobs, SetPassword(j)
  PROVE  /\ dir' = dir \/ PasswordSet(j)
         /\ \/ TaskMoves(j, {"fail"})
            \/ TaskMoves(j, {"load2", "rstore2"}) /\ (OnLdap => PasswordSet(j))
         /\ wf' = wf /\ task[j].pc = "setpw"
<1> DEFINE u == task[j].user
           d == Uid[emailOf[u]]
           n == [dir[d] EXCEPT !.pw = j]
<1>1. task[j].pc = "setpw" /\ wf' = wf /\ u \in Users
  BY DEF SetPassword, TasksHaveHires, Ended
<1>2. d \in Uids /\ dir \in [Uids -> Entry] /\ task \in [Jobs -> Task]
  BY <1>1, PlaceType DEF Place, TypeOK
<1>3. n.emp = dir[d].emp /\ n.pw = j
  BY <1>2 DEF Entry
<1>4. ASSUME OnLdap, dir' = [dir EXCEPT ![d].pw = j]
      PROVE  PasswordSet(j)
  <2>1. dir' = [dir EXCEPT ![d] = n]
    BY <1>4
  <2> HIDE DEF n
  <2>2. dir'[d] = n /\ \A c \in Uids \ {d} : dir'[c] = dir[c]
    BY <1>2, <2>1
  <2> QED BY <1>1, <1>3, <1>4, <2>2 DEF PasswordSet, Place, SameEntry
<1>5. \/ Goto(j, "fail") /\ dir' = dir
      \/ /\ Goto(j, "load2") \/ Goto(j, "rstore2")
         /\ dir' = IF OnLdap THEN [dir EXCEPT ![d].pw = j] ELSE dir
  BY DEF SetPassword, OnLdap
<1> HIDE DEF n, d, u
<1>6. Goto(j, "fail") => TaskMoves(j, {"fail"})
  BY <1>2, GotoMoves DEF Pcs
<1>7. Goto(j, "load2") \/ Goto(j, "rstore2") => TaskMoves(j, {"load2", "rstore2"})
  <2>1. TaskMoves(j, {"load2"}) => TaskMoves(j, {"load2", "rstore2"})
    BY DEF TaskMoves
  <2>2. TaskMoves(j, {"rstore2"}) => TaskMoves(j, {"load2", "rstore2"})
    BY DEF TaskMoves
  <2> QED BY <1>2, <2>1, <2>2, GotoMoves DEF Pcs
<1> QED BY <1>1, <1>4, <1>5, <1>6, <1>7

\* Every step leaves the directory's hires and passwords alone, creates one
\* account, sets one password or deletes one hire's account.
LEMMA DirectoryStep ==
  ASSUME TypeOK, TasksHaveHires, [Next]_vars
  PROVE  \/ \A d \in Uids : SameEntry(d)
         \/ \E j \in Jobs : Created(j) \/ PasswordSet(j)
         \/ \E u \in Users : AccountDeleted(u)
<1>1. dir' = dir => \A d \in Uids : SameEntry(d)
  BY DEF SameEntry
<1>2. ASSUME NEW j \in Jobs, Create(j) PROVE dir' = dir \/ Created(j)
  BY <1>2, CreateEffect
<1>3. ASSUME NEW j \in Jobs, SetPassword(j) PROVE dir' = dir \/ PasswordSet(j)
  BY <1>3, SetPasswordEffect
<1>4. ASSUME NEW q \in Requests, NEW u \in Users, RollbackDirectory(q, u)
      PROVE  dir' = dir \/ AccountDeleted(u)
  <2>1. NoEntry.emp = Nobody /\ NoEntry.pw = NoJob
    BY DEF NoEntry
  <2> QED BY <1>4, <2>1 DEF RollbackDirectory, AccountDeleted, SameEntry, Account
<1>5. ASSUME NEW q \in Requests, NEW u \in Users, OffboardDirectory(q, u)
      PROVE  \A d \in Uids : SameEntry(d)
  <2>1. ASSUME NEW d \in Uids
        PROVE  LET n == [dir[d] EXCEPT !.st = "offboarded"]
               IN n.emp = dir[d].emp /\ n.pw = dir[d].pw
    BY DEF TypeOK, Entry
  <2> QED BY <1>5, <2>1 DEF OffboardDirectory, SameEntry
<1> QED BY <1>1, <1>2, <1>3, <1>4, <1>5, OthersKeepDirectory

\* A task that was handed out keeps its hire, does not take up work again, gets
\* beyond the creation of the account by creating it, and has chosen a password
\* only after it set one.
Continues(i) ==
  /\ task'[i].user = task[i].user /\ task'[i].rot = task[i].rot /\ ~ Fresh(i)'
  /\ AtWork(i)' => AtWork(i)
  /\ Beyond(i)' => Beyond(i) \/ (OnLdap => Created(i))
  /\ task[i].rot /\ HasChosen(i)' => HasChosen(i) \/ (OnLdap => PasswordSet(i))

\* A step that moves one task, and begins an execution only at its dispatch.
LEMMA MoveContinues ==
  ASSUME NEW i \in Jobs, ~ Fresh(i), NEW j \in Jobs, NEW pcs, TaskMoves(j, pcs),
         "none" \notin pcs,
         wf'[i] # "idle" => wf[i] # "idle" \/ (i = j /\ task[j].pc = "dispatch"),
         \A pc \in pcs :
           /\ pc \in Choosing \cup Telling => task[j].pc \in Choosing \cup Telling
           /\ pc \in Saved \cup {"load1", "store1"} =>
                Beyond(j) \/ (OnLdap => Created(j))
           /\ task[j].rot /\ pc \in Telling \cup {"dispatch", "partial", "closing"} =>
                HasChosen(j) \/ (OnLdap => PasswordSet(j))
  PROVE  Continues(i)
<1>1. /\ task'[i].user = task[i].user /\ task'[i].rot = task[i].rot /\ ~ Fresh(i)'
      /\ i # j => task'[i].pc = task[i].pc
      /\ task'[j].pc \in pcs
  BY DEF TaskMoves, Fresh
<1>2. wf'[i] # "idle" => Beyond(i) /\ HasChosen(i)
  BY DEF Beyond, HasChosen, Saved
<1>3. AtWork(i)' => AtWork(i)
  BY <1>1 DEF AtWork
<1>4. Beyond(i)' => Beyond(i) \/ (OnLdap => Created(i))
  BY <1>1, <1>2 DEF Beyond
<1>5. task[i].rot /\ HasChosen(i)' => HasChosen(i) \/ (OnLdap => PasswordSet(i))
  BY <1>1, <1>2 DEF HasChosen
<1> QED BY <1>1, <1>3, <1>4, <1>5 DEF Continues

\* A step that leaves a task and whether its execution began.
LEMMA StayContinues ==
  ASSUME NEW i \in Jobs, ~ Fresh(i), task'[i].user = task[i].user,
         task'[i].rot = task[i].rot, task'[i].pc \in {task[i].pc, "done"},
         wf'[i] # "idle" => wf[i] # "idle"
  PROVE  Continues(i)
BY DEF Continues, Fresh, AtWork, Beyond, HasChosen, Choosing, Telling, Saved

\* Every step lets every task that was handed out continue.
LEMMA TasksContinue ==
  ASSUME TypeOK, TasksHaveHires, JobsStayWithHires, [Next]_vars,
         NEW i \in Jobs, ~ Fresh(i)
  PROVE  Continues(i)
<1>1. ASSUME NEW u \in Users, NEW e \in Emails, NEW j \in Jobs, Onboard(u, e, j)
      PROVE  Continues(i)
  BY <1>1, OnboardEffect, StayContinues DEF Fresh
<1>2. ASSUME NEW u \in Users, NEW j \in Jobs, NEW rot \in BOOLEAN, Retry(u, j, rot)
      PROVE  Continues(i)
  BY <1>2, RetryEffect, StayContinues DEF Fresh
<1>3. ASSUME NEW j \in Jobs, Quiet(j) PROVE Continues(i)
  <2>1. task \in [Jobs -> Task] /\ rec \in [Users -> Record]
    BY DEF TypeOK
  <2>2. CASE Start(j)
    <3>1. (TaskMoves(j, {"done"}) \/ TaskMoves(j, {"create"})) /\ wf' = wf /\ task[j].pc = "start"
      BY <2>1, <2>2, GotoMoves DEF Start, Pcs
    <3> QED BY <3>1, MoveContinues DEF Choosing, Telling, Saved
  <2>3. CASE Create(j)
    <3>1. ASSUME TaskMoves(j, {"fail"}), wf' = wf PROVE Continues(i)
      BY <3>1, MoveContinues DEF Choosing, Telling, Saved
    <3>2. ASSUME TaskMoves(j, {"load1"}), wf' = wf, task[j].pc = "create", OnLdap => Created(j)
          PROVE  Continues(i)
      BY <3>2, MoveContinues DEF Choosing, Telling, Saved
    <3> QED BY <2>3, <3>1, <3>2, CreateEffect
  <2>4. CASE SetPassword(j)
    <3>1. ASSUME TaskMoves(j, {"fail"}), wf' = wf PROVE Continues(i)
      BY <3>1, MoveContinues DEF Choosing, Telling, Saved
    <3>2. ASSUME TaskMoves(j, {"load2", "rstore2"}), wf' = wf, task[j].pc = "setpw",
                 OnLdap => PasswordSet(j)
          PROVE  Continues(i)
      BY <3>2, MoveContinues DEF Choosing, Telling, Saved, Beyond
    <3> QED BY <2>4, <3>1, <3>2, SetPasswordEffect
  <2>5. CASE ResumeLoad(j)
    <3>1. task[j].pc = "rload" /\ task[j].user \in Users /\ wf' = wf
      BY <2>5 DEF ResumeLoad, TasksHaveHires, Ended
    <3>2. TaskMoves(j, {"rstore1"}) \/ TaskMoves(j, {"done"})
      BY <2>1, <2>5, <3>1, GotoMoves, LoadMoves DEF ResumeLoad, Pcs
    <3> QED BY <3>1, <3>2, MoveContinues DEF Choosing, Telling, Saved, Beyond
  <2>6. CASE Raise(j)
    <3>1. TaskMoves(j, {"fail"}) /\ wf' = wf
      BY <2>1, <2>6, GotoMoves DEF Raise, Pcs
    <3> QED BY <3>1, MoveContinues DEF Choosing, Telling, Saved
  <2>7. CASE LoadRow(j, "load1", "store1")
    <3>1. task[j].pc = "load1" /\ task[j].user \in Users /\ wf' = wf
      BY <2>7 DEF LoadRow, TasksHaveHires, Ended
    <3>2. TaskMoves(j, {"store1"})
      BY <2>1, <2>7, <3>1, LoadMoves DEF LoadRow, Pcs
    <3> QED BY <3>1, <3>2, MoveContinues DEF Choosing, Telling, Saved, Beyond
  <2>8. CASE LoadRow(j, "load2", "store2")
    <3>1. task[j].pc = "load2" /\ task[j].user \in Users /\ wf' = wf
      BY <2>8 DEF LoadRow, TasksHaveHires, Ended
    <3>2. TaskMoves(j, {"store2"})
      BY <2>1, <2>8, <3>1, LoadMoves DEF LoadRow, Pcs
    <3> QED BY <3>1, <3>2, MoveContinues DEF Choosing, Telling, Saved, Beyond, HasChosen
  <2> QED BY <1>3, <2>2, <2>3, <2>4, <2>5, <2>6, <2>7, <2>8 DEF Quiet
<1>4. ASSUME NEW j \in Jobs, SaveAccount(j) PROVE Continues(i)
  <2>1. /\ TaskMoves(j, {"fail"}) \/ TaskMoves(j, {"setpw"})
        /\ wf' = wf /\ task[j].pc = "store1"
    BY <1>4, SaveAccountEffect
  <2> QED BY <2>1, MoveContinues DEF Choosing, Telling, Saved, Beyond
<1>5. ASSUME NEW j \in Jobs, Announce(j) PROVE Continues(i)
  <2>1. /\ TaskMoves(j, {"fail"}) \/ TaskMoves(j, {"dispatch"})
        /\ wf' = wf /\ task[j].pc = "store2"
    BY <1>5, AnnounceEffect
  <2> QED BY <2>1, MoveContinues DEF Choosing, Telling, Saved, Beyond, HasChosen
<1>6. ASSUME NEW j \in Jobs, ResumeClaim(j) PROVE Continues(i)
  <2>1. /\ task[j].pc = "rstore1" /\ wf' = wf
        /\ \/ TaskMoves(j, {"fail"}) \/ TaskMoves(j, {"setpw"})
           \/ TaskMoves(j, {"rstore2"}) /\ ~ task[j].rot
    BY <1>6, GotoMoves DEF ResumeClaim, TypeOK, Pcs
  <2> QED BY <2>1, MoveContinues DEF Choosing, Telling, Saved, Beyond
<1>7. ASSUME NEW j \in Jobs, ResumeAnnounce(j) PROVE Continues(i)
  <2>1. /\ TaskMoves(j, {"fail"}) \/ TaskMoves(j, {"dispatch"})
        /\ wf' = wf /\ task[j].pc = "rstore2"
    BY <1>7, ResumeAnnounceEffect
  <2> QED BY <2>1, MoveContinues DEF Choosing, Telling, Saved, Beyond, HasChosen
<1>8. ASSUME NEW j \in Jobs, Dispatch(j) PROVE Continues(i)
  <2>1. /\ task[j].pc = "dispatch" /\ TaskMoves(j, {"partial", "done"})
        /\ i # j => wf'[i] = wf[i]
    BY <1>8, DispatchEffect DEF TypeOK
  <2> QED BY <2>1, MoveContinues DEF Choosing, Telling, Saved, Beyond, HasChosen
<1>9. ASSUME NEW j \in Jobs, NotDispatched(j) PROVE Continues(i)
  <2>1. /\ TaskMoves(j, {"done"}) \/ TaskMoves(j, {"closing"})
        /\ wf' = wf /\ task[j].pc = "partial"
    BY <1>9, NotDispatchedEffect
  <2> QED BY <2>1, MoveContinues DEF Choosing, Telling, Saved, Beyond, HasChosen
<1>10. ASSUME NEW j \in Jobs, MarkFailed(j) PROVE Continues(i)
  <2>1. TaskMoves(j, {"done"}) /\ wf' = wf
    BY <1>10, MarkFailedEffect
  <2> QED BY <2>1, MoveContinues DEF Choosing, Telling, Saved
<1>11. ASSUME NEW j \in Jobs, N8n(j) PROVE Continues(i)
  BY <1>11, N8nEffect, StayContinues
<1>12. ASSUME NEW j \in Jobs, NEW s \in CallbackStatus, ReportJobStatus(j, s)
       PROVE  Continues(i)
  BY <1>12, ReportEffect, StayContinues
<1>13. ASSUME NEW j \in Jobs, NEW s \in Reported, CommitStatus(j, s)
       PROVE  Continues(i)
  <2>1. /\ task' = task \/ TaskMoves(j, {"done", "fail"})
        /\ wf'[i] # "idle" => wf[i] # "idle"
    BY <1>13, CommitStatusEffect
  <2> QED BY <2>1, MoveContinues, StayContinues DEF Choosing, Telling, Saved
<1>14. ASSUME NEW q \in Requests, NEW u \in Users, RollbackCommit(q, u) PROVE Continues(i)
  BY <1>14, RollbackCommitEffect, StayContinues
<1>15. ASSUME NEW q \in Requests, NEW u \in Users, OffboardCommit(q, u) PROVE Continues(i)
  BY <1>15, OffboardCommitEffect, StayContinues
<1>16. CASE Sweep
  BY <1>16, SweptRows, StayContinues DEF TypeOK
<1>17. CASE Crash
  BY <1>17, CrashEffect, StayContinues DEF Fresh
<1>18. CASE Untouched
  BY <1>18, StayContinues DEF Untouched
<1> QED
  BY <1>1, <1>2, <1>3, <1>4, <1>5, <1>6, <1>7, <1>8, <1>9, <1>10, <1>11, <1>12,
     <1>13, <1>14, <1>15, <1>16, <1>17, <1>18, StepCases

\* A job that is handed out is that of a hire's row, with an account if the row
\* has one; or the request was refused and it works for nobody.
LEMMA NewTask ==
  ASSUME TypeOK, TasksHaveHires, JobsStayWithHires, [Next]_vars, NEW i \in Jobs, Fresh(i)
  PROVE  /\ wf'[i] = "idle"
         /\ \/ task'[i].pc \in {"none", "done"} /\ task'[i].user = Nobody
            \/ LET u == task'[i].user
               IN /\ u \in Users /\ rec'[u].job = i
                  /\ \/ task'[i].pc = "start"
                     \/ task'[i].pc = "rload" /\ rec[u].ext /\ HasRow(u)
<1>1. task[i].pc = "none" /\ task[i].user = Nobody /\ wf[i] = "idle"
  BY DEF Fresh, TasksHaveHires, Undispatched
<1> DEFINE Goal == /\ wf'[i] = "idle"
                   /\ \/ task'[i].pc \in {"none", "done"} /\ task'[i].user = Nobody
                      \/ LET u == task'[i].user
                         IN /\ u \in Users /\ rec'[u].job = i
                            /\ \/ task'[i].pc = "start"
                               \/ task'[i].pc = "rload" /\ rec[u].ext /\ HasRow(u)
<1>2. ASSUME NEW j \in Jobs, NEW pcs, TaskMoves(j, pcs), task[j].pc # "none",
             i # j => wf'[i] = wf[i]
      PROVE  Goal
  BY <1>1, <1>2 DEF TaskMoves
<1>3. ASSUME task'[i].pc \in {"none", "done"}, task'[i].user = task[i].user, wf'[i] = wf[i]
      PROVE  Goal
  BY <1>1, <1>3
<1>4. ASSUME NEW u \in Users, NEW e \in Emails, NEW j \in Jobs, Onboard(u, e, j)
      PROVE  Goal
  BY <1>1, <1>3, <1>4, OnboardEffect DEF RowBecomes
<1>5. ASSUME NEW u \in Users, NEW j \in Jobs, NEW rot \in BOOLEAN, Retry(u, j, rot)
      PROVE  Goal
  BY <1>1, <1>3, <1>5, RetryEffect DEF RowBecomes
<1>6. ASSUME NEW j \in Jobs,
             Quiet(j) \/ SaveAccount(j) \/ Announce(j) \/ ResumeClaim(j) \/ ResumeAnnounce(j)
      PROVE  Goal
  <2>1. CASE Quiet(j)
    BY <1>2, <2>1, QuietEffect DEF Ended
  <2>2. CASE SaveAccount(j)
    BY <1>2, <2>2, SaveAccountEffect
  <2>3. CASE Announce(j)
    BY <1>2, <2>3, AnnounceEffect
  <2>4. CASE ResumeClaim(j) \/ ResumeAnnounce(j)
    BY <1>2, <2>4, ResumeClaimEffect, ResumeAnnounceEffect
  <2> QED BY <1>6, <2>1, <2>2, <2>3, <2>4
<1>7. ASSUME NEW j \in Jobs, Dispatch(j) \/ NotDispatched(j) \/ MarkFailed(j)
      PROVE  Goal
  <2>1. i # j => wf'[i] = wf[i]
    BY <1>7, DispatchEffect, NotDispatchedEffect, MarkFailedEffect DEF TypeOK
  <2>2. task[j].pc # "none" /\ \E pcs : TaskMoves(j, pcs)
    BY <1>7, DispatchEffect, NotDispatchedEffect, MarkFailedEffect
  <2> QED BY <1>2, <2>1, <2>2
<1>8. ASSUME NEW j \in Jobs, N8n(j) PROVE Goal
  BY <1>1, <1>3, <1>8, N8nEffect
<1>9. ASSUME NEW j \in Jobs, NEW s \in CallbackStatus, ReportJobStatus(j, s)
      PROVE  Goal
  BY <1>1, <1>3, <1>9, ReportEffect
<1>10. ASSUME NEW j \in Jobs, NEW s \in Reported, CommitStatus(j, s)
       PROVE  Goal
  <2>1. wf'[i] = "idle"
    BY <1>1, <1>10, CommitStatusEffect
  <2>2. task' = task \/ TaskMoves(j, {"done", "fail"})
    BY <1>10, CommitStatusEffect
  <2>3. i # j
    BY <1>1, <1>10, CommitStatusEffect, SentinelAssumption DEF JobsStayWithHires
  <2> QED BY <1>1, <2>1, <2>2, <2>3 DEF TaskMoves
<1>11. CASE \/ \E q \in Requests, u \in Users : RollbackCommit(q, u) \/ OffboardCommit(q, u)
            \/ Sweep \/ Crash \/ Untouched
  <2>1. wf' = wf /\ task'[i].user = task[i].user /\ task'[i].pc = task[i].pc
    BY <1>1, <1>11, RollbackCommitEffect, OffboardCommitEffect, SweptRows, CrashEffect
       DEF Untouched, TypeOK
  <2> QED BY <1>1, <1>3, <2>1
<1> QED BY <1>4, <1>5, <1>6, <1>7, <1>8, <1>9, <1>10, <1>11, StepCases

\* A row that a step leaves was there with its job, or carries the job of a task
\* at work for its hire; and only a task past the creation of the account saves an
\* external_id.
RowGoesOn(u) ==
  /\ HasRow(u)' => \/ HasRow(u) /\ rec'[u].job = rec[u].job
                   \/ \E k \in Jobs : /\ rec'[u].job = k /\ task'[k].user = u
                                      /\ \/ AtWork(k) /\ task[k].user = u
                                         \/ Fresh(k) /\ AtWork(k)'
  /\ HasRow(u)' /\ rec'[u].ext => \/ HasRow(u) /\ rec[u].ext
                                  \/ \E j \in Owned(u) : Beyond(j)

LEMMA RowsGoOn ==
  ASSUME TypeOK, TasksHaveHires, JobsStayWithHires, [Next]_vars, NEW u \in Users
  PROVE  RowGoesOn(u)
<1>1. ASSUME rec'[u].job = rec[u].job, HasRow(u)' => HasRow(u),
             rec'[u].ext => rec[u].ext
      PROVE  RowGoesOn(u)
  BY <1>1 DEF RowGoesOn
<1>2. ASSUME NEW v \in Users, NEW e \in Emails, NEW j \in Jobs, Onboard(v, e, j)
      PROVE  RowGoesOn(u)
  <2>1. CASE rec'[u] = rec[u]
    BY <1>1, <2>1 DEF HasRow
  <2>2. CASE rec'[u] # rec[u]
    <3>1. u = v /\ rec'[u].job = j /\ ~ rec'[u].ext
          /\ task'[j].user = u /\ task'[j].pc = "start" /\ Fresh(j)
      BY <1>2, <2>2, OnboardEffect DEF RowBecomes, Fresh, TypeOK
    <3> QED BY <3>1 DEF RowGoesOn, AtWork, Choosing
  <2> QED BY <2>1, <2>2
<1>3. ASSUME NEW v \in Users, NEW j \in Jobs, NEW rot \in BOOLEAN, Retry(v, j, rot)
      PROVE  RowGoesOn(u)
  <2>1. CASE u # v
    BY <1>1, <1>3, <2>1, RetryEffect DEF HasRow, RowBecomes
  <2>2. CASE u = v
    <3>1. /\ rec'[u].job = j /\ rec'[u].ext = rec[u].ext /\ HasRow(u)
          /\ task'[j].user = u /\ task'[j].pc \in {"start", "rload"} /\ Fresh(j)
      BY <1>3, <2>2, RetryEffect DEF RowBecomes, Fresh
    <3> QED BY <3>1 DEF RowGoesOn, AtWork, Choosing
  <2> QED BY <2>1, <2>2
<1>4. ASSUME NEW j \in Jobs, NEW statuses, task[j].user \in Users, AtWork(j), Beyond(j),
             Upsert(j, statuses), task'[j].user = task[j].user
      PROVE  RowGoesOn(u)
  <2>1. CASE u # task[j].user
    BY <1>1, <1>4, <2>1 DEF HasRow, RowBecomes, Upsert
  <2>2. CASE u = task[j].user
    <3>1. rec'[u].job \in {j, rec[u].job} /\ rec'[u].job \in Jobs
      BY <1>4, <2>2 DEF RowBecomes, Upsert
    <3>2. rec[u].job \in Jobs => HasRow(u)
      BY SentinelAssumption DEF JobsStayWithHires
    <3>3. j \in Owned(u)
      BY <2>2 DEF Owned
    <3> QED BY <1>4, <2>2, <3>1, <3>2, <3>3 DEF RowGoesOn
  <2> QED BY <2>1, <2>2
<1>5. ASSUME rec' = rec PROVE RowGoesOn(u)
  BY <1>1, <1>5 DEF HasRow
<1>6. ASSUME NEW j \in Jobs, SaveAccount(j) PROVE RowGoesOn(u)
  <2>1. task[j].user \in Users /\ AtWork(j) /\ Beyond(j)
    BY <1>6, SaveAccountEffect DEF AtWork, Beyond, Choosing
  <2>2. rec' = rec \/ (Upsert(j, {"AD_CREATING"}) /\ task'[j].user = task[j].user)
    BY <1>6, SaveAccountEffect DEF TaskMoves
  <2> QED BY <1>4, <1>5, <2>1, <2>2
<1>7. ASSUME NEW j \in Jobs, Announce(j) PROVE RowGoesOn(u)
  <2>1. task[j].user \in Users /\ AtWork(j) /\ Beyond(j)
    BY <1>7, AnnounceEffect DEF AtWork, Beyond, Telling, Saved
  <2>2. rec' = rec \/ (Upsert(j, {"EMAIL_SENDING"}) /\ task'[j].user = task[j].user)
    BY <1>7, AnnounceEffect DEF TaskMoves
  <2> QED BY <1>4, <1>5, <2>1, <2>2
<1>8. ASSUME NEW j \in Jobs, ResumeClaim(j) PROVE RowGoesOn(u)
  <2>1. CASE u # task[j].user \/ rec' = rec
    BY <1>1, <1>8, <2>1, ResumeClaimEffect DEF HasRow, RowBecomes
  <2>2. CASE u = task[j].user /\ rec' # rec
    <3>1. /\ HasRow(u) /\ rec'[u].job \in {j, rec[u].job} /\ rec'[u].ext = rec[u].ext
          /\ task'[j].user = u /\ AtWork(j)
      BY <1>8, <2>2, ResumeClaimEffect DEF RowBecomes, TaskMoves, AtWork, Choosing
    <3> QED BY <2>2, <3>1 DEF RowGoesOn
  <2> QED BY <2>1, <2>2
<1>9. ASSUME NEW j \in Jobs, ResumeAnnounce(j) PROVE RowGoesOn(u)
  BY <1>1, <1>9, ResumeAnnounceEffect DEF HasRow, RowBecomes
<1>10. ASSUME NEW j \in Jobs, NEW s \in Reported, CommitStatus(j, s)
       PROVE  RowGoesOn(u)
  BY <1>1, <1>10, CommitStatusEffect DEF HasRow, RowBecomes
<1>11. ASSUME NEW q \in Requests, NEW v \in Users, RollbackCommit(q, v) PROVE RowGoesOn(u)
  <2>1. CASE rec'[u] = rec[u]
    BY <1>1, <1>11, <2>1, RollbackCommitEffect DEF HasRow
  <2>2. CASE rec'[u] # rec[u]
    <3>1. rec'[u] = NoRecord
      BY <1>11, <2>2, RollbackCommitEffect DEF RowBecomes
    <3> QED BY <3>1 DEF RowGoesOn, HasRow, NoRecord
  <2> QED BY <2>1, <2>2
<1>12. ASSUME NEW q \in Requests, NEW v \in Users, OffboardCommit(q, v) PROVE RowGoesOn(u)
  BY <1>1, <1>12, OffboardCommitEffect DEF HasRow, RowBecomes
<1>13. CASE Sweep
  <2>1. rec'[u].job = rec[u].job /\ rec'[u].ext = rec[u].ext
        /\ (HasRow(u)' => HasRow(u))
    BY <1>13, SweptRows DEF HasRow, StaleStatuses, TypeOK
  <2> QED BY <1>1, <2>1
<1>14. CASE \/ \E j \in Jobs : \/ Quiet(j) \/ Dispatch(j) \/ NotDispatched(j)
                               \/ MarkFailed(j) \/ N8n(j)
            \/ \E j \in Jobs, s \in CallbackStatus : ReportJobStatus(j, s)
            \/ Crash \/ Untouched
  <2>1. rec' = rec
    BY <1>14, QuietEffect, DispatchEffect, NotDispatchedEffect, MarkFailedEffect,
       N8nEffect, ReportEffect, CrashEffect DEF Untouched
  <2> QED BY <1>5, <2>1
<1> QED
  BY <1>2, <1>3, <1>6, <1>7, <1>8, <1>9, <1>10, <1>11, <1>12, <1>13, <1>14, StepCases

-----------------------------------------------------------------------------
(***************************************************************************)
(* Every step keeps the parts of the invariant.                            *)
(***************************************************************************)

\* What a step does to the history, and to the addresses in use.
HistoryGrows ==
  /\ deleted \subseteq deleted' /\ crowded \subseteq crowded'
  /\ \A u \in Users : Account(u) # {} /\ Account(u)' = {} => u \in deleted'
  /\ \A u \in Users : Crowd(u)' => u \in crowded'
AddressesKept == \A u \in Users : emailOf[u] # NoEmail => emailOf'[u] = emailOf[u]

\* The history variables follow the steps of the saga, also when it stutters.
LEMMA HistoryStep ==
  ASSUME PasswordTypeOK, CrowdsSeen, [PasswordNext]_passwordVars
  PROVE  [Next]_vars /\ HistoryGrows /\ PasswordTypeOK'
<1>1. CASE PasswordNext
  BY <1>1 DEF PasswordNext, HistoryGrows, PasswordTypeOK
<1>2. CASE UNCHANGED passwordVars
  <2>1. UNCHANGED vars /\ deleted' = deleted /\ crowded' = crowded
    BY <1>2 DEF passwordVars
  <2>2. \A u \in Users : Account(u)' = Account(u)
    BY <2>1 DEF vars, Account
  <2>3. \A u \in Users : Crowd(u)' => Crowd(u)
    BY <2>1 DEF vars, Crowd, Owned, AtWork
  <2> QED BY <2>1, <2>2, <2>3 DEF HistoryGrows, CrowdsSeen, PasswordTypeOK
<1> QED BY <1>1, <1>2

\* The entry of a hire whose account no rollback has deleted stays the hire's.
LEMMA EntryStays ==
  ASSUME TypeOK, TasksHaveHires, [Next]_vars, HistoryGrows, SentinelAssumption,
         NEW u \in Users \ deleted', NEW d \in Uids, dir[d].emp = u
  PROVE  dir'[d].emp = u
<1>1. CASE SameEntry(d)
  BY <1>1 DEF SameEntry
<1>2. ASSUME NEW j \in Jobs, Created(j) \/ PasswordSet(j) PROVE dir'[d].emp = u
  BY <1>2, SentinelAssumption DEF Created, PasswordSet, SameEntry
<1>3. ASSUME NEW v \in Users, AccountDeleted(v) PROVE dir'[d].emp = u
  <2>1. u # v
    <3>1. SUFFICES ASSUME u = v PROVE FALSE
      OBVIOUS
    <3>2. d \in Account(u)
      BY DEF Account
    <3>3. \A c \in Uids : dir'[c].emp # u
      BY <1>3, <3>1, SentinelAssumption DEF AccountDeleted, SameEntry
    <3>4. Account(u)' = {}
      BY <3>3 DEF Account
    <3> QED BY <3>2, <3>4 DEF HistoryGrows
  <2> QED BY <1>3, <2>1 DEF AccountDeleted, SameEntry
<1> QED BY <1>1, <1>2, <1>3, DirectoryStep

\* What the task of a requested hire needs for its place to be the hire's entry.
LEMMA BeyondEntered ==
  ASSUME AccountsLast, OnLdap, NEW j \in Jobs, task[j].user \in Users \ deleted, Beyond(j)
  PROVE  dir[Place(j)].emp = task[j].user
BY DEF AccountsLast, Owned, Entered, Place

\* Entries stay at the uid of their hire's address.
LEMMA EntriesStep ==
  ASSUME TypeOK, TasksHaveHires, JobsStayWithHires, EntriesByUid, AddressesKept, [Next]_vars
  PROVE  EntriesByUid'
<1> SUFFICES ASSUME NEW d \in Uids
    PROVE  /\ dir'[d].emp # Nobody => /\ emailOf'[dir'[d].emp] # NoEmail
                                      /\ Uid[emailOf'[dir'[d].emp]] = d
           /\ dir'[d].pw # NoJob => task'[dir'[d].pw].pc # "none"
  BY DEF EntriesByUid, Fresh
<1>1. dir[d].emp \in Users \cup {Nobody} /\ dir[d].pw \in Jobs \cup {NoJob}
  BY DEF TypeOK, Entry
<1>2. \A j \in Jobs : task[j].pc # "none" => task'[j].pc # "none"
  BY TasksContinue DEF Continues, Fresh
<1>3. CASE SameEntry(d)
  BY <1>1, <1>2, <1>3 DEF SameEntry, EntriesByUid, AddressesKept, Fresh
<1>4. ASSUME NEW j \in Jobs, Created(j), d = Place(j)
      PROVE  /\ dir'[d].emp = task[j].user /\ dir'[d].pw = NoJob
             /\ emailOf'[task[j].user] # NoEmail /\ Uid[emailOf'[task[j].user]] = d
  BY <1>4 DEF Created, Place, TasksHaveHires, AddressesKept
<1>5. ASSUME NEW j \in Jobs, PasswordSet(j), d = Place(j)
      PROVE  dir'[d].emp = dir[d].emp /\ dir'[d].pw = j /\ task[j].pc # "none"
  BY <1>5 DEF PasswordSet
<1>6. ASSUME NEW j \in Jobs, Created(j) \/ PasswordSet(j), d # Place(j)
      PROVE  SameEntry(d)
  BY <1>6 DEF Created, PasswordSet
<1>7. ASSUME NEW u \in Users, AccountDeleted(u)
      PROVE  SameEntry(d) \/ (dir'[d].emp = Nobody /\ dir'[d].pw = NoJob)
  BY <1>7 DEF AccountDeleted
<1>8. ASSUME NEW j \in Jobs, PasswordSet(j), d = Place(j)
      PROVE  /\ dir'[d].emp # Nobody => /\ emailOf'[dir'[d].emp] # NoEmail
                                        /\ Uid[emailOf'[dir'[d].emp]] = d
             /\ dir'[d].pw # NoJob => task'[dir'[d].pw].pc # "none"
  BY <1>1, <1>2, <1>5, <1>8 DEF EntriesByUid, AddressesKept
<1> QED BY <1>3, <1>4, <1>6, <1>7, <1>8, DirectoryStep

\* A hire beyond the creation of the account has it until it is deleted.
LEMMA AccountsStep ==
  ASSUME TypeOK, TasksHaveHires, JobsStayWithHires, AccountsLast, AddressesKept,
         [Next]_vars, HistoryGrows
  PROVE  AccountsLast'
<1> SUFFICES ASSUME OnLdap, NEW u \in Users \ deleted',
                    \/ HasRow(u)' /\ rec'[u].ext
                    \/ \E j \in Jobs : task'[j].user = u /\ Beyond(j)'
             PROVE  Entered(u)'
  BY DEF AccountsLast, Owned, OnLdap
<1> DEFINE d == Uid[emailOf[u]]
<1>1. u \in Users \ deleted
  BY DEF HistoryGrows
<1>2. ASSUME (HasRow(u) /\ rec[u].ext) \/ \E j \in Owned(u) : Beyond(j),
             emailOf[u] # NoEmail
      PROVE  Entered(u)'
  <2>1. dir[d].emp = u
    BY <1>1, <1>2 DEF AccountsLast, Entered
  <2>2. d \in Uids
    BY <1>2, UidAssumption DEF TypeOK
  <2> HIDE DEF d
  <2>3. dir'[d].emp = u
    BY <2>1, <2>2, EntryStays, SentinelAssumption
  <2> QED BY <1>2, <2>3 DEF Entered, d, AddressesKept
<1>3. ASSUME NEW j \in Owned(u), Beyond(j) PROVE Entered(u)'
  <2>1. emailOf[u] # NoEmail
    BY <1>3 DEF Owned, TasksHaveHires
  <2> QED BY <1>2, <1>3, <2>1
<1>4. CASE HasRow(u)' /\ rec'[u].ext
  <2>1. (HasRow(u) /\ rec[u].ext) \/ \E j \in Owned(u) : Beyond(j)
    BY <1>4, RowsGoOn DEF RowGoesOn
  <2>2. HasRow(u) => emailOf[u] # NoEmail
    BY DEF JobsStayWithHires
  <2> QED BY <1>2, <1>3, <2>1, <2>2
<1>5. ASSUME NEW j \in Jobs, task'[j].user = u, Beyond(j)' PROVE Entered(u)'
  <2>1. CASE Fresh(j)
    <3>1. rec[u].ext /\ HasRow(u)
      BY <1>5, <2>1, NewTask, SentinelAssumption DEF Beyond, Saved
    <3>2. emailOf[u] # NoEmail
      BY <3>1 DEF JobsStayWithHires
    <3> QED BY <1>2, <3>1, <3>2
  <2>2. CASE ~ Fresh(j)
    <3>1. task[j].user = u /\ (Beyond(j) \/ Created(j))
      BY <1>5, <2>2, TasksContinue DEF Continues
    <3>2. ASSUME Created(j) PROVE Entered(u)'
      <4>1. emailOf'[u] = emailOf[u]
        BY <3>1 DEF TasksHaveHires, AddressesKept
      <4> QED BY <3>1, <3>2, <4>1 DEF Created, Place, Entered
    <3>3. j \in Owned(u)
      BY <3>1 DEF Owned
    <3> QED BY <1>3, <3>1, <3>2, <3>3
  <2> QED BY <2>1, <2>2
<1> QED BY <1>4, <1>5

\* While no two tasks work for a hire, the one at work is that of the row.
LEMMA WorkerStep ==
  ASSUME TypeOK, TasksHaveHires, JobsStayWithHires, CrowdsSeen, WorkerOnRow, HistoryGrows,
         [Next]_vars
  PROVE  WorkerOnRow'
<1> SUFFICES ASSUME NEW u \in Users \ crowded', NEW j \in Jobs, task'[j].user = u,
                    AtWork(j)', HasRow(u)'
             PROVE  rec'[u].job = j
  BY DEF WorkerOnRow, Owned
<1>1. u \notin crowded /\ ~ Crowd(u) /\ ~ Crowd(u)'
  BY DEF HistoryGrows, CrowdsSeen
<1>2. CASE Fresh(j)
  BY <1>2, NewTask, SentinelAssumption DEF AtWork, Choosing, Telling
<1>3. CASE ~ Fresh(j)
  <2>1. task[j].user = u /\ AtWork(j)
    BY <1>3, TasksContinue DEF Continues
  <2>2. CASE HasRow(u) /\ rec'[u].job = rec[u].job
    BY <1>1, <2>1, <2>2 DEF WorkerOnRow, Owned
  <2>3. ASSUME NEW k \in Jobs, AtWork(k), task[k].user = u PROVE k = j
    BY <1>1, <2>1, <2>3 DEF Crowd, Owned
  <2>4. ASSUME NEW k \in Jobs, AtWork(k)', task'[k].user = u PROVE k = j
    BY <1>1, <2>4 DEF Crowd, Owned
  <2> QED BY <2>2, <2>3, <2>4, RowsGoOn DEF RowGoesOn
<1> QED BY <1>2, <1>3

\* A password stays in force, or is replaced by that of a deleted hire, until
\* another task works for the hire.
LEMMA ChoiceStep ==
  ASSUME TypeOK, TasksHaveHires, JobsStayWithHires, JobsStayWithHires', AccountsLast,
         CrowdsSeen, EntriesByUid, WorkerOnRow, ChoiceInForce, HistoryGrows, AddressesKept,
         [Next]_vars
  PROVE  ChoiceInForce'
<1> DEFINE InForce(d, j) ==
      dir'[d].pw = j \/ (dir'[d].pw # NoJob /\ task'[dir'[d].pw].user \in deleted')
<1> SUFFICES ASSUME OnLdap, NEW u \in Users \ (deleted' \cup crowded'), NEW j \in Jobs,
                    task'[j].user = u, task'[j].rot, HasChosen(j)',
                    AtWork(j)' \/ rec'[u].job = j
             PROVE  InForce(Uid[emailOf'[u]], j)
  BY DEF ChoiceInForce, Owned, Strayed, OnLdap
<1>1. u \notin deleted /\ u \notin crowded /\ ~ Crowd(u)
  BY DEF HistoryGrows, CrowdsSeen
<1>2. ~ Fresh(j)
  BY NewTask, SentinelAssumption DEF HasChosen, Telling
<1>3. /\ task[j].user = u /\ task[j].rot
      /\ AtWork(j)' => AtWork(j)
      /\ HasChosen(j) \/ PasswordSet(j)
  BY <1>2, TasksContinue DEF Continues
<1>4. emailOf[u] # NoEmail /\ emailOf'[u] = emailOf[u]
  BY <1>3 DEF TasksHaveHires, AddressesKept
<1> DEFINE d == Uid[emailOf[u]]
<1>5. d \in Uids /\ d = Place(j)
  BY <1>3, <1>4, UidAssumption DEF TypeOK, Place
<1>6. CASE PasswordSet(j)
  BY <1>4, <1>5, <1>6 DEF PasswordSet
<1>7. CASE HasChosen(j)
  <2>1. AtWork(j) \/ (HasRow(u) /\ rec[u].job = j)
    <3>1. CASE AtWork(j)'
      BY <1>3, <3>1
    <3>2. CASE rec'[u].job = j
      <4>1. HasRow(u)'
        BY <3>2, SentinelAssumption DEF JobsStayWithHires
      <4> QED BY <1>2, <3>2, <4>1, RowsGoOn DEF RowGoesOn
    <3> QED BY <3>1, <3>2
  <2>2. dir[d].pw = j \/ (dir[d].pw # NoJob /\ task[dir[d].pw].user \in deleted)
    BY <1>1, <1>3, <1>7, <2>1 DEF ChoiceInForce, Owned, Strayed
  <2>3. dir[d].emp = u
    <3>1. Beyond(j)
      BY <1>7 DEF HasChosen, Beyond, Telling, Saved
    <3> QED BY <1>1, <1>3, <1>5, <3>1, BeyondEntered
  <2>4. CASE SameEntry(d)
    <3>1. CASE dir[d].pw = j
      BY <1>4, <2>4, <3>1 DEF SameEntry
    <3>2. CASE dir[d].pw # NoJob /\ task[dir[d].pw].user \in deleted
      <4>1. dir[d].pw \in Jobs /\ ~ Fresh(dir[d].pw)
        BY <1>5, <3>2 DEF EntriesByUid, TypeOK, Entry
      <4>2. task'[dir[d].pw].user = task[dir[d].pw].user
        BY <4>1, TasksContinue DEF Continues
      <4> QED BY <1>4, <2>4, <3>2, <4>2 DEF SameEntry, HistoryGrows
    <3> QED BY <2>2, <3>1, <3>2
  <2>5. ASSUME NEW k \in Jobs, Created(k) PROVE SameEntry(d)
    BY <1>5, <2>3, <2>5, SentinelAssumption DEF Created
  <2>6. ASSUME NEW k \in Jobs, PasswordSet(k), Place(k) = d PROVE InForce(d, j)
    <3> DEFINE v == task[k].user
    <3>1. dir'[d].pw = k /\ v \in Users /\ Beyond(k) /\ AtWork(k) /\ ~ Fresh(k)
      BY <2>6 DEF PasswordSet, Beyond, Saved, AtWork, Choosing, Fresh
    <3>2. CASE v \in deleted
      <4>1. task'[k].user = v
        BY <3>1, TasksContinue DEF Continues
      <4> QED BY <3>1, <3>2, <4>1, SentinelAssumption DEF HistoryGrows
    <3>3. CASE v \notin deleted
      <4>1. v = u
        BY <2>3, <2>6, <3>1, <3>3, BeyondEntered
      <4>2. AtWork(j) => k = j
        BY <1>1, <1>3, <3>1, <4>1 DEF Crowd, Owned
      <4>3. HasRow(u) /\ rec[u].job = j => k = j
        BY <1>1, <3>1, <4>1 DEF WorkerOnRow, Owned
      <4> QED BY <2>1, <3>1, <4>2, <4>3
    <3> QED BY <3>2, <3>3
  <2>7. ASSUME NEW k \in Jobs, PasswordSet(k), Place(k) # d PROVE SameEntry(d)
    BY <1>5, <2>7 DEF PasswordSet
  <2>8. ASSUME NEW v \in Users, AccountDeleted(v) PROVE SameEntry(d)
    <3>1. dir'[d].emp = u
      BY <1>5, <2>3, EntryStays, SentinelAssumption
    <3> QED BY <1>5, <2>3, <2>8, <3>1, SentinelAssumption DEF AccountDeleted
  <2> QED BY <1>4, <2>4, <2>5, <2>6, <2>7, <2>8, <1>5, DirectoryStep
<1> QED BY <1>3, <1>6, <1>7

\* A password is set for the hire of the entry, or for one whose account is gone.
LEMMA OwnerStep ==
  ASSUME TypeOK, TasksHaveHires, JobsStayWithHires, AccountsLast, EntriesByUid,
         PasswordOfOwner, HistoryGrows, [Next]_vars
  PROVE  PasswordOfOwner'
<1> SUFFICES ASSUME NEW d \in Uids, dir'[d].pw # NoJob,
                    task'[dir'[d].pw].user \notin deleted'
             PROVE  task'[dir'[d].pw].user = dir'[d].emp
  BY DEF PasswordOfOwner, Strayed
<1>1. CASE SameEntry(d)
  <2>1. dir[d].pw \in Jobs /\ ~ Fresh(dir[d].pw)
    BY <1>1 DEF EntriesByUid, TypeOK, Entry, SameEntry
  <2>2. task'[dir[d].pw].user = task[dir[d].pw].user
    BY <2>1, TasksContinue DEF Continues
  <2> QED BY <1>1, <2>1, <2>2, SentinelAssumption
          DEF SameEntry, PasswordOfOwner, Strayed, HistoryGrows
<1>2. ASSUME NEW j \in Jobs, PasswordSet(j), Place(j) = d
      PROVE  task'[dir'[d].pw].user = dir'[d].emp
  <2>1. dir'[d].pw = j /\ dir'[d].emp = dir[d].emp /\ task[j].user \in Users
        /\ Beyond(j) /\ ~ Fresh(j) /\ OnLdap
    BY <1>2 DEF PasswordSet, Beyond, Saved, Fresh
  <2>2. task'[j].user = task[j].user
    BY <2>1, TasksContinue DEF Continues
  <2>3. task[j].user \notin deleted
    BY <2>1, <2>2 DEF HistoryGrows
  <2> QED BY <1>2, <2>1, <2>2, <2>3, BeyondEntered
<1>3. ASSUME NEW j \in Jobs, Created(j) \/ PasswordSet(j)
      PROVE  SameEntry(d) \/ dir'[d].pw = NoJob \/ (PasswordSet(j) /\ Place(j) = d)
  BY <1>3 DEF Created, PasswordSet
<1>4. ASSUME NEW u \in Users, AccountDeleted(u) PROVE SameEntry(d) \/ dir'[d].pw = NoJob
  BY <1>4 DEF AccountDeleted
<1> QED BY <1>1, <1>2, <1>3, <1>4, DirectoryStep

\* Without entries, tasks and rows there is nothing to go wrong.
LEMMA PasswordInitInv == PasswordInit => PasswordInv
<1> SUFFICES ASSUME PasswordInit PROVE PasswordInv
  OBVIOUS
<1>1. Init /\ IInv /\ deleted = {} /\ crowded = {}
  BY InitInv DEF PasswordInit
<1>2. /\ \A d \in Uids : dir[d].emp = Nobody /\ dir[d].pw = NoJob
      /\ \A u \in Users : ~ rec[u].ext /\ rec[u].jstat = "none"
      /\ \A j \in Jobs : task[j].pc = "none" /\ task[j].user = Nobody
  BY <1>1 DEF Init, NoEntry, NoRecord, NoTask
<1>3. \A u \in Users : Owned(u) = {}
  BY <1>2, SentinelAssumption DEF Owned
<1>4. PasswordTypeOK /\ EntriesByUid /\ PasswordOfOwner
  BY <1>1, <1>2 DEF PasswordTypeOK, EntriesByUid, PasswordOfOwner
<1>5. AccountsLast /\ CrowdsSeen /\ WorkerOnRow /\ ChoiceInForce
  BY <1>2, <1>3 DEF AccountsLast, CrowdsSeen, Crowd, WorkerOnRow, ChoiceInForce
<1> QED BY <1>1, <1>4, <1>5 DEF PasswordInv

\* Every step of the saga, with its history, keeps the invariant.
LEMMA PasswordStepInv == PasswordInv /\ [PasswordNext]_passwordVars => PasswordInv'
<1> SUFFICES ASSUME PasswordInv, [PasswordNext]_passwordVars PROVE PasswordInv'
  OBVIOUS
<1>1. /\ IInv /\ PasswordTypeOK /\ EntriesByUid /\ AccountsLast /\ CrowdsSeen
      /\ WorkerOnRow /\ ChoiceInForce /\ PasswordOfOwner
  BY DEF PasswordInv
<1>2. [Next]_vars /\ HistoryGrows /\ PasswordTypeOK'
  BY <1>1, HistoryStep
<1>3. IInv'
  BY <1>1, <1>2, StepInv
<1>4. /\ TypeOK /\ TasksHaveHires /\ JobsStayWithHires /\ JobsStayWithHires'
  BY <1>1, <1>3 DEF IInv
<1>5. AddressesKept
  BY <1>2, <1>4, AddressesStay DEF AddressesKept
<1>6. EntriesByUid' /\ AccountsLast'
  BY <1>1, <1>2, <1>4, <1>5, EntriesStep, AccountsStep
<1>7. CrowdsSeen' /\ WorkerOnRow'
  BY <1>1, <1>2, <1>4, WorkerStep DEF HistoryGrows, CrowdsSeen
<1>8. ChoiceInForce'
  BY <1>1, <1>2, <1>4, <1>5, ChoiceStep
<1>9. PasswordOfOwner'
  BY <1>1, <1>2, <1>4, OwnerStep
<1> QED BY <1>2, <1>3, <1>6, <1>7, <1>8, <1>9 DEF PasswordInv

\* Who chose the password of an entry, and which of a hire's tasks is at work,
\* is known throughout, for any number of hires, tasks, retries and restarts.
THEOREM PasswordInvariance == PasswordSpec => []PasswordInv
BY PasswordInitInv, PasswordStepInv, PTL DEF PasswordSpec

\* set_password addresses an entry by DN, and still reaches the hire it was
\* chosen for, unless a rollback deleted that hire's account under the task.
THEOREM OwnPassword == PasswordSpec => []PasswordOfOwner
<1>1. PasswordInv => PasswordOfOwner
  BY DEF PasswordInv
<1> QED BY <1>1, PasswordInvariance, PTL

\* The password in the welcome mail of a completed hire is the one that opens
\* the account, however the hire was retried, resumed, swept and reported.
THEOREM MailedPassword == PasswordSpec => []MailedPasswordWorks
<1>1. PasswordInv => MailedPasswordWorks
  <2> SUFFICES ASSUME PasswordInv, OnLdap, NEW u \in Users \ (deleted \cup crowded),
                      rec[u].jstat = "COMPLETED", wf[rec[u].job] = "done",
                      task[rec[u].job].rot
               PROVE  /\ Entered(u)
                      /\ \/ dir[Uid[emailOf[u]]].pw = rec[u].job
                         \/ Strayed(Uid[emailOf[u]])
    BY DEF MailedPasswordWorks
  <2>1. rec[u].job \in Owned(u)
    BY DEF PasswordInv, IInv, JobsStayWithHires, HasRow, Owned
  <2>2. Beyond(rec[u].job) /\ HasChosen(rec[u].job)
    BY DEF Beyond, HasChosen
  <2> QED BY <2>1, <2>2 DEF PasswordInv, AccountsLast, ChoiceInForce
<1> QED BY <1>1, PasswordInvariance, PTL
=============================================================================
