----------------------------- MODULE Onboarding -----------------------------
(***************************************************************************)
(* The onboarding saga: a durable row per new hire (table onboarded_user), *)
(* a directory account, a background pipeline task, the n8n workflow that  *)
(* reports back through a callback, the sweeper that resolves silent jobs, *)
(* and the administrator's retry, rollback and offboard requests.          *)
(*                                                                         *)
(* A step is what one transaction, one directory call or one statement     *)
(* between two awaits does.  A SELECT and the UPDATE that follows it are   *)
(* separate steps, because Postgres runs at READ COMMITTED and nothing but *)
(* retry and the sweeper locks the row it reads.  Of audit_log only the    *)
(* entries of rollbacks are kept; what a failing audit write undoes is in  *)
(* every action that makes one.                                            *)
(***************************************************************************)
EXTENDS Naturals, FiniteSets

CONSTANTS
  Users,          \* ids of onboarded_user rows (uuid4 values)
  Emails,         \* e-mail addresses requested for new hires
  Uids,           \* LDAP uids
  Jobs,           \* job ids handed out by job_store.create_job
  Requests,       \* rollback and offboard requests that may run at once
  Nobody, NoEmail, NoJob,
  Uid,            \* Uid[e] is the local part of address e
  Provider,       \* settings.IDENTITY_PROVIDER
  MaxCopies,      \* how often n8n may send one callback (retryOnFail)
  MaxCrashes,     \* bound on process restarts
  SlowTasks,      \* may a row look stale while its pipeline task still runs?
  LateAck         \* may a webhook be accepted and its answer still time out?

ASSUME SentinelAssumption ==
  Nobody \notin Users /\ NoEmail \notin Emails /\ NoJob \notin Jobs
ASSUME UidAssumption == Uid \in [Emails -> Uids]
ASSUME ProviderAssumption == Provider \in {"ldap", "local", "entra_id"}
ASSUME BoundAssumption == MaxCopies \in Nat \ {0} /\ MaxCrashes \in Nat
ASSUME FlagAssumption == SlowTasks \in BOOLEAN /\ LateAck \in BOOLEAN

VARIABLES
  rec,      \* rec[u]: the row of user u, NoRecord when there is none
  emailOf,  \* emailOf[u]: the address u was requested with
  dir,      \* dir[d]: the LDAP entry with uid d
  resident, \* jobs held by the in-memory job store
  task,     \* task[j]: the background task of job j
  writes,   \* writes[j][s]: row loaded by an update_onboarding_job_status(j, s)
            \* that has not committed yet
  wf,       \* wf[j]: the n8n execution started for job j
  net,      \* net[j][s]: copies of the callback (j, s) in flight
  req,      \* req[r]: the handler that serves request r, and for which user
  audit,    \* users with a committed user.onboarding_rollback entry in audit_log
  crashes   \* restarts so far

vars == <<rec, emailOf, dir, resident, task, writes, wf, net, req, audit, crashes>>

-----------------------------------------------------------------------------
JobStatus == {"PENDING", "AD_CREATING", "EMAIL_SENDING", "JIRA_CREATING",
              "PARTIALLY_COMPLETE", "COMPLETED", "FAILED"}
CallbackStatus == {"JIRA_CREATING", "COMPLETED", "FAILED"}
Reported == CallbackStatus \cup {"PARTIALLY_COMPLETE"}
Retryable == {"FAILED", "PARTIALLY_COMPLETE"}

\* A variant that forgets the last status in progress.
StaleStatusesNoJira == {"PENDING", "AD_CREATING", "EMAIL_SENDING"}
StaleStatuses == {"PENDING", "AD_CREATING", "EMAIL_SENDING", "JIRA_CREATING"}

Record == [job : Jobs \cup {NoJob}, jstat : JobStatus \cup {"none"},
           ext : BOOLEAN, st : {"active", "offboarded"}]
NoRecord == [job |-> NoJob, jstat |-> "none", ext |-> FALSE, st |-> "active"]
HasRow(u) == rec[u].jstat # "none"

Entry == [emp : Users \cup {Nobody}, st : {"active", "offboarded"},
          pw : Jobs \cup {NoJob}]
NoEntry == [emp |-> Nobody, st |-> "active", pw |-> NoJob]

\* What a task remembers of the row its session has loaded.
Loaded == [job : Jobs \cup {NoJob}, jstat : JobStatus \cup {"none"}]
Unloaded == [job |-> NoJob, jstat |-> "none"]
Load(u) == [job |-> rec[u].job, jstat |-> rec[u].jstat]

Pcs == {"none", "start", "create", "load1", "store1", "setpw", "load2",
        "store2", "rload", "rstore1", "rstore2", "dispatch", "partial",
        "closing", "fail", "done"}
Task == [pc : Pcs, kind : {"run", "resume"}, user : Users \cup {Nobody},
         rot : BOOLEAN, seen : Loaded]
NoTask == [pc |-> "none", kind |-> "run", user |-> Nobody, rot |-> TRUE,
           seen |-> Unloaded]

Request == [op : {"rollback", "offboard"}, user : Users \cup {Nobody},
            pc : {"idle", "directory", "commit"}]
NoRequest == [op |-> "rollback", user |-> Nobody, pc |-> "idle"]

Workflow == {"idle", "email", "mailed", "jira", "done", "stopped"}
NoWrites == [j \in Jobs |-> [s \in Reported |-> Nobody]]

TypeOK ==
  /\ rec \in [Users -> Record]
  /\ emailOf \in [Users -> Emails \cup {NoEmail}]
  /\ dir \in [Uids -> Entry]
  /\ resident \subseteq Jobs
  /\ task \in [Jobs -> Task]
  /\ writes \in [Jobs -> [Reported -> Users \cup {Nobody}]]
  /\ wf \in [Jobs -> Workflow]
  /\ net \in [Jobs -> [CallbackStatus -> 0..MaxCopies]]
  /\ req \in [Requests -> Request]
  /\ audit \subseteq Users
  /\ crashes \in 0..MaxCrashes

Init ==
  /\ rec = [u \in Users |-> NoRecord]
  /\ emailOf = [u \in Users |-> NoEmail]
  /\ dir = [d \in Uids |-> NoEntry]
  /\ resident = {}
  /\ task = [j \in Jobs |-> NoTask]
  /\ writes = NoWrites
  /\ wf = [j \in Jobs |-> "idle"]
  /\ net = [j \in Jobs |-> [s \in CallbackStatus |-> 0]]
  /\ req = [r \in Requests |-> NoRequest]
  /\ audit = {}
  /\ crashes = 0

-----------------------------------------------------------------------------
(***************************************************************************)
(* Helpers of the job store, the record service and the pipeline.          *)
(***************************************************************************)
Fresh(j) == task[j].pc = "none"
\* A task that moves on keeps nothing of what its session had loaded.
Goto(j, pc) == task' = [task EXCEPT ![j].pc = pc, ![j].seen = Unloaded]

\* update_onboarding_job_status up to its flush: SELECT by job_id; no row, or
\* one that already has the status, leaves nothing to write.
Locates(j, s, u) == rec[u].job = j /\ rec[u].jstat # s
StartUpdate(j, s) ==
  \/ \E u \in Users : Locates(j, s, u) /\ writes' = [writes EXCEPT ![j][s] = u]
  \/ (\A u \in Users : ~ Locates(j, s, u)) /\ UNCHANGED writes

Account(u) == {d \in Uids : dir[d].emp = u}
EmailTaken(u) == \E v \in Users \ {u} : HasRow(v) /\ emailOf[v] = emailOf[u]

-----------------------------------------------------------------------------
(***************************************************************************)
(* POST /onboard and POST /onboard/jobs/{job_id}/retry.                    *)
(***************************************************************************)

\* The job is created before the row; a taken address answers 409 and leaves
\* the job in the store.
Onboard(u, e, j) ==
  /\ emailOf[u] = NoEmail
  /\ Fresh(j)
  /\ resident' = resident \cup {j}
  /\ IF \E v \in Users : HasRow(v) /\ emailOf[v] = e
     THEN /\ task' = [task EXCEPT ![j].pc = "done"]
          /\ UNCHANGED <<rec, emailOf>>
     ELSE /\ emailOf' = [emailOf EXCEPT ![u] = e]
          /\ rec' = [rec EXCEPT ![u] = [job |-> j, jstat |-> "PENDING",
                                        ext |-> FALSE, st |-> "active"]]
          /\ task' = [task EXCEPT ![j] = [NoTask EXCEPT !.pc = "start", !.user = u]]
  /\ UNCHANGED <<dir, writes, wf, net, req, audit, crashes>>

\* A variant that starts the row over and forgets the account it recorded.
RetryAnew(u, j, rot) ==
  /\ HasRow(u)
  /\ rec[u].jstat \in Retryable
  /\ Fresh(j)
  /\ resident' = resident \cup {j}
  /\ rec' = [rec EXCEPT ![u].job = j, ![u].jstat = "PENDING", ![u].ext = FALSE]
  /\ task' = [task EXCEPT ![j] = [NoTask EXCEPT !.pc = "start", !.user = u]]
  /\ UNCHANGED <<emailOf, dir, writes, wf, net, req, audit, crashes>>

\* SELECT ... FOR UPDATE to commit is one step.  Without a recorded account
\* the pipeline runs again, with one it resumes.
Retry(u, j, rot) ==
  /\ HasRow(u)
  /\ rec[u].jstat \in Retryable
  /\ Fresh(j)
  /\ resident' = resident \cup {j}
  /\ rec' = [rec EXCEPT ![u].job = j, ![u].jstat = "PENDING"]
  /\ task' = [task EXCEPT ![j] =
                IF rec[u].ext
                THEN [NoTask EXCEPT !.pc = "rload", !.kind = "resume",
                                    !.user = u, !.rot = rot]
                ELSE [NoTask EXCEPT !.pc = "start", !.user = u]]
  /\ UNCHANGED <<emailOf, dir, writes, wf, net, req, audit, crashes>>

-----------------------------------------------------------------------------
(***************************************************************************)
(* run_onboarding_pipeline.                                                *)
(***************************************************************************)

\* GraphProvisioningService has an abstract method left, so building it raises
\* before the try block and the task dies without a trace.
Start(j) ==
  /\ task[j].pc = "start"
  /\ Goto(j, IF Provider = "entra_id" THEN "done" ELSE "create")
  /\ UNCHANGED <<rec, emailOf, dir, resident, writes, wf, net, req, audit, crashes>>

\* A variant that adopts the entry it finds.
CreateLdapAdopting(j) ==
  LET u == task[j].user
      d == Uid[emailOf[u]]
  IN /\ dir' = [dir EXCEPT ![d].emp = IF @ = Nobody THEN u ELSE @]
     /\ Goto(j, "load1")

\* LDAP: the entry is added and then put into its department group; a group
\* that cannot be created raises after the entry exists.  Local: the pending
\* row is loaded and nothing outside Postgres changes.
CreateLdap(j) ==
  LET u == task[j].user
      d == Uid[emailOf[u]]
  IN \/ dir[d].emp # Nobody /\ Goto(j, "fail") /\ UNCHANGED dir
     \/ /\ dir[d].emp = Nobody
        /\ dir' = [dir EXCEPT ![d] = [NoEntry EXCEPT !.emp = u]]
        /\ Goto(j, "load1") \/ Goto(j, "fail")
CreateLocal(j) ==
  /\ Goto(j, IF HasRow(task[j].user) THEN "load1" ELSE "fail")
  /\ UNCHANGED dir
Create(j) ==
  /\ task[j].pc = "create"
  /\ IF Provider = "ldap" THEN CreateLdap(j) ELSE CreateLocal(j)
  /\ UNCHANGED <<rec, emailOf, resident, writes, wf, net, req, audit, crashes>>

\* upsert_onboarding_record: SELECT by id, ...
LoadRow(j, at, next) ==
  /\ task[j].pc = at
  /\ task' = [task EXCEPT ![j].pc = next, ![j].seen = Load(task[j].user)]
  /\ UNCHANGED <<rec, emailOf, dir, resident, writes, wf, net, req, audit, crashes>>

\* ... then INSERT when it found nothing, else UPDATE of the columns that
\* differ from what it loaded.  An INSERT into a taken key or address, and an
\* UPDATE of a row that is gone, raise.
CanUpsert(j) ==
  LET u == task[j].user
  IN IF task[j].seen = Unloaded
     THEN ~ HasRow(u) /\ ~ EmailTaken(u)
     ELSE HasRow(u)
\* Only LDAP accounts have an external_id; the UPDATE branch must sync it.
SyncedExtForgotten(u) == rec[u].ext
SyncedExt(u) == Provider = "ldap"
Upserted(j, s) ==
  LET u == task[j].user
      old == task[j].seen
  IN IF old = Unloaded
     THEN [job |-> j, jstat |-> s, ext |-> Provider = "ldap", st |-> "active"]
     ELSE [rec[u] EXCEPT !.job = IF old.job = j THEN @ ELSE j,
                         !.jstat = IF old.jstat = s THEN @ ELSE s,
                         !.ext = SyncedExt(u)]

\* First upsert: external_id is durable before anything else happens.
SaveAccount(j) ==
  /\ task[j].pc = "store1"
  /\ IF CanUpsert(j)
     THEN /\ rec' = [rec EXCEPT ![task[j].user] = Upserted(j, "AD_CREATING")]
          /\ Goto(j, "setpw")
     ELSE UNCHANGED rec /\ Goto(j, "fail")
  /\ UNCHANGED <<emailOf, dir, resident, writes, wf, net, req, audit, crashes>>

\* Addressed by DN, so whoever owns that entry now gets the password.
SetPassword(j) ==
  LET d == Uid[emailOf[task[j].user]]
  IN /\ task[j].pc = "setpw"
     /\ IF Provider = "ldap" /\ dir[d].emp = Nobody
        THEN Goto(j, "fail") /\ UNCHANGED dir
        ELSE /\ Goto(j, IF task[j].kind = "run" THEN "load2" ELSE "rstore2")
             /\ dir' = IF Provider = "ldap" THEN [dir EXCEPT ![d].pw = j] ELSE dir
     /\ UNCHANGED <<rec, emailOf, resident, writes, wf, net, req, audit, crashes>>

\* Second upsert and its audit entry share one transaction: when the audit
\* write fails the session is rolled back and the pipeline goes on.
Announce(j) ==
  /\ task[j].pc = "store2"
  /\ IF CanUpsert(j)
     THEN /\ \/ rec' = [rec EXCEPT ![task[j].user] = Upserted(j, "EMAIL_SENDING")]
             \/ UNCHANGED rec
          /\ Goto(j, "dispatch")
     ELSE Goto(j, "fail") /\ UNCHANGED rec
  /\ UNCHANGED <<emailOf, dir, resident, writes, wf, net, req, audit, crashes>>

(***************************************************************************)
(* resume_onboarding_pipeline: the row is loaded once and the session's    *)
(* copy of it is written twice.  Retry starts it only for a row with an    *)
(* external_id, which only the LDAP provider sets.                         *)
(***************************************************************************)
ResumeLoad(j) ==
  /\ task[j].pc = "rload"
  /\ IF HasRow(task[j].user)
     THEN task' = [task EXCEPT ![j].pc = "rstore1", ![j].seen = Load(task[j].user)]
     ELSE Goto(j, "done")
  /\ UNCHANGED <<rec, emailOf, dir, resident, writes, wf, net, req, audit, crashes>>

\* A variant that announces a new password without setting one.
ResumeClaimOnly(j) ==
  LET u == task[j].user
  IN /\ task[j].pc = "rstore1"
     /\ IF HasRow(u)
        THEN /\ rec' = [rec EXCEPT ![u].job = j, ![u].jstat = "AD_CREATING"]
             /\ Goto(j, "rstore2")
        ELSE Goto(j, "fail") /\ UNCHANGED rec
     /\ UNCHANGED <<emailOf, dir, resident, writes, wf, net, req, audit, crashes>>
ResumeClaim(j) ==
  LET u == task[j].user
      old == task[j].seen
  IN /\ task[j].pc = "rstore1"
     /\ IF HasRow(u)
        THEN /\ rec' = [rec EXCEPT
                          ![u].job = IF old.job = j THEN @ ELSE j,
                          ![u].jstat = IF old.jstat = "AD_CREATING" THEN @
                                       ELSE "AD_CREATING"]
             /\ Goto(j, IF task[j].rot THEN "setpw" ELSE "rstore2")
        ELSE Goto(j, "fail") /\ UNCHANGED rec
     /\ UNCHANGED <<emailOf, dir, resident, writes, wf, net, req, audit, crashes>>

ResumeAnnounce(j) ==
  LET u == task[j].user
  IN /\ task[j].pc = "rstore2"
     /\ IF HasRow(u)
        THEN /\ rec' = [rec EXCEPT ![u].jstat = "EMAIL_SENDING"]
             /\ Goto(j, "dispatch")
        ELSE Goto(j, "fail") /\ UNCHANGED rec
     /\ UNCHANGED <<emailOf, dir, resident, writes, wf, net, req, audit, crashes>>
-----------------------------------------------------------------------------
(***************************************************************************)
(* The common tail of both pipelines: trigger_onboarding_workflow, the     *)
(* PARTIALLY_COMPLETE path and _mark_job_failed.                           *)
(***************************************************************************)

\* The webhook answers 200 (the execution has begun), cannot be reached, or,
\* with LateAck, begins the execution and answers after the timeout.
Dispatch(j) ==
  /\ task[j].pc = "dispatch"
  /\ \/ wf' = [wf EXCEPT ![j] = "email"] /\ Goto(j, "done")
     \/ UNCHANGED wf /\ Goto(j, "partial")
     \/ LateAck /\ wf' = [wf EXCEPT ![j] = "email"] /\ Goto(j, "partial")
  /\ UNCHANGED <<rec, emailOf, dir, resident, writes, net, req, audit, crashes>>

\* The exception handlers still cover this write, so the task waits for it.
NotDispatched(j) ==
  /\ task[j].pc = "partial"
  /\ StartUpdate(j, "PARTIALLY_COMPLETE")
  /\ Goto(j, IF writes' = writes THEN "done" ELSE "closing")
  /\ UNCHANGED <<rec, emailOf, dir, resident, wf, net, req, audit, crashes>>

\* A directory or database call raises before it takes effect.
Raise(j) ==
  /\ task[j].pc \in {"create", "load1", "store1", "setpw", "load2", "store2",
                     "rload", "rstore1", "rstore2", "partial"}
  /\ Goto(j, "fail")
  /\ UNCHANGED <<rec, emailOf, dir, resident, writes, wf, net, req, audit, crashes>>

\* _mark_job_failed: the job store first, then the row, by job_id.
MarkFailed(j) ==
  /\ task[j].pc = "fail"
  /\ writes[j]["FAILED"] = Nobody
  /\ StartUpdate(j, "FAILED") \/ UNCHANGED writes
  /\ Goto(j, "done")
  /\ UNCHANGED <<rec, emailOf, dir, resident, wf, net, req, audit, crashes>>

\* n8n waits for the answer to JIRA_CREATING before it opens the issue.
Answer(j, s) ==
  wf' = [wf EXCEPT ![j] = IF s = "JIRA_CREATING" /\ @ = "mailed" THEN "jira" ELSE @]

\* The flush and commit of update_onboarding_job_status: an UPDATE by primary
\* key.  A row that is gone, or a lost connection, raises: the pipeline turns
\* that into FAILED, _mark_job_failed and the callback handler drop it.
CommitStatus(j, s) ==
  LET u == writes[j][s]
  IN /\ u # Nobody
     /\ writes' = [writes EXCEPT ![j][s] = Nobody]
     /\ \/ /\ HasRow(u)
           /\ rec' = [rec EXCEPT ![u].jstat = s]
           /\ IF s = "PARTIALLY_COMPLETE" THEN Goto(j, "done") ELSE UNCHANGED task
           /\ Answer(j, s)
        \/ /\ IF s = "PARTIALLY_COMPLETE" THEN Goto(j, "fail") ELSE UNCHANGED task
           /\ UNCHANGED <<rec, wf>>
     /\ UNCHANGED <<emailOf, dir, resident, net, req, audit, crashes>>

-----------------------------------------------------------------------------
(***************************************************************************)
(* n8n (external): webhook, welcome mail, callback JIRA_CREATING, Jira     *)
(* issue, callback COMPLETED; the error outputs send FAILED.  A callback   *)
(* node retries, so up to MaxCopies copies of one callback arrive, none    *)
(* when all are lost, and late ones too.  An execution may die silently.   *)
(***************************************************************************)
\* A variant with one retry too many.
SendOnceMore(j, s) == \E n \in 0..MaxCopies + 1 : net' = [net EXCEPT ![j][s] = n]
Send(j, s) == \E n \in 0..MaxCopies : net' = [net EXCEPT ![j][s] = n]
N8nStep(j, at, next, s) ==
  /\ wf[j] = at
  /\ wf' = [wf EXCEPT ![j] = next]
  /\ Send(j, s)
  /\ UNCHANGED <<rec, emailOf, dir, resident, task, writes, req, audit, crashes>>
N8nMail(j) == N8nStep(j, "email", "mailed", "JIRA_CREATING")
N8nIssue(j) == N8nStep(j, "jira", "done", "COMPLETED")
N8nError(j) == \E at \in {"email", "jira"} : N8nStep(j, at, "stopped", "FAILED")
N8nDies(j) ==
  /\ wf[j] \in {"email", "mailed", "jira"}
  /\ wf' = [wf EXCEPT ![j] = "stopped"]
  /\ UNCHANGED <<rec, emailOf, dir, resident, task, writes, net, req, audit, crashes>>

\* report_job_status: a job neither resident nor on a row answers 404, any
\* other is reported to the job store and to the row that carries it.
ReportJobStatus(j, s) ==
  /\ net[j][s] > 0
  /\ writes[j][s] = Nobody
  /\ net' = [net EXCEPT ![j][s] = @ - 1]
  /\ IF j \notin resident /\ (\A u \in Users : rec[u].job # j)
     THEN UNCHANGED <<writes, wf>>
     ELSE /\ StartUpdate(j, s)
          /\ IF writes' = writes THEN Answer(j, s) ELSE UNCHANGED wf
  /\ UNCHANGED <<rec, emailOf, dir, resident, task, req, audit, crashes>>

-----------------------------------------------------------------------------
(***************************************************************************)
(* sweep_stale_onboarding_jobs.  The staleness limit may pass between any  *)
(* two commits, so every row in progress may be stale; without SlowTasks   *)
(* only rows whose pipeline task is no longer running are.                 *)
(***************************************************************************)
Running(j) ==
  \/ task[j].pc \notin {"none", "done"}
  \/ writes[j]["FAILED"] # Nobody
Stale == {u \in Users : /\ rec[u].jstat \in StaleStatuses
                        /\ SlowTasks \/ ~ Running(rec[u].job)}
\* A variant that takes an account for a finished onboarding.
ResolvedAsCompleted(u) == IF rec[u].ext THEN "COMPLETED" ELSE "FAILED"
Resolved(u) == IF rec[u].ext THEN "PARTIALLY_COMPLETE" ELSE "FAILED"
Sweep ==
  \E S \in (SUBSET Stale) \ {{}} :
    /\ rec' = [u \in Users |-> IF u \in S THEN [rec[u] EXCEPT !.jstat = Resolved(u)]
                                          ELSE rec[u]]
    /\ UNCHANGED <<emailOf, dir, resident, task, writes, wf, net, req, audit, crashes>>

-----------------------------------------------------------------------------
(***************************************************************************)
(* POST /onboard/{user_id}/rollback and /offboard.  Neither locks the row  *)
(* it reads, and nothing keeps several of them for one user apart.         *)
(***************************************************************************)
Serves(r, op, pc, u) == req[r].user = u /\ req[r].op = op /\ req[r].pc = pc
Accept(r, op, pc, u) ==
  /\ req[r].user = Nobody
  /\ req' = [req EXCEPT ![r] = [op |-> op, user |-> u, pc |-> pc]]
Proceed(r) == req' = [req EXCEPT ![r].pc = "commit"]
Respond(r) == req' = [req EXCEPT ![r] = NoRequest]

RollbackRead(r, u) ==
  /\ HasRow(u) /\ Provider # "entra_id"
  /\ rec[u].jstat \in Retryable
  /\ Accept(r, "rollback", IF rec[u].ext THEN "directory" ELSE "commit", u)
  /\ UNCHANGED <<rec, emailOf, dir, resident, task, writes, wf, net, audit, crashes>>

\* delete_user: idempotent, its result unchecked, or it raises.
RollbackDirectory(r, u) ==
  /\ Serves(r, "rollback", "directory", u)
  /\ \/ /\ dir' = [d \in Uids |-> IF d \in Account(u) THEN NoEntry ELSE dir[d]]
        /\ Proceed(r)
     \/ UNCHANGED dir /\ (Proceed(r) \/ Respond(r))
  /\ UNCHANGED <<rec, emailOf, resident, task, writes, wf, net, audit, crashes>>

\* A variant that commits the deletion before it writes the audit entry.
RollbackCommitEarly(r, u) ==
  /\ Serves(r, "rollback", "commit", u)
  /\ rec' = [rec EXCEPT ![u] = NoRecord]
  /\ audit' = audit \cup {u} \/ UNCHANGED audit
  /\ Respond(r)
  /\ UNCHANGED <<emailOf, dir, resident, task, writes, wf, net, crashes>>

\* The handler reaches its end and answers 204.  hard_delete_onboarding_record,
\* which a row already gone does not stop, and the audit entry share one
\* transaction, and write_audit_log swallows the failure that rolls it back.
RollbackCommit(r, u) ==
  /\ Serves(r, "rollback", "commit", u)
  /\ \/ /\ rec' = [rec EXCEPT ![u] = NoRecord]
        /\ audit' = audit \cup {u}
     \/ UNCHANGED <<rec, audit>>
  /\ Respond(r)
  /\ UNCHANGED <<emailOf, dir, resident, task, writes, wf, net, crashes>>

OffboardRead(r, u) ==
  /\ HasRow(u) /\ Provider # "entra_id"
  /\ rec[u].jstat = "COMPLETED"
  /\ Accept(r, "offboard", "directory", u)
  /\ UNCHANGED <<rec, emailOf, dir, resident, task, writes, wf, net, audit, crashes>>

\* deactivate_user: 404 without an account; the entry's modify is unchecked.
Deactivates(u) == IF Provider = "ldap" THEN Account(u) # {} ELSE HasRow(u)
OffboardDirectory(r, u) ==
  /\ Serves(r, "offboard", "directory", u)
  /\ \/ /\ Deactivates(u)
        /\ \/ dir' = [d \in Uids |-> IF d \in Account(u)
                                     THEN [dir[d] EXCEPT !.st = "offboarded"]
                                     ELSE dir[d]]
           \/ UNCHANGED dir
        /\ Proceed(r)
     \/ Respond(r) /\ UNCHANGED dir
  /\ UNCHANGED <<rec, emailOf, resident, task, writes, wf, net, audit, crashes>>

\* mark_offboarded leaves a row that is gone alone.
OffboardCommit(r, u) ==
  /\ Serves(r, "offboard", "commit", u)
  /\ \/ rec' = IF HasRow(u) THEN [rec EXCEPT ![u].st = "offboarded"] ELSE rec
     \/ UNCHANGED rec
  /\ Respond(r)
  /\ UNCHANGED <<emailOf, dir, resident, task, writes, wf, net, audit, crashes>>

\* Postgres raises on the UPDATE, the DELETE or the commit: the answer is 500.
RequestRaises(r, u) ==
  /\ req[r].user = u /\ req[r].pc = "commit"
  /\ Respond(r)
  /\ UNCHANGED <<rec, emailOf, dir, resident, task, writes, wf, net, audit, crashes>>

-----------------------------------------------------------------------------
\* The process restarts: the job store, the tasks and the handlers are lost,
\* Postgres, the directory, n8n and its undelivered callbacks are not.
Crash ==
  /\ crashes < MaxCrashes
  /\ crashes' = crashes + 1
  /\ resident' = {}
  /\ task' = [j \in Jobs |-> IF Fresh(j) THEN task[j] ELSE [task[j] EXCEPT !.pc = "done",
                                                                !.seen = Unloaded]]
  /\ writes' = NoWrites
  /\ req' = [r \in Requests |-> NoRequest]
  /\ UNCHANGED <<rec, emailOf, dir, wf, net, audit>>

Pipeline(j) ==
  \/ Start(j) \/ Create(j)
  \/ LoadRow(j, "load1", "store1") \/ SaveAccount(j)
  \/ SetPassword(j)
  \/ LoadRow(j, "load2", "store2") \/ Announce(j)
  \/ ResumeLoad(j) \/ ResumeClaim(j) \/ ResumeAnnounce(j)
  \/ Dispatch(j) \/ NotDispatched(j) \/ Raise(j) \/ MarkFailed(j)
N8n(j) ==
  \/ N8nMail(j) \/ N8nIssue(j) \/ N8nError(j) \/ N8nDies(j)
Handler(r) ==
  \E u \in Users :
    \/ RollbackDirectory(r, u) \/ RollbackCommit(r, u)
    \/ OffboardDirectory(r, u) \/ OffboardCommit(r, u)
    \/ RequestRaises(r, u)
Admin ==
  \/ \E u \in Users, e \in Emails, j \in Jobs : Onboard(u, e, j)
  \/ \E u \in Users, j \in Jobs, rot \in BOOLEAN : Retry(u, j, rot)
  \/ \E r \in Requests, u \in Users : RollbackRead(r, u) \/ OffboardRead(r, u)

Next ==
  \/ Admin
  \/ \E j \in Jobs : Pipeline(j) \/ N8n(j)
  \/ \E j \in Jobs, s \in CallbackStatus : ReportJobStatus(j, s)
  \/ \E j \in Jobs, s \in Reported : CommitStatus(j, s)
  \/ \E r \in Requests : Handler(r)
  \/ Sweep \/ Crash

Spec == Init /\ [][Next]_vars

\* The event loop runs every scheduled task, open transactions end, requests
\* are served and APScheduler ticks.  Nothing obliges administrators or n8n.
Fairness ==
  /\ \A j \in Jobs : WF_vars(Pipeline(j))
  /\ \A j \in Jobs, s \in Reported : WF_vars(CommitStatus(j, s))
  /\ \A j \in Jobs, s \in CallbackStatus : WF_vars(ReportJobStatus(j, s))
  /\ \A r \in Requests : WF_vars(Handler(r))
  /\ WF_vars(Sweep)
FairSpec == Spec /\ Fairness

-----------------------------------------------------------------------------
(***************************************************************************)
(* Properties.                                                             *)
(***************************************************************************)
OnLdap == Provider = "ldap"
Owned(u) == {j \in Jobs : task[j].user = u}
Entered(u) == dir[Uid[emailOf[u]]].emp = u

\* Under LDAP no row says that mails were sent, an issue opened, the hire
\* completed or only the notifications missing, unless external_id is saved:
\* whatever order tasks, callbacks, the sweeper and retries come in.
NotifiedHasAccount ==
  OnLdap => \A u \in Users :
    rec[u].jstat \in {"EMAIL_SENDING", "JIRA_CREATING", "PARTIALLY_COMPLETE",
                     "COMPLETED"} => rec[u].ext

\* "Only the n8n callback (after Jira confirms) is allowed to set COMPLETED":
\* a row is COMPLETED only if n8n opened the issue for a job of that user.
CompletedConfirmed ==
  \A u \in Users : rec[u].jstat = "COMPLETED" => \E j \in Owned(u) : wf[j] = "done"

\* A row that once existed is gone only together with a committed audit entry
\* that says who rolled it back: also when two rollbacks of one user race, one
\* of which fails half-way, or a retry, an offboarding or a callback overtakes.
RollbackAudited ==
  \A u \in Users : emailOf[u] # NoEmail /\ ~ HasRow(u) => u \in audit

\* The sweeper's purpose: every row ends up, for good, in a status an
\* administrator can act on, whatever was lost on the way.
EventuallySettles ==
  <>[](\A u \in Users : HasRow(u) => rec[u].jstat \in {"COMPLETED"} \cup Retryable)

\* audit_middleware.py: an audit failure does not roll back the operation it
\* documents; a rollback answered with 204 has removed the row.
AuditFailureHarmless ==
  [][\A r \in Requests, u \in Users : RollbackCommit(r, u) => ~ HasRow(u)']_vars

-----------------------------------------------------------------------------
(***************************************************************************)
(* The refinement of OnboardingLedger: what the row, n8n and the audit log *)
(* say about each hire.                                                    *)
(***************************************************************************)
StageOf(u) ==
  CASE emailOf[u] = NoEmail -> "unknown"
    [] emailOf[u] # NoEmail /\ ~ HasRow(u) -> "gone"
    [] emailOf[u] # NoEmail /\ rec[u].jstat \in {"PENDING", "AD_CREATING"} -> "begun"
    [] emailOf[u] # NoEmail /\ rec[u].jstat \in {"EMAIL_SENDING", "JIRA_CREATING"} ->
         "announced"
    [] emailOf[u] # NoEmail /\ rec[u].jstat = "FAILED" -> "failed"
    [] emailOf[u] # NoEmail /\ rec[u].jstat = "PARTIALLY_COMPLETE" -> "partial"
    [] emailOf[u] # NoEmail /\ rec[u].jstat = "COMPLETED" -> "completed"
Stage == [u \in Users |-> StageOf(u)]
Accounts == {u \in Users : HasRow(u) /\ rec[u].ext}
Issues == {u \in Users : \E j \in Owned(u) : wf[j] = "done"}
Ledger == INSTANCE OnboardingLedger WITH
  Hires <- Users, NeedsAccount <- OnLdap,
  stage <- Stage, accounts <- Accounts, issues <- Issues, removals <- audit

\* Every interleaving of tasks, callbacks, sweeps, requests and restarts looks
\* to each hire like the ledger: announced after the account, completed after
\* the issue, removed together with the entry that says so, and never silently.
KeepsLedger == Ledger!Spec

-----------------------------------------------------------------------------
(***************************************************************************)
(* The inductive strengthening of the properties that hold for every value *)
(* of the constants.                                                       *)
(***************************************************************************)
Ended == {"none", "done"}
Undispatched == {"none", "start", "create", "load1", "store1", "setpw", "load2",
                 "store2", "rload", "rstore1", "rstore2", "dispatch"}
Saved == {"setpw", "load2", "store2", "rload", "rstore1", "rstore2", "dispatch",
          "partial", "closing"}

\* A live task works for a hire who was requested, a job that was never handed
\* out works for nobody, and no execution begins before the dispatch.
TasksHaveHires ==
  \A j \in Jobs :
    /\ task[j].pc = "none" => task[j].user = Nobody
    /\ task[j].pc \notin Ended => task[j].user \in Users
    /\ task[j].user \in Users => emailOf[task[j].user] # NoEmail
    /\ task[j].pc \in Undispatched => wf[j] = "idle"

\* The job a row carries was created for that row's hire, and so was the job
\* of a status update in flight.
JobsStayWithHires ==
  /\ \A u \in Users : rec[u].job \in Jobs => task[rec[u].job].user = u
  /\ \A u \in Users : HasRow(u) => rec[u].job \in Jobs /\ emailOf[u] # NoEmail
  /\ \A u \in Users : ~ HasRow(u) => rec[u].job = NoJob
  /\ \A j \in Jobs, s \in Reported : writes[j][s] # Nobody => task[j].user = writes[j][s]

\* Whoever is about to report progress beyond the account works on a row whose
\* external_id is saved (or on a row that is gone).
ReportersSawAccount ==
  OnLdap => \A j \in Jobs :
    LET u == task[j].user
    IN u \in Users /\ HasRow(u) /\ (task[j].pc \in Saved \/ wf[j] # "idle") => rec[u].ext

\* A callback comes from an execution; COMPLETED only from a finished one.
CallbacksFromN8n ==
  \A j \in Jobs :
    /\ \A s \in CallbackStatus : net[j][s] > 0 => wf[j] # "idle"
    /\ \A s \in {"JIRA_CREATING", "COMPLETED"} : writes[j][s] # Nobody => wf[j] # "idle"
    /\ net[j]["COMPLETED"] > 0 \/ writes[j]["COMPLETED"] # Nobody => wf[j] = "done"
    /\ writes[j]["PARTIALLY_COMPLETE"] # Nobody => task[j].pc = "closing"

\* A request under way is about a requested hire, and only LDAP accounts have
\* an external_id.
RequestsOfHires ==
  \A r \in Requests : req[r].user \in Users => emailOf[req[r].user] # NoEmail
OnlyLdapHasIds == ~ OnLdap => \A u \in Users : ~ rec[u].ext

IInv ==
  /\ TypeOK
  /\ TasksHaveHires
  /\ JobsStayWithHires
  /\ ReportersSawAccount
  /\ CallbacksFromN8n
  /\ NotifiedHasAccount
  /\ CompletedConfirmed
  /\ RollbackAudited
=============================================================================
