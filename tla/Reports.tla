------------------------------- MODULE Reports -------------------------------
(***************************************************************************)
(* Manual reports: the in-memory job store REPORT_JOBS, the background     *)
(* task that renders a PDF and records it in report_log and audit_log, the *)
(* status and download endpoints, and the dialog that polls for the result *)
(* and downloads it.                                                       *)
(*                                                                         *)
(* A step is the code between two awaits.  A fetch of the dialog stands    *)
(* for its attempt and up to three retries.                                *)
(***************************************************************************)
EXTENDS Naturals

CONSTANTS
  Jobs,        \* report job ids
  NoJob,
  MaxCrashes   \* bound on process restarts

ASSUME JobAssumption == NoJob \notin Jobs
ASSUME BoundAssumption == MaxCrashes \in Nat

VARIABLES
  job,     \* job[j]: REPORT_JOBS[j]["status"]; gone when it is not in the store
  task,    \* task[j]: where generate_manual_report_task is
  hist,    \* hist[j]: the status of the committed report_log row
  audit,   \* jobs with a committed audit entry
  served,  \* jobs whose PDF was handed out by the download endpoint
  modal,   \* the dialog of one administrator
  crashes

vars == <<job, task, hist, audit, served, modal, crashes>>

-----------------------------------------------------------------------------
JobStatus == {"none", "queued", "running", "completed", "FAILED", "gone"}
\* What ReportJobResponse accepts.
ResponseStatus == {"queued", "running", "completed", "failed"}
Pcs == {"none", "start", "gather", "render", "save", "record", "done"}

\* posted: the job of a trigger request on its way; job: activeJobId; data: the
\* last status received; asking: a fetch runs; saving: a download runs.
Modal == [posted : Jobs \cup {NoJob}, job : Jobs \cup {NoJob},
          data : ResponseStatus \cup {"none"}, asking : BOOLEAN, saving : BOOLEAN]
EmptyModal == [posted |-> NoJob, job |-> NoJob, data |-> "none",
               asking |-> FALSE, saving |-> FALSE]

TypeOK ==
  /\ job \in [Jobs -> JobStatus]
  /\ task \in [Jobs -> Pcs]
  /\ hist \in [Jobs -> {"none", "SENT", "FAILED"}]
  /\ audit \subseteq Jobs
  /\ served \subseteq Jobs
  /\ modal \in Modal
  /\ crashes \in 0..MaxCrashes

Init ==
  /\ job = [j \in Jobs |-> "none"]
  /\ task = [j \in Jobs |-> "none"]
  /\ hist = [j \in Jobs |-> "none"]
  /\ audit = {}
  /\ served = {}
  /\ modal = EmptyModal
  /\ crashes = 0

Resident(j) == job[j] \notin {"none", "gone"}

-----------------------------------------------------------------------------
(***************************************************************************)
(* POST /reports/trigger and the dialog around it.                         *)
(***************************************************************************)
\* The form is shown while no job is watched, and its submit button is disabled
\* while a request is on its way.
CanSubmit == modal.posted = NoJob /\ modal.job = NoJob

Trigger(j) ==
  /\ CanSubmit
  /\ job[j] = "none"
  /\ job' = [job EXCEPT ![j] = "queued"]
  /\ task' = [task EXCEPT ![j] = "start"]
  /\ modal' = [modal EXCEPT !.posted = j]
  /\ UNCHANGED <<hist, audit, served, crashes>>

\* The first fetch starts when the query is enabled.
Watch(j) == [EmptyModal EXCEPT !.job = j, !.asking = TRUE, !.saving = modal.saving]

\* The answer makes the dialog watch the job, or is lost: the report is made
\* for nobody.
Triggered ==
  /\ modal.posted # NoJob
  /\ modal' = Watch(modal.posted) \/ modal' = [modal EXCEPT !.posted = NoJob]
  /\ UNCHANGED <<job, task, hist, audit, served, crashes>>

\* handleClose; answers still on their way are taken all the same, that of a
\* download too.
Closed == [EmptyModal EXCEPT !.posted = modal.posted, !.saving = modal.saving]
Close ==
  /\ modal.job # NoJob
  /\ modal' = Closed
  /\ UNCHANGED <<job, task, hist, audit, served, crashes>>

\* The page is left: no callback of a running request fires any more.
Leave ==
  /\ modal # EmptyModal
  /\ modal' = EmptyModal
  /\ UNCHANGED <<job, task, hist, audit, served, crashes>>

-----------------------------------------------------------------------------
(***************************************************************************)
(* generate_manual_report_task.                                            *)
(***************************************************************************)
Start(j) ==
  /\ task[j] = "start"
  /\ job' = [job EXCEPT ![j] = "running"]
  /\ task' = [task EXCEPT ![j] = "gather"]
  /\ UNCHANGED <<hist, audit, served, modal, crashes>>

\* A variant that rolls back and records whatever was downloaded meanwhile.
FailedRecorded(j, next) ==
  /\ job' = [job EXCEPT ![j] = "FAILED"]
  /\ task' = [task EXCEPT ![j] = "record"]

\* The except branch: a job that was downloaded meanwhile raises KeyError and
\* ends the task; next is "done" when the session can no longer write.
Failed(j, next) ==
  IF Resident(j)
  THEN /\ job' = [job EXCEPT ![j] = "FAILED"]
       /\ task' = [task EXCEPT ![j] = next]
  ELSE /\ task' = [task EXCEPT ![j] = "done"]
       /\ UNCHANGED job

\* A failing query leaves an aborted transaction behind; a connection that was
\* never obtained does not.
Gather(j) ==
  /\ task[j] = "gather"
  /\ \/ task' = [task EXCEPT ![j] = "render"] /\ UNCHANGED job
     \/ Failed(j, "done")
     \/ Failed(j, "record")
  /\ UNCHANGED <<hist, audit, served, modal, crashes>>

\* The PDF is stored and the status set before anything is written to Postgres.
Render(j) ==
  /\ task[j] = "render"
  /\ \/ /\ job' = [job EXCEPT ![j] = "completed"]
        /\ task' = [task EXCEPT ![j] = "save"]
     \/ Failed(j, "record")
  /\ UNCHANGED <<hist, audit, served, modal, crashes>>

\* A variant that commits the history row before the audit entry.
SaveInTwo(j) ==
  /\ task[j] = "save"
  /\ hist' = [hist EXCEPT ![j] = "SENT"]
  /\ audit' = audit \cup {j} \/ UNCHANGED audit
  /\ task' = [task EXCEPT ![j] = "done"]
  /\ UNCHANGED <<job, served, modal, crashes>>

\* The row and the audit entry share the commit inside write_audit_log, which
\* swallows its failure.  When the rollback fails too, the commit that follows
\* raises, whether or not the first one has taken effect.
Save(j) ==
  /\ task[j] = "save"
  /\ \/ hist' = [hist EXCEPT ![j] = "SENT"] /\ audit' = audit \cup {j}
     \/ UNCHANGED <<hist, audit>>
  /\ \/ task' = [task EXCEPT ![j] = "done"] /\ UNCHANGED job
     \/ Failed(j, "done")
  /\ UNCHANGED <<served, modal, crashes>>

RecordFailure(j) ==
  /\ task[j] = "record"
  /\ \/ hist[j] = "none" /\ hist' = [hist EXCEPT ![j] = "FAILED"]
     \/ UNCHANGED hist
  /\ task' = [task EXCEPT ![j] = "done"]
  /\ UNCHANGED <<job, audit, served, modal, crashes>>

-----------------------------------------------------------------------------
(***************************************************************************)
(* GET /reports/{job_id}/status and useReportJobStatus.                    *)
(***************************************************************************)
\* A variant that polls only jobs that have begun.
IntervalRunning == modal.data = "running"
\* refetchInterval: 1500 ms while the last answer is queued or running.
Interval == modal.data \in {"queued", "running"}
Polls == modal.job # NoJob /\ (modal.asking \/ Interval)

\* A variant without a response schema.
StatusAnswerRaw ==
  /\ Polls
  /\ modal' = [modal EXCEPT !.data = job[modal.job], !.asking = FALSE]
  /\ UNCHANGED <<job, task, hist, audit, served, crashes>>

\* "FAILED" is no ResponseStatus, so building the response raises; with that
\* 500, or a 404, the last answer stays.
StatusAnswer ==
  /\ Polls
  /\ modal' = [modal EXCEPT !.data = IF job[modal.job] \in ResponseStatus
                                    THEN job[modal.job] ELSE @,
                            !.asking = FALSE]
  /\ UNCHANGED <<job, task, hist, audit, served, crashes>>

StatusLost ==
  /\ Polls
  /\ modal' = [modal EXCEPT !.asking = FALSE]
  /\ UNCHANGED <<job, task, hist, audit, served, crashes>>

\* refetchOnWindowFocus.
Focus ==
  /\ modal.job # NoJob
  /\ modal' = [modal EXCEPT !.asking = TRUE]
  /\ UNCHANGED <<job, task, hist, audit, served, crashes>>

-----------------------------------------------------------------------------
(***************************************************************************)
(* GET /reports/{job_id}/download and useDownloadReport.                   *)
(***************************************************************************)
\* The dialog shows the button, and disables it during a download.
Offered == modal.job # NoJob /\ modal.data = "completed"

Servable(j) == job[j] = "completed"

\* The job leaves the store before the answer is on its way; anything else is
\* refused with 400 or 404 and changes nothing.
Download ==
  LET j == modal.job
  IN /\ Offered /\ ~ modal.saving
     /\ Servable(j)
     /\ job' = [job EXCEPT ![j] = "gone"]
     /\ served' = served \cup {j}
     /\ modal' = [modal EXCEPT !.saving = TRUE]
     /\ UNCHANGED <<task, hist, audit, crashes>>

\* The file is saved and the dialog closes, whatever report it shows by now,
\* or the answer is lost.
Downloaded ==
  /\ modal.saving
  /\ \/ modal' = [Closed EXCEPT !.saving = FALSE]
     \/ modal' = [modal EXCEPT !.saving = FALSE]
  /\ UNCHANGED <<job, task, hist, audit, served, crashes>>

-----------------------------------------------------------------------------
Crash ==
  /\ crashes < MaxCrashes
  /\ crashes' = crashes + 1
  /\ job' = [j \in Jobs |-> IF job[j] = "none" THEN "none" ELSE "gone"]
  /\ task' = [j \in Jobs |-> IF task[j] = "none" THEN "none" ELSE "done"]
  /\ UNCHANGED <<hist, audit, served, modal>>

Generate(j) == Start(j) \/ Gather(j) \/ Render(j) \/ Save(j) \/ RecordFailure(j)
Dialog ==
  \/ Triggered \/ Close \/ Leave
  \/ StatusAnswer \/ StatusLost \/ Focus
  \/ Download \/ Downloaded
Next ==
  \/ \E j \in Jobs : Trigger(j) \/ Generate(j)
  \/ Dialog
  \/ Crash

Spec == Init /\ [][Next]_vars

\* The event loop runs the task, and a dialog that keeps polling gets an
\* answer now and then.
Fairness ==
  /\ \A j \in Jobs : WF_vars(Generate(j))
  /\ WF_vars(StatusAnswer)
FairSpec == Spec /\ Fairness

-----------------------------------------------------------------------------
(***************************************************************************)
(* Properties.                                                             *)
(***************************************************************************)

\* A manual report is in the history as SENT exactly if its audit entry is
\* committed, whichever of commit, rollback and second commit fails, and
\* whether or not the process restarts in between.
SentIffAudited == \A j \in Jobs : hist[j] = "SENT" <=> j \in audit

\* A report somebody has downloaded never appears in the history as FAILED,
\* although the download may come while the task is still writing.
DownloadedNotFailed == \A j \in Jobs : j \in served => hist[j] # "FAILED"

\* Once a poll has been answered, a report that is and stays ready is offered
\* for download in the dialog that waits for it.
CompletionShown ==
  \A j \in Jobs :
    (modal.job = j /\ modal.data # "none" /\ job[j] = "completed") ~>
      (modal.job # j \/ Offered \/ job[j] # "completed")
=============================================================================
