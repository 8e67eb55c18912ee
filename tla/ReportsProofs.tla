---------------------------- MODULE ReportsProofs ----------------------------
(***************************************************************************)
(* Proofs about Reports and the page around it, for any set of jobs and    *)
(* any number of restarts.                                                 *)
(***************************************************************************)
EXTENDS ReportsPage, TLAPS

\* What the download leaves behind: the job is gone, and its task can no longer
\* reach the branch that records a failure.
ServedIsOver ==
  \A j \in Jobs : j \in served => job[j] = "gone" /\ task[j] \in {"save", "done"}
\* A report that is ready has not been recorded as failed, and will not be.
ReadyNotFailed ==
  \A j \in Jobs : job[j] = "completed" => task[j] \in {"save", "done"} /\ hist[j] # "FAILED"

\* A job that was never triggered has no task.
TasksHaveJobs == \A j \in Jobs : job[j] = "none" => task[j] = "none"
\* The history row is the last thing a task writes.
RecordedLast == \A j \in Jobs : task[j] # "done" => hist[j] = "none"

ReportInv ==
  /\ TypeOK
  /\ SentIffAudited
  /\ DownloadedNotFailed
  /\ ServedIsOver
  /\ ReadyNotFailed
  /\ TasksHaveJobs
  /\ RecordedLast

-----------------------------------------------------------------------------
\* At the start nothing is triggered, recorded or served.
LEMMA InitInv == Init => ReportInv
<1> SUFFICES ASSUME Init PROVE ReportInv
  OBVIOUS
<1>1. TypeOK
  BY JobAssumption, BoundAssumption DEF Init, TypeOK, JobStatus, Pcs, Modal, EmptyModal
<1>2. SentIffAudited /\ DownloadedNotFailed
  BY DEF Init, SentIffAudited, DownloadedNotFailed
<1>3. ServedIsOver /\ ReadyNotFailed /\ TasksHaveJobs /\ RecordedLast
  BY DEF Init, ServedIsOver, ReadyNotFailed, TasksHaveJobs, RecordedLast
<1> QED
  BY <1>1, <1>2, <1>3 DEF ReportInv

\* Steps of the dialog alone change nothing the invariant speaks of but modal.
LEMMA ModalStep ==
  ASSUME ReportInv, modal' \in Modal, UNCHANGED <<job, task, hist, audit, served, crashes>>
  PROVE  ReportInv'
BY DEF ReportInv, TypeOK, SentIffAudited, DownloadedNotFailed,
       ServedIsOver, ReadyNotFailed, TasksHaveJobs, RecordedLast

\* Every such step leaves a dialog state.
LEMMA DialogTypes ==
  ASSUME ReportInv,
         Triggered \/ Close \/ Leave \/ StatusAnswer \/ StatusLost \/ Focus \/ Downloaded
  PROVE  modal' \in Modal /\ UNCHANGED <<job, task, hist, audit, served, crashes>>
<1> USE DEF ReportInv, TypeOK, Modal, EmptyModal
<1>1. CASE Triggered
  BY <1>1 DEF Triggered, Watch
<1>2. CASE Close
  BY <1>2 DEF Close, Closed
<1>3. CASE Leave
  BY <1>3 DEF Leave
<1>4. CASE StatusAnswer
  BY <1>4 DEF StatusAnswer, ResponseStatus
<1>5. CASE StatusLost
  BY <1>5 DEF StatusLost
<1>6. CASE Focus
  BY <1>6 DEF Focus
<1>7. CASE Downloaded
  BY <1>7 DEF Downloaded, Closed
<1> QED
  BY <1>1, <1>2, <1>3, <1>4, <1>5, <1>6, <1>7

-----------------------------------------------------------------------------
\* The task: one case for each of its steps.
LEMMA GenerateStep ==
  ASSUME ReportInv, NEW j \in Jobs, Generate(j)
  PROVE  ReportInv'
<1> USE DEF ReportInv, TypeOK, SentIffAudited, DownloadedNotFailed,
       ServedIsOver, ReadyNotFailed, TasksHaveJobs, RecordedLast, JobStatus, Pcs
<1>1. CASE Start(j)
  BY <1>1 DEF Start
<1>2. CASE Gather(j)
  BY <1>2 DEF Gather, Failed, Resident
<1>3. CASE Render(j)
  BY <1>3 DEF Render, Failed, Resident
<1>4. CASE Save(j)
  BY <1>4 DEF Save, Failed, Resident
<1>5. CASE RecordFailure(j)
  BY <1>5 DEF RecordFailure
<1> QED
  BY <1>1, <1>2, <1>3, <1>4, <1>5 DEF Generate

\* A trigger starts a job that has never been seen.
LEMMA TriggerStep ==
  ASSUME ReportInv, NEW j \in Jobs, Trigger(j)
  PROVE  ReportInv'
BY DEF Trigger, CanSubmit, ReportInv, TypeOK, SentIffAudited, DownloadedNotFailed,
       ServedIsOver, ReadyNotFailed, TasksHaveJobs, RecordedLast, JobStatus, Pcs, Modal

\* The download serves a job that is ready, so not one recorded as failed.
LEMMA DownloadStep ==
  ASSUME ReportInv, Download
  PROVE  ReportInv'
<1> DEFINE j == modal.job
<1>1. /\ j \in Jobs /\ Servable(j)
      /\ job' = [job EXCEPT ![j] = "gone"]
      /\ served' = served \cup {j}
      /\ modal' = [modal EXCEPT !.saving = TRUE]
      /\ UNCHANGED <<task, hist, audit, crashes>>
  BY DEF Download, Offered, ReportInv, TypeOK, Modal
<1>2. task[j] \in {"save", "done"} /\ hist[j] # "FAILED"
  BY <1>1 DEF ReportInv, ReadyNotFailed, Servable
<1>3. modal' \in Modal
  BY <1>1 DEF ReportInv, TypeOK, Modal
<1> HIDE DEF j
<1> QED
  BY <1>1, <1>2, <1>3 DEF ReportInv, TypeOK, SentIffAudited, DownloadedNotFailed,
       ServedIsOver, ReadyNotFailed, TasksHaveJobs, RecordedLast, JobStatus, Pcs

\* A restart forgets jobs and ends tasks; a job without a task stays untouched.
LEMMA CrashStep ==
  ASSUME ReportInv, Crash
  PROVE  ReportInv'
<1>1. crashes' \in 0..MaxCrashes
  BY BoundAssumption DEF Crash, ReportInv, TypeOK
<1>2. \A j \in Jobs : j \in served => task[j] # "none"
  BY DEF ReportInv, ServedIsOver
<1> QED
  BY <1>1, <1>2 DEF Crash, ReportInv, TypeOK, SentIffAudited, DownloadedNotFailed,
       ServedIsOver, ReadyNotFailed, TasksHaveJobs, RecordedLast, JobStatus, Pcs

\* Stuttering keeps the invariant.
LEMMA StutterStep ==
  ASSUME ReportInv, UNCHANGED vars
  PROVE  ReportInv'
BY DEF vars, ReportInv, TypeOK, SentIffAudited, DownloadedNotFailed,
       ServedIsOver, ReadyNotFailed, TasksHaveJobs, RecordedLast

\* Every step of tasks, endpoints, dialog and restarts keeps the invariant.
LEMMA ReportStep ==
  ASSUME ReportInv, [Next]_vars
  PROVE  ReportInv'
<1>1. ASSUME NEW j \in Jobs, Trigger(j) \/ Generate(j) PROVE ReportInv'
  BY <1>1, TriggerStep, GenerateStep
<1>2. CASE Download
  BY <1>2, DownloadStep
<1>3. CASE Triggered \/ Close \/ Leave \/ StatusAnswer \/ StatusLost \/ Focus \/ Downloaded
  BY <1>3, DialogTypes, ModalStep
<1>4. CASE Crash
  BY <1>4, CrashStep
<1>5. CASE UNCHANGED vars
  BY <1>5, StutterStep
<1> QED
  BY <1>1, <1>2, <1>3, <1>4, <1>5 DEF Next, Dialog

\* The invariant holds throughout.
THEOREM ReportsInvariant == Spec => []ReportInv
<1>1. ReportInv /\ [Next]_vars => ReportInv'
  BY ReportStep
<1> QED
  BY <1>1, InitInv, PTL DEF Spec

\* Job store, task, history, audit log and dialog keep their types: the dialog
\* never shows a status the response schema does not know.
THEOREM ReportsTypeCorrect == Spec => []TypeOK
<1>1. ReportInv => TypeOK
  BY DEF ReportInv
<1> QED
  BY <1>1, ReportsInvariant, PTL

\* For any number of reports and restarts a history row says SENT exactly if
\* the audit entry of that report is committed.
THEOREM SentAndAudited == Spec => []SentIffAudited
<1>1. ReportInv => SentIffAudited
  BY DEF ReportInv
<1> QED
  BY <1>1, ReportsInvariant, PTL

\* A downloaded report is never recorded as failed, however its download and
\* the writes of its task interleave.
THEOREM DownloadsNotFailed == Spec => []DownloadedNotFailed
<1>1. ReportInv => DownloadedNotFailed
  BY DEF ReportInv
<1> QED
  BY <1>1, ReportsInvariant, PTL

-----------------------------------------------------------------------------
(***************************************************************************)
(* The page implements module Reports, so that everything proved of that   *)
(* module holds of the page, and what the page adds: the history it lists  *)
(* contains what was recorded when a trigger was answered.                 *)
(***************************************************************************)
\* A step of the page is a step of the jobs and the dialog, or none of theirs.
LEMMA PageStep ==
  ASSUME [PageNext]_pageVars
  PROVE  [Next]_vars
<1>1. CASE UNCHANGED pageVars
  BY <1>1 DEF pageVars
<1>2. CASE Beside
  BY <1>2 DEF Beside, Next, Dialog
<1>3. CASE Served \/ Stored \/ FetchFails \/ Open \/ Forget \/ Refetch
  BY <1>3 DEF Served, Stored, FetchFails, Open, Forget, Refetch
<1>4. CASE LeavePage
  BY <1>4 DEF LeavePage, Next, Dialog
<1>5. ASSUME NEW j \in Jobs, Request(j) PROVE [Next]_vars
  BY <1>5 DEF Request, Next
<1>6. ASSUME NEW j \in Jobs, RequestAnswered(j) PROVE [Next]_vars
  <2>1. CASE modal.posted = j
    <3>1. Triggered
      BY <1>6, <2>1, JobAssumption DEF RequestAnswered, Watched, Triggered
    <3> QED BY <3>1 DEF Next, Dialog
  <2>2. CASE modal.posted # j
    BY <1>6, <2>2 DEF RequestAnswered, Watched, vars
  <2> QED BY <2>1, <2>2
<1>7. ASSUME NEW j \in Jobs, RequestLost(j) PROVE [Next]_vars
  <2>1. CASE modal.posted = j
    <3>1. Triggered
      BY <1>7, <2>1, JobAssumption DEF RequestLost, Triggered
    <3> QED BY <3>1 DEF Next, Dialog
  <2>2. CASE modal.posted # j
    BY <1>7, <2>2 DEF RequestLost, vars
  <2> QED BY <2>1, <2>2
<1> QED BY <1>1, <1>2, <1>3, <1>4, <1>5, <1>6, <1>7 DEF PageNext

\* The page implements module Reports, however it is left, entered again and
\* answered late.
THEOREM PageImplements == PageSpec => KeepsReports
<1>1. PageInit => Init
  BY DEF PageInit
<1>2. [PageNext]_pageVars => [Next]_vars
  BY PageStep
<1> QED BY <1>1, <1>2, PTL DEF PageSpec, KeepsReports, Spec

-----------------------------------------------------------------------------
(***************************************************************************)
(* The invariant of the page.                                              *)
(***************************************************************************)

\* Whatever was recorded at the last answer to a trigger is in an answer that
\* was asked for afterwards, and in the cache when that answer has arrived; a
\* page does not sit before an invalidated history without asking anew.
AnswersKnow == fetch.on = "answered" /\ ~ fetch.late => owed \subseteq fetch.rows
CacheKnows == cache.loaded /\ ~ cache.inv /\ ~ cache.late => owed \subseteq cache.rows
AsksAnew == opened /\ cache.loaded /\ cache.inv /\ ~ cache.failed => fetch.on # "no"
PageInv ==
  /\ ReportInv
  /\ PageTypeOK
  /\ owed \subseteq Recorded
  /\ AnswersKnow /\ CacheKnows /\ AsksAnew

\* A recorded report stays recorded.
LEMMA RecordsStay ==
  ASSUME TypeOK, [Next]_vars
  PROVE  Recorded \subseteq Recorded'
<1>1. ASSUME NEW j \in Jobs, Generate(j) PROVE Recorded \subseteq Recorded'
  BY <1>1 DEF Generate, Start, Gather, Render, Save, RecordFailure, TypeOK, Recorded
<1>2. CASE hist' = hist
  BY <1>2 DEF Recorded
<1>3. hist' = hist \/ \E j \in Jobs : Generate(j)
  BY DEF Next, Trigger, Dialog, Triggered, Close, Leave, StatusAnswer, StatusLost, Focus,
         Download, Downloaded, Crash, vars
<1> QED BY <1>1, <1>2, <1>3

\* The dialog is part of the page, also after each step of it.
LEMMA DialogInPage ==
  ASSUME PageTypeOK, [PageNext]_pageVars
  PROVE  modal' # EmptyModal => opened'
<1>1. CASE Beside /\ UNCHANGED page
  <2>1. modal' = modal \/ modal # EmptyModal
    BY <1>1, JobAssumption
       DEF Beside, Generate, Start, Gather, Render, Save, RecordFailure, Close, StatusAnswer,
           StatusLost, Focus, Download, Downloaded, Crash, Polls, Interval, Offered, EmptyModal
  <2> QED BY <1>1, <2>1 DEF PageTypeOK, page
<1>2. CASE LeavePage
  BY <1>2 DEF LeavePage, Leave, vars
<1>3. ASSUME NEW j \in Jobs, Request(j) \/ RequestAnswered(j) \/ RequestLost(j)
      PROVE  modal' # EmptyModal => opened'
  <2>1. modal.posted = j => modal # EmptyModal
    BY JobAssumption DEF EmptyModal
  <2> QED BY <1>3, <2>1 DEF Request, RequestAnswered, RequestLost, Watched, PageTypeOK
<1>4. CASE Served \/ Stored \/ FetchFails \/ Open \/ Forget \/ Refetch
  BY <1>4 DEF Served, Stored, FetchFails, Open, Forget, Refetch, vars, PageTypeOK
<1>5. CASE UNCHANGED pageVars
  BY <1>5 DEF pageVars, vars, page, PageTypeOK
<1> QED BY <1>1, <1>2, <1>3, <1>4, <1>5 DEF PageNext

\* The entry, its request and the requests of the page keep their types.
LEMMA PageTypes ==
  ASSUME PageTypeOK, [PageNext]_pageVars
  PROVE  opened' \in BOOLEAN /\ posts' \subseteq Jobs /\ owed' \subseteq Jobs
         /\ cache' \in Entry /\ fetch' \in Fetch
<1> USE DEF PageTypeOK
<1>1. Recorded \subseteq Jobs /\ NoEntry \in Entry /\ NoFetch \in Fetch /\ SentFetch \in Fetch
  BY DEF Recorded, NoEntry, Entry, NoFetch, SentFetch, Fetch
<1>2. CASE UNCHANGED page
  BY <1>2 DEF page
<1>3. CASE Served
  BY <1>1, <1>3 DEF Served, Fetch
<1>4. CASE Stored
  BY <1>1, <1>4 DEF Stored, Fetch, Entry
<1>5. CASE FetchFails
  <2>1. [cache EXCEPT !.failed = TRUE] \in Entry
    BY DEF Entry
  <2> QED BY <1>1, <1>5, <2>1 DEF FetchFails
<1>6. CASE Open \/ LeavePage \/ Forget \/ Refetch
  BY <1>1, <1>6 DEF Open, LeavePage, Forget, Refetch
<1>7. ASSUME NEW j \in Jobs, Request(j) \/ RequestLost(j)
      PROVE  opened' \in BOOLEAN /\ posts' \subseteq Jobs /\ owed' \subseteq Jobs
             /\ cache' \in Entry /\ fetch' \in Fetch
  BY <1>7 DEF Request, RequestLost
<1>8. ASSUME NEW j \in Jobs, RequestAnswered(j)
      PROVE  opened' \in BOOLEAN /\ posts' \subseteq Jobs /\ owed' \subseteq Jobs
             /\ cache' \in Entry /\ fetch' \in Fetch
  <2>1. cache' \in Entry
    BY <1>8 DEF RequestAnswered, Invalidated, Entry
  <2>2. fetch' \in Fetch
    BY <1>1, <1>8 DEF RequestAnswered, Invalidated, Fetch
  <2> QED BY <1>1, <1>8, <2>1, <2>2 DEF RequestAnswered
<1> QED BY <1>2, <1>3, <1>4, <1>5, <1>6, <1>7, <1>8 DEF PageNext, pageVars

\* What was owed stays on its way to the page.
LEMMA HistoryStep ==
  ASSUME PageInv, [PageNext]_pageVars
  PROVE  owed' \subseteq Recorded' /\ AnswersKnow' /\ CacheKnows' /\ AsksAnew'
<1> USE DEF PageInv, AnswersKnow, CacheKnows, AsksAnew
<1>1. Recorded \subseteq Recorded'
  BY RecordsStay, PageStep DEF ReportInv
<1>2. fetch \in Fetch /\ cache \in Entry /\ opened \in BOOLEAN
  BY DEF PageTypeOK
<1>3. CASE UNCHANGED page
  BY <1>1, <1>3 DEF page
<1>4. CASE Served
  <2>1. /\ fetch'.on = "answered" /\ fetch'.rows = Recorded
        /\ UNCHANGED <<opened, posts, cache, owed>>
    BY <1>2, <1>4 DEF Served, Fetch
  <2> QED BY <1>1, <2>1
<1>5. CASE Stored
  <2>1. /\ fetch'.on = "no" /\ cache'.rows = fetch.rows /\ cache'.late = fetch.late
        /\ ~ cache'.inv /\ fetch.on = "answered" /\ UNCHANGED <<opened, posts, owed>>
    BY <1>5 DEF Stored, NoFetch
  <2> QED BY <1>1, <2>1
<1>6. CASE FetchFails
  <2>1. /\ fetch'.on = "no" /\ cache'.rows = cache.rows /\ cache'.late = cache.late
        /\ cache'.inv = cache.inv /\ cache'.loaded = cache.loaded /\ cache'.failed
        /\ UNCHANGED <<opened, posts, owed>>
    BY <1>2, <1>6 DEF FetchFails, NoFetch, Entry
  <2> QED BY <1>1, <2>1
<1>7. CASE Open
  <2>1. SentFetch.on = "sent"
    BY DEF SentFetch, NoFetch
  <2> QED BY <1>1, <1>7, <2>1 DEF Open
<1>8. CASE LeavePage
  BY <1>1, <1>8 DEF LeavePage
<1>9. CASE Forget
  BY <1>1, <1>9 DEF Forget, NoEntry
<1>10. CASE Refetch
  <2>1. SentFetch.on = "sent"
    BY DEF SentFetch, NoFetch
  <2> QED BY <1>1, <1>10, <2>1 DEF Refetch
<1>11. ASSUME NEW j \in Jobs, Request(j) \/ RequestLost(j)
       PROVE  owed' \subseteq Recorded' /\ AnswersKnow' /\ CacheKnows' /\ AsksAnew'
  BY <1>1, <1>11 DEF Request, RequestLost
<1>12. ASSUME NEW j \in Jobs, RequestAnswered(j)
       PROVE  owed' \subseteq Recorded' /\ AnswersKnow' /\ CacheKnows' /\ AsksAnew'
  <2>1. owed' = Recorded /\ opened' = opened /\ Invalidated
    BY <1>12 DEF RequestAnswered
  <2>2. cache'.inv = cache.loaded /\ cache'.loaded = cache.loaded
    BY <1>2, <2>1 DEF Invalidated, Entry
  <2>3. SentFetch.on = "sent"
    BY DEF SentFetch, NoFetch
  <2>4. \/ fetch'.on = "sent"
        \/ fetch'.on = fetch.on /\ fetch'.late = (fetch.on # "no")
    BY <1>2, <2>1, <2>3 DEF Invalidated, Fetch
  <2>5. opened /\ cache.loaded => fetch'.on = "sent"
    BY <2>1, <2>3 DEF Invalidated
  <2> QED BY <1>1, <2>1, <2>2, <2>4, <2>5
<1> QED BY <1>3, <1>4, <1>5, <1>6, <1>7, <1>8, <1>9, <1>10, <1>11, <1>12
        DEF PageNext, pageVars

\* Every step of the page keeps its invariant.
LEMMA PageInvariant == PageSpec => []PageInv
<1>1. PageInit => PageInv
  <2> SUFFICES ASSUME PageInit PROVE PageInv
    OBVIOUS
  <2>1. ReportInv /\ modal = EmptyModal
    BY InitInv DEF PageInit, Init
  <2>2. NoEntry \in Entry /\ NoFetch \in Fetch
    BY DEF NoEntry, Entry, NoFetch, Fetch
  <2>3. PageTypeOK
    BY <2>1, <2>2 DEF PageInit, PageTypeOK, ReportInv
  <2>4. AnswersKnow /\ CacheKnows /\ AsksAnew /\ owed \subseteq Recorded
    BY DEF PageInit, AnswersKnow, CacheKnows, AsksAnew, NoEntry, NoFetch
  <2> QED BY <2>1, <2>3, <2>4 DEF PageInv
<1>2. PageInv /\ [PageNext]_pageVars => PageInv'
  <2> SUFFICES ASSUME PageInv, [PageNext]_pageVars PROVE PageInv'
    OBVIOUS
  <2>1. ReportInv'
    BY PageStep, ReportStep DEF PageInv
  <2>2. PageTypeOK'
    BY <2>1, PageTypes, DialogInPage DEF PageInv, PageTypeOK, ReportInv
  <2> QED BY <2>1, <2>2, HistoryStep DEF PageInv
<1> QED BY <1>1, <1>2, PTL DEF PageSpec

\* Jobs, dialog, history query and trigger requests keep their types, and no
\* dialog outlives its page.
THEOREM PageTypeCorrect == PageSpec => []PageTypeOK
<1>1. PageInv => PageTypeOK
  BY DEF PageInv
<1> QED BY <1>1, PageInvariant, PTL

\* For any number of reports, visits and failures the page lists what was
\* recorded when a trigger was last answered, unless it is still asking, could
\* not ask, or was overtaken.
THEOREM RecordedIsListed == PageSpec => []RecordedListed
<1>1. PageInv => RecordedListed
  BY DEF PageInv, CacheKnows, AsksAnew, RecordedListed, Rows
<1> QED BY <1>1, PageInvariant, PTL

\* A badge "failed" never stands beside a report that can be or was downloaded.
THEOREM FailedWithoutPdf == PageSpec => []FailedHasNoPdf
<1>1. PageInv => FailedHasNoPdf
  <2> SUFFICES ASSUME PageInv, NEW j \in Rows, Badge(j) = "Fehlgeschlagen"
               PROVE  ~ Servable(j) /\ j \notin served
    BY DEF FailedHasNoPdf
  <2>1. hist[j] = "FAILED"
    BY DEF Badge
  <2>2. j \in Jobs
    BY DEF PageInv, PageTypeOK, Rows, Entry
  <2> QED BY <2>1, <2>2
          DEF PageInv, ReportInv, ReadyNotFailed, DownloadedNotFailed, Servable
<1> QED BY <1>1, PageInvariant, PTL
=============================================================================
