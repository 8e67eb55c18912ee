# Verification of the IT automation dashboard

TLA+ models of the IT automation workspace: a FastAPI backend with Postgres, an LDAP directory and
n8n workflows, and a React client. The modules model what runs concurrently or fails half-way, on the server
and in the browser; TLC checks them on small instances, and TLAPS proves the properties that matter most
for every number of hires, jobs, scans, reports, requests and restarts.

`tlc -config MCxxx.cfg MCyyy` runs a check, `tlapm XxxProofs.tla` checks a proof. `PROJECT.json` lists both, maps
every definition to the lines it models, and names for each property a mutation of the model, in the
way a plausible bug would change the code, that TLC finds.

## 1. The system and its parts

| Component | State it keeps | Operations | Interacts with | Module |
| --- | --- | --- | --- | --- |
| Onboarding router, pipelines, record service | `onboarded_user` rows (`job_status`, `job_id`, `external_id`, `status`) | onboard, retry, rollback, offboard, status callback; run and resume pipeline as background tasks | provisioning, n8n, job store, audit log | `Onboarding` |
| Provisioning (LDAP, local, Entra ID) | directory entries, their group and password | create, set password, deactivate, delete | called by pipelines and router, in threads | `Onboarding`, `OnboardingPasswords` |
| Sweeper | none | every minute resolve rows that are silent for five minutes | `onboarded_user`, with `SELECT ... FOR UPDATE` | `Onboarding` |
| n8n | an execution for each accepted webhook | mail, Jira issue, callbacks with `retryOnFail` | calls `/onboard/jobs/{id}/status` | `Onboarding` |
| Job store and onboarding SSE | `job_store` dictionary with a queue for each job | create, update, stream | pipelines feed it, the page reads it | `Onboarding`, `OnboardingBoard` |
| Onboarding page | list query with its 20 s poll, watched jobs, streams, optimistic rows | create, retry, rollback, offboard from cards | the endpoints above | `OnboardingBoard` |
| Network scanner, scan dialog | `job_store` of scans, a progress queue for each, the `useScanStream` hook | scan a subnet (50 hosts at a time), upsert devices, stream progress | `devices`, audit log | `Scanning` |
| Device inventory, assets page | `devices`; query cache, ticks, dialogs | list by page, create, update, delete one or many | scanner | `Scanning`, `AssetsPage` |
| Scheduler | APScheduler jobs | discovery scan, weekly report, sweeper | the three services | `Onboarding`, `Scanning` |
| Reports, reports page | `REPORT_JOBS` in memory, `report_log`; dialog, history query | trigger, background task, status, download, history | audit log | `Reports`, `ReportsPage` |
| Authentication | `users`, stateless JWTs, refresh cookie | login, refresh, logout, current user | every router | `AuthSession` |
| Browser session | auth store, shared refresh promise, bootstrap gate | interceptors, bootstrap, login, sign-out | authentication | `AuthSession` |
| Audit log, audit page | `audit_log`; filter, offset, query cache | `write_audit_log` (commits the caller's session, swallows failures), paged read | everything that changes data | `Onboarding`, `Reports`, `AuditTrail` |
| Dashboard | the query `["dashboard"]` with its poll | a snapshot of six statements | devices, hires, audit log | `Dashboard` |
| Password policy, settings, exceptions, seed, other views | none of their own | pure validators, rendering | - | - |

What is hard here, and which properties answer it:

* **Sagas across Postgres, a directory and n8n** with no common transaction. Correct means: no row
  claims more than happened outside (`NotifiedHasAccount`, `CompletedConfirmed`, `KeepsLedger`), the password mailed is
  the one in force and nobody else's, but for the overlaps the code lets happen (`MailedPasswordWorks`, `PasswordOfOwner`), every row settles although
  tasks die and n8n goes silent (`EventuallySettles`), nothing disappears without trace (`RollbackAudited`).
* **READ COMMITTED and few row locks.** A SELECT and the write it decides are two steps; only retry and
  the sweeper lock. The dashboard's six statements see six databases (`CountsAddUp` for what one statement counts, `DashboardConverges` for the rest).
* **A shared session between an operation and its audit entry.** `write_audit_log` commits, or rolls back
  and swallows, what the caller has only flushed (`SentIffAudited`, `AuditFailureHarmless`).
* **Retries and late answers**: webhooks that time out after n8n has started, duplicate callbacks, a
  refresh answered after a sign-out (`SignedOutStays`), a poll answered with an error.
* **In-memory jobs**: a restart forgets them, a download removes one while its task still writes
  (`DownloadedNotFailed`), a queue is read once and by whoever asks first (`ListConverges`).
* **Concurrent scans**: fifty tasks finish in any order (`ProgressForward`), overlapping transactions lock the
  same rows (`NoLockCycle`), administrators edit the rows being scanned (`NoGhosts`).
* **Caches in the browser**: optimistic rows against polls (`OptimismKept`, `ShownStatusHappened`), a cache entry for
  each filter and page (`DeletedLeaves`, `ShownMatches`), offsets into a log that grows (`NoGap`), requests that an
  invalidation does or does not replace (`RecordedListed`), ticks that outlive the page (`DeletesChosen`).
* **The browser's own concurrency**: requests share one refresh, StrictMode mounts effects twice
  (`GateOpensComplete`), requests are retried once (`RequestsSettle`), pages are left while answers are on their way
  (`KeepsReports`).

`PROJECT.json` lists the hazards with the line at which each bites; section 6 has those for which the list has no room.

## 2. The modules

A step of every model is what the program does between two points where others may run: one transaction or
one statement of it, one directory call, one stretch between two `await`s, one answer in the browser.
Variants of a definition (named and commented as such, used by nothing else) are the plausible bugs that TLC finds.

```
OnboardingLedger <-- refined by -- Onboarding <-- extended by -- OnboardingPasswords (history variables)
Reports <-- extended and refined by -- ReportsPage
OnboardingBoard  (the page, over any statuses Onboarding may report)
Scanning         AssetsPage        AuditTrail        Dashboard        AuthSession
```

The proofs are in modules of their own: `OnboardingProofs` (pipeline, ledger and passwords), `ReportsProofs` (service and page), `OnboardingBoardProofs`,
`ScanningProofs`, `AssetsPageProofs`, `AuditTrailProofs`, `DashboardProofs` and `AuthSessionProofs`.

### Onboarding (`Onboarding.tla`, `MCOnboarding.tla`)

| Variable | Code |
| --- | --- |
| `rec[u]` | the row: `job_id`, `job_status`, whether `external_id` is set, `status` |
| `emailOf[u]` | the address requested for hire `u` |
| `dir[d]` | the LDAP entry with uid `d`: `employeeNumber`, `description`, which job chose its password |
| `resident` | keys of `core/job_store.py` |
| `task[j]` | where the pipeline of job `j` is, and what its session has loaded |
| `writes[j][s]` | an `update_onboarding_job_status` between its SELECT and its commit |
| `wf[j]`, `net[j][s]` | the n8n execution and its callbacks in flight |
| `req[r]` | a rollback or offboard handler between its awaits, and the hire it works for; several may work for one |
| `audit`, `crashes` | the hires with a committed rollback entry, restarts |

`Onboard` and `Retry` are the two endpoints that start a task; `Start`, `Create`, `LoadRow`/`SaveAccount`, `SetPassword`, `LoadRow`/`Announce`,
`Dispatch`, `NotDispatched` are `run_onboarding_pipeline` statement by statement; `ResumeLoad`, `ResumeClaim`, `ResumeAnnounce` are the resume
pipeline; `Raise` and `MarkFailed` are the exception handlers. SQLAlchemy writes only columns that differ from
what the session has loaded, which is why `task[j].seen` exists: an overtaken task may leave a column alone that
another one has changed. `ReportJobStatus` and `CommitStatus` are the callback; `Sweep` resolves any set of stale rows;
`RollbackRead`, `RollbackDirectory`, `RollbackCommit` and the three `Offboard...` actions are the handlers between awaits, `RequestRaises` is a commit that fails. Nothing keeps two of them
for one hire apart: the second rollback finds the entry deleted (`delete_user` is idempotent), deletes a row that may be gone (a DELETE that waited
for the first one's row lock matches nothing, which is no error) and writes an audit entry of its own; `mark_offboarded` leaves a missing row alone. `Announce`,
`RollbackCommit` and `OffboardCommit` contain the failure of `write_audit_log`, with what it rolls back.
External: n8n (`N8nMail`, `N8nIssue`, `N8nError`, `N8nDies`, `Send`), modelled from the workflow file and from how the backend calls it.

### OnboardingPasswords (`OnboardingPasswords.tla`, `MCOnboardingPasswords.tla`)

Adds two history variables to `Onboarding`, which no step reads: the hires whose entry a rollback has deleted (`deleted`) and those for whom two
tasks were at work at once (`crowded`). Every step of `Onboarding` is one of this module and the other way round; what the module states of passwords
needs them, because the exceptions are about the past. `PasswordInv` is the invariant the proofs induct on.

### OnboardingLedger (`OnboardingLedger.tla`)

The abstract promise about each hire: four sets and a stage, without tasks, transactions, callbacks or restarts. `Announce` needs
the account on record, `Complete` needs the Jira issue, `Remove` writes the audit entry with it. `Onboarding` instantiates it
with a refinement mapping (`Stage` reads the row, `Accounts` the rows with an `external_id`, `Issues` the executions that are done, `removals` are the
rollback entries in `audit`) and `KeepsLedger` says that every step of the pipeline, of a callback, a sweep, a handler or a restart is one
step of the ledger or none. Two of its actions are as weak as the code: a hire may fall back to an earlier stage, because a
callback overwrites whatever status the row has, and a removed hire may reappear, because a pipeline that overlaps its rollback inserts the row anew.

### OnboardingBoard (`OnboardingBoard.tla`, `MCOnboardingBoard.tla`)

| Variable | Code |
| --- | --- |
| `row`, `store`, `queue` | committed rows, `job_store`, and the queue of each job |
| `had[j]` | ghost: the statuses job `j` ever had |
| `list`, `fetch` | the cache entry `["onboard", "list"]` and its request |
| `watched`, `conn[j]` | `["onboard", "watchedJobIds"]` and the stream of each subscriber |
| `post[u]`, `mine` | a create with the snapshot that `onError` puts back; the form that waits for it |
| `asked` | retry, rollback and offboard requests of cards |
| `sep` | how the server ends its lines |

What moves a job on may report any status here: `Onboarding` allows late and repeated callbacks in any order. `Publish` queues the event
before `Persist` commits the row, as `report_job_status` does. `Create`, `CreateSucceeds` and `CreateFails` are `onMutate`, `onSuccess` and `onError`;
`Poll`, `FetchServed`, `FetchStored` the list query; `Subscribe`, `ReadFirst`, `ReadEvent` the stream hook, with `Steal` for another reader of
the same queue; `Offered` is what the cards of each column offer. A list request stands for its attempt and its retries.

### Scanning (`Scanning.tla`, `MCScanning.tla`)

`scan[j]`, `host[j][a]` and `queue[j]` are a scan job, its tasks of one host and its progress queue; `lock[a]` is the row lock of the
upsert transaction; `dev[a]` is a row of `devices` and remembers which scan inserted it; `saved` are the scans whose transaction has
committed; `ui[h]` is the state of `useScanStream` and whether the body of its stream has ended. `StreamFails` is a stream that rejects, which the hook
shows as an error; `StreamEnds` one whose body just ends, which calls an `onClose` that the hook does not pass. `Upsert` processes results one by one and waits for locks as Postgres does;
`CommitResults`, `Complete` and `Fail` are the ends of `run_scan`. nmap is a choice between up, down and a raised exception.
`CreateDevice`, `UpdateDevice` and `DeleteDevice` are single-row transactions.

### AssetsPage (`AssetsPage.tla`, `MCAssetsPage.tla`)

`db`, `down`, `gone` are the devices; `view` the filters, page and page size with the debounced search term; `cache[k]` and `fetch[k]` the query
of each key; `ticked` is `rowSelection`, `dialog` the open delete dialog; `press[p]` the DELETE requests of one confirmed deletion. `Served` is
`list_devices_paginated` with its order by host name, which leaves the nameless in any order, and the health filter that the page applies to
what arrived. `Invalidated` is `invalidateQueries(["assets"])` with what it does to requests on their way; `DeleteAnswered` is the `onSuccess` of one
deletion and, for the last of a bulk, the continuation of `Promise.all`. `chosen`, `meant`, `said` and `removed` are ghosts: what was ticked or asked for, and
what the page was told.

### AuditTrail (`AuditTrail.tla`, `MCAuditTrail.tla`)

`log` is `audit_log`, whose entries become visible in another order than that of their timestamps. `view` is filter and offset, `cache` and `fetch` the query of each,
`last` the key whose rows stand in as placeholder. `Served` is the paged read, newest first; `HasMore` guesses from a full page.

### Reports and ReportsPage (`Reports.tla`, `ReportsPage.tla`, `MCReports.tla`)

`job[j]` is `REPORT_JOBS[j]["status"]`, `task[j]` is where `generate_manual_report_task` is, `hist` and `audit` are what is committed in `report_log` and
`audit_log`, `modal` is `GenerateReportModal` with its two mutations and its query. `Save` holds the two commits of the task: the one in
`write_audit_log`, which swallows its failure, and the one after it. `Failed` is the except branch, in which a job that was
downloaded meanwhile raises `KeyError`. `StatusAnswer` contains the response schema, which rejects `"FAILED"`.
`ReportsPage` puts the page around it: `opened`, the trigger requests that outlive it (`posts`), the history query (`cache`, `fetch`) and its invalidation when
a trigger is answered; `KeepsReports` says that the two together take only steps of `Reports`.

### Dashboard (`Dashboard.tla`, `MCDashboard.tla`)

`dev`, `strained`, `scores`, `hire`, `log` are the database; `req` is a snapshot under way, `ReadCounts` to `ReadFeed` its statements in order, each under
its own snapshot; `data` and `failed` are the query, `Cards`, `Trend`, `OsTotal`, `Summary` and `Feed` what the page makes of it. `Scan`, `Edit`, `HireMoves` and `Logged` commit between them.

### AuthSession (`AuthSession.tla`, `MCAuthSession.tla`)

`store` is the zustand store, `hydrating` the bootstrap gate, `req[r]` a request with its token and `_retry` mark, `shared` whether
`refreshPromise` is set. A step is an answer with everything its promise continuations do. `Accepts`, `Authenticates` and `Rotates` are what
`get_current_user`, `authenticate_user` and `rotate_access_token` accept; tokens, the cookie and the row may expire or be deactivated at any time.
`Succeed`, `Lost` and `Unauthorised` are the three kinds of answers, `RefreshOk` and `RefreshFails` those of the shared refresh.

### Composition

`ReportsPage` composes page, dialog, task and database of reports in one specification. `OnboardingBoard` composes the page with a server that may report
any status at any time, a superset of what `Onboarding` does; its properties therefore do not depend on the pipeline. The others meet only in append-only audit
entries, in single-row device transactions (part of `Scanning`, of `AssetsPage` and of `Dashboard`), and in whether a request is accepted.

## 3. What the runs check

| Run | Instance | States | Shows |
| --- | --- | --- | --- |
| `onboarding_overlap` | LDAP, 2 hires, 1 address, 2 jobs, 2 rollback or offboard requests, tasks that outlast the sweeper's limit | 654,993 | `TypeOK`, `NotifiedHasAccount`, `MailedPasswordWorks`, `PasswordOfOwner`, `CompletedConfirmed`, `RollbackAudited`, the refinement `KeepsLedger` |
| `onboarding_live` | LDAP, 1 hire, 2 jobs, 1 request, 1 restart, late webhook answers | 290,723 | `EventuallySettles`, the inductive `PasswordInv` (with `IInv` in it) |
| `onboarding_board` | 1 hire, 2 jobs, 2 events, 1 fault, both line ends | 881,689 | `TypeOK`, `ShownStatusHappened`, `OptimismKept`, `ListConverges` |
| `scanning_devices` | 2 scans, 2 hosts, overlapping subnets, 1 edit | 795,187 | `TypeOK`, `NoGhosts`, `NoLockCycle` |
| `scanning_watch` | 1 watched scan, 3 hosts, 2 at a time, 1 restart | 34,779 | `CompleteIsSaved`, `ProgressForward`, `WatcherTold` |
| `reports` | 2 reports, dialog and page, 1 restart | 765,548 | `PageTypeOK`, `SentIffAudited`, `DownloadedNotFailed`, `RecordedListed`, `FailedHasNoPdf`, `CompletionShown`, the refinement `KeepsReports` |
| `auth_session` | 2 data requests, login, a bootstrap run twice, 1 reload | 37,293 | `TypeOK`, `GateOpensComplete`, `SignedOutStays`, `RequestsSettle` |
| `assets_page` | 2 devices without names, page sizes 1 and 2, search and health filter, 2 presses, 2 events | 532,706 | `TypeOK`, `BulkToastTrue`, `DeletedLeaves`, `DeletesChosen` |
| `audit_trail` | 4 entries of which 2 pass the filter, pages of 2, 3 changes of view, 1 fault | 954,502 | `TypeOK`, `NoGap`, `ShownMatches` |
| `dashboard` | 1 device, 1 hire, 1 week, 2 audit entries, a feed of 1, 2 changes, 1 fault | 345,040 | `TypeOK`, `CountsAddUp`, `DashboardConverges` |
| `audit_failure` | 1 hire, 2 jobs | - | violates `AuditFailureHarmless` |
| `live_updates` | 1 hire, 2 jobs, the line ends the server uses | - | violates `LiveUpdates` |

**Why the bounds suffice.** A hazard here needs two actors and one fault, and each instance has them.

* Onboarding: two hires of one address and two jobs give every pair of overlapping actors: task against task of the same
  row, task against sweep, callback against rollback, the first hire's late task against the second hire's entry. Two jobs also give the
  retry after each failure. Two requests may be two rollbacks of one hire, or a rollback beside an offboarding, each at any await of the other.
  The size limits what one instance can hold: `onboarding_overlap` has neither duplicate callbacks nor late webhook answers, `onboarding_live` has the
  late answers and the restart, but one hire and one request: it checks `PasswordInv`, from which the properties of the accounts and the passwords follow. All of them together are covered by the proofs, which hold for every value of `MaxCopies`, `LateAck` and `Requests`.
* Board: two jobs of one hire give a retry whose stream and status arrive among those of the first; two events are the
  fewest that can be read, stolen or lost one without the other; a fault is a request that fails or a restart.
* Scanning: two scans over `{1,2}` and `{2}` overlap in a proper subset and could lock in the same or in opposite orders; three
  hosts, two at a time, give all orders of finishing including a host that starts late.
* Reports: two reports let one run for nobody while the dialog follows the other, and one answer arrive in another visit to the page.
* Session: two data requests and two bootstrap runs give a request that joins a refresh, one that starts a second, and one that finishes alone.
* Assets: two nameless devices are the fewest whose order on the page can change; sizes 1 and 2 put them on two pages or on one; two
  presses overlap. Two events are, for instance, a deletion elsewhere and a failing answer.
* Audit: four entries, pages of two: an entry that arrives between two pages shifts one from the first to the second. Three changes of view
  go forward, back and forward, or filter in between.
* Dashboard: one row of each kind suffices for sums that disagree; two changes can bracket a statement.

`MaxCopies`, `MaxCrashes`, `MaxEdits`, `MaxReloads`, `MaxEvents`, `MaxFaults`, `MaxChanges`, `Views` and `Faults` bound what would otherwise be unbounded;
the proofs hold for every value of them. `CHECK_DEADLOCK FALSE` is set where the system may stop: jobs and reports are
finite sets, and when all are used up nothing has to happen. A deadlock of row locks is an invariant of its own, `NoLockCycle`.

**Flags.** `SlowTasks = FALSE` says that a task finishes within the five minutes after which the sweeper takes its row for silent;
`onboarding_overlap` lets tasks outlast them, `onboarding_live` does not. The safety properties are proved with and without it. `LateAck` lets a webhook
start its execution and time out. `Separators` holds the ways in which the server may end its lines: with `{"LF"}` the stream of
the onboarding page works as meant, with `{"CRLF"}` as it does today; the properties of `onboarding_board` hold for both.

**Symmetry** over hires, jobs and requests, and over presses, is used only in runs without liveness.

### Fairness

* Onboarding: weak fairness of each pipeline task, of each pending commit, of each callback received, of each request handler, and of the
  sweeper: asyncio runs every ready task, database and directory calls have timeouts, and APScheduler ticks every
  minute. Nothing is assumed of administrators, nor of n8n, which may die or never call back.
* OnboardingBoard: the poll fires while the page is in the foreground, a request is answered or times out, a stream that is being read
  delivers what its queue holds, and the commit follows its event. Nothing is assumed of what moves a job on.
* Scanning: weak fairness of each scan task (nmap returns, transactions end), of the answer to the POST, of the delivery of
  queued events, and of the end, with or without an error, of a stream whose job is gone. None of starting scans, edits or restarts.
* Reports: weak fairness of each task and of an answered poll: the query polls for as long as its interval says so, and
  the server answers now and then. None of closing, focusing, leaving or downloading.
* AuthSession: weak fairness of the answer to each request and to the shared refresh; a call that gets no answer fails after axios' timeout of
  ten seconds or when the connection breaks, which is an answer of the kind `Lost` or `RefreshFails`.
* Dashboard: the poll fires, the statements of a snapshot run, and a request is answered. The retry button is not
  counted on: `DashboardConverges` has `<>[][~Retry]_vars` among its premises.

## 4. What is proved

All theorems are about the specification of their module, for every value of the constants that satisfies the named assumptions
(sentinels are no members of the sets, bounds are naturals, the provider is one of three, addresses and scans are finite sets).

* `OnboardingProofs`: `Invariance` (`Spec => []IInv`), and from it `TypeCorrect`, `Notified`, `Confirmed` and `Audited`, the last
  of them also for any number of rollback and offboard requests that work for one hire at once.
  `NotifiedHasAccount` is not inductive: a callback that is about to be committed must already stand for a saved
  `external_id`. `IInv` therefore adds four parts. `TasksHaveHires`: a live task works for a requested hire, and
  no execution begins before its dispatch. `JobsStayWithHires`: the job a row carries, and the job of each status write in flight, was created for
  that row's hire. `ReportersSawAccount`: whoever is about to report progress beyond the account works on a row whose
  `external_id` is saved. `CallbacksFromN8n`: a callback comes from an execution that has begun, COMPLETED from one that is done. The proof has one
  lemma for each action; those of the pipelines reduce an action to how it moves one task and updates one row.
  `Implements`: every step of `Onboarding` is a step of `OnboardingLedger` under the mapping or none. On top of `IInv` it
  needs two facts (`LedgerInvariance`): a rollback or offboard handler works for a hire that was requested (`RequestsOfHires`), and only LDAP
  gives out an `external_id` (`OnlyLdapHasIds`). The proof then shows for each action which abstract step it is; those that leave rows, executions and audit entries alone stutter.
  `PasswordInvariance`, and from it `OwnPassword` and `MailedPassword`: an entry sits at the uid of its hire's address and its password was chosen by a job
  that was handed out (`EntriesByUid`); whoever is beyond the creation of the account has it, unless it was deleted (`AccountsLast`); while one task at most
  works for a hire, it is that of the job on the row (`WorkerOnRow`); and from `set_password` on the password of that job is in force (`ChoiceInForce`).
* `ReportsProofs`: `SentAndAudited` and `DownloadsNotFailed` from `ReportInv`. Its added parts: a job that was served is gone and its task
  past the branch that records a failure (`ServedIsOver`); a report that is ready is not recorded as failed (`ReadyNotFailed`);
  the history row is the last thing a task writes (`RecordedLast`); a job never triggered has no task (`TasksHaveJobs`).
  Of the page: `PageImplements` (the page takes only steps of `Reports`), so that what is proved there holds here, and from `PageInv` also
  `PageTypeCorrect`, `RecordedIsListed` and `FailedWithoutPdf`. What was recorded when a trigger was answered is in every answer asked
  for afterwards (`AnswersKnow`), and in the cache once such an answer has arrived (`CacheKnows`); an open page does not sit before an
  invalidated history without asking anew (`AsksAnew`).
* `AuthSessionProofs`: `SessionTypeCorrect`, `GateComplete` and `SignOutFinal` from `SessionInv`. Its added parts: the kept bootstrap run is under way only behind a
  closed gate (`KeptBehindGate`), and whoever has signed out finds the gate open (`LeftBeforeGate`), so no bootstrap can answer after a sign-out.
* `AssetsPageProofs`: `BulkToast` and `DeletesWhatWasChosen` from an invariant of three parts. A tick is a choice because rows are named by device ids, not by
  places on the page (`ChoiceInv`); a press that is free is empty (`PressShape`); what a press was told is deleted is deleted and stays so (`ToldGone`).
  `PageTypes` and `DeletedIsGone` from `LeaveInv`: an answer to a request sent, or replaced, after a deletion was answered does not name the device (`FreshAnswer`); an entry that
  still names it is marked, or late (`MarkedEntry`); and a marked entry on the screen is being fetched or its fetch has failed (`Watched`).
* `AuditTrailProofs`: `TrailTypes`, `PagesHaveNoGap` and `RowsMatch` from `TrailInv`: every answer, stored or on its way, is the page of its key of the log as it was when it was
  served, and the offset is a multiple of the page size. `PagesHaveNoGap` is then a fact about two pages of two logs, the later of which contains the earlier. The place of an entry
  is the number of those that are newer (`Newer`), which only rises: an entry beyond the first page of the earlier log is beyond that page in the later log
  too, so that the second page begins with it or before it.
* `DashboardProofs`: `DashboardTypes` and `CardsAddUp` from `DashboardInv`: what a snapshot has read so far counts no more devices up and down than devices, because one statement counts
  both, and its volume is that of one assignment of states to hires. The rest is counting: the sum over the weeks of disjoint sets of hires has at most as many members
  as there are hires, by induction along strict inclusion of finite sets, which the library gives.
* `OnboardingBoardProofs`: `BoardTypes`, `ShownHappened` and `CreatesKept` from `BoardInv`. A status can only be shown if everything that may become the list
  holds statuses that were: rows, job store, queues, first frames (`ServerInv`, `JobsInv`), answers and snapshots (`RowsInv`). For creates, `KnownInv`
  says that a list request on its way knows every optimistic record that is shown or that a failed create may put back; a create keeps it by giving up the
  request that does not. The two parts need no assumption about the order in which a job reports.
* `ScanningProofs`: `ScanTypes`, `InsertedAnswered`, `CompleteSaved` and `NoDeadlock` from `ScanInv`. The counts of a scan are the cardinalities of
  the hosts that have finished and were found (`Counted`), which bounds them; a queued "complete" comes from a committed scan
  and carries its number of hosts (`QueueTrue`); what a scan has inserted or saved is settled (`InsertedSettled`, `SavedSettled`). For locks, `Locks` says that the addresses
  a scan holds lie before all that remain. `NoDeadlock` follows: in a set of scans that all wait for each other take a scan that waits at the
  greatest address; whoever holds that row waits at a greater one. The library gives the existence of such a scan from the
  well-foundedness of strict inclusion on finite sets. `CounterForward` needs `ProgressInv` on top: the counts in a queue do not fall and are at most the job's own
  (`Rising`), and a hook that watches a scan, or is about to, shows no more than what is still queued (`Follows`). Each step keeps the order of every queue for
  whoever follows it (`Keeps`), and reading the head of a queue that rises only raises the counter.

Every safety property and action property that a passing run checks is proved, and so are both refinements. Only model-checked are the liveness
properties, which rest on fairness and ENABLED, out of the prover's reach: `EventuallySettles`, `ListConverges`, `WatcherTold`, `CompletionShown`,
`RequestsSettle` and `DashboardConverges`. Two definitions have a form the prover can open, because it cannot look into `SetToSortSeq` and `SelectSeq` of the libraries:
`NewestFirst` of `AuditTrail` puts each entry behind as many as are newer, and `OfHealth` of `AssetsPage` is a recursive function.

## 5. What the models say about the code

Two statements of the repository that the code does not keep, each with a run that shows a behaviour:

1. `AuditFailureHarmless`: a failing audit write rolls back the deletion it documents, and the client is told 204
   (`audit_middleware.py:74` against its own docstring at line 39).
2. `LiveUpdates`: the onboarding page looks for the end of a frame at two line feeds, the server ends its lines with CRLF. An event that was
   read changes nothing, and the list follows its poll only (`useOnboarding.ts:245` against the comment at line 23).

Attempts to prove the two password properties showed that no assumption about slow tasks makes them hold unconditionally, which an instance with three jobs confirms:

* A retry looks at the status of the row and not at a rollback that has read it before: the rollback deletes the entry under the new task, another hire gets the address, and
  the task sets its password there (`routers/onboard.py:233`, `ldap_provider.py:124`).
* A `FAILED` callback that commits late lets an administrator retry while the first task is at work: two tasks then each set a password, and the mail may carry the one that
  was set first.

`PasswordOfOwner` and `MailedPasswordWorks` therefore name these overlaps, through the history variables of `OnboardingPasswords`, and are proved of all other behaviours.

Also seen while modelling, without a run of its own:

* A stream of scan progress whose body ends without "complete" or "error" leaves the dialog scanning for good: `openEventStream` then only calls `onClose`
  (`sse.ts:73` and 89), which `useScanStream.ts:100` does not pass, and `startScan` refuses a second scan (line 84) until the page is left. A proxy or a restart
  can cut a body so: `nginx.conf:41` switches chunked encoding off, and without it nothing tells a body cut short from one that is complete. `WatcherTold` is therefore
  stated of streams that report their end, with `StreamEnds` as the exception; no comment of the repository promises more.
* `ldap_provider.py:121` adds the entry before its group. When the group fails `create_user` raises, `external_id` stays NULL, and the retry
  collides with its own entry, which the docstring of `onboarding_pipeline.py` says must not happen.
* A duplicate `JIRA_CREATING` callback that arrives late takes a COMPLETED row back (`onboarding_record_service.py:84`), against the
  comment at `models/onboarded_user.py:75`. This is why `Write` and `Announce` of the ledger have no stage they come from.
* Rollback reads the status without a lock and deletes after a directory call, so a hire completed meanwhile is deleted
  (`routers/onboard.py:243` against line 233).
* A failed report job gets the status `"FAILED"`, which the response schema rejects, so the dialog polls for ever (`report_service.py:142` against `useReports.ts:23`).
* Any failure of a refresh or of the bootstrap request signs the user out, although the comment at `lib/api.ts:73` gives an expired cookie as the reason.
* The weekly report reads a setting that `settings.py` does not define (`scheduler.py:46`).
* The assets page filters by health, and the audit page guesses from a full page, after paging: an empty page may say that nothing matches
  although entries on other pages do (`AuditLogTable.tsx:185`, `AuditLogs.tsx:72`).
* Deleting one device from its row announces success before the answer (`AssetRowActions.tsx:34`); the bulk deletion waits (`BulkToastTrue`).
* The report history counts as finished only what has the status label the page knows; the backend writes `"sent"`, which it does not (`Reports.tsx:155`).
* PARTIALLY_COMPLETE hires appear in none of the dashboard's weekly columns (`dashboard.py:57`); a strained device that is offline is counted twice
  (`scanner.py:436`); the feed says "Onboarding completed for" of every create (`AuditActivityFeed.tsx:149`).
* COMPLETED cards offer no actions, so the page never offers the offboarding that the endpoint allows; the list is limited to 100 rows; a history query that is
  paused offline looks like an empty history.

## 6. Hazards without a property

`PROJECT.json` lists the hazards worth a property, and says of the few that have none why. These were met too:

* A pipeline that overlaps a rollback inserts the row anew (`onboarding_record_service.py:45`); the ledger admits it as `Reappear`.
* A crash between upsert and `set_password`, followed by a resume that does not rotate, leaves an account without password (`onboarding_pipeline.py:211`).
* Two LDAP threads may both find the department group missing (`ldap_provider.py:113`): one reason for `CreateLdap` to fail.
* The scan that commits last wins, also when it measured first (`scanner.py:322`); scan jobs and the queues of scheduled scans are never removed (`scanner.py:83`); the
  default thread pool is often smaller than the semaphore of fifty (`scanner.py:226`).
* Two administrators edit one device, and the row is gone at the commit of the second (`device_service.py:158`).
* The stream of a job that finished before it was opened waits for ever (`onboard.py:111`); the poll covers for it (`ListConverges`).
* A download removes its job before the answer arrives (`reports.py`): a lost answer loses the PDF.
* Sessions of two users in one tab: a refresh begun for the one and answered for the other pairs the token with the wrong name (`api.ts:67`).

## 7. Not modelled, and why

* Rendering: tables, charts, cards and routes over the queries the modules have; the generic components under `components/ui`. `types/api.ts` is generated. The files
  `lib/mock-data.ts`, `lib/mockApi.ts`, `lib/mockReports.ts`, `hooks/useScanSimulation.ts`, `ReportCard.tsx`, `ReportPreviewModal.tsx` and `SearchInput.tsx` are used by no route.
* Pure functions: password policy, subnet validation, formatting. They run to completion and unit tests reach them.
* The Entra ID provider beyond the fact that it cannot be instantiated; the offboarding webhook, which changes nothing in this process.
* Passwords, tokens and mails are identities (which job, valid or not); hashing, signing and formatting are left out.
* Rate limits appear as requests that fail. The audit entries of the authentication and device endpoints are not modelled.
* The weekly report, which fails before it does anything.
* Migrations, seed data, Docker, nginx, CI: they contribute the restart policy (`Crash`) and the isolation level.
* In `AuthSession` there is one user; in `AuditTrail` the five filters are one, and no two entries have the same timestamp: `audit_log_service.py:50` orders by
  timestamp alone, so entries of one microsecond may change places between two pages, which `NoGap` does not speak of.
* A few things the pages show: the skeleton of a page of entries that never was loaded (`Open` of `AuditTrail`), the selection that a late deletion clears on a page opened
  again (`DeleteAnswered` of `AssetsPage`), the dashboard's list of critical alerts and the weeks that move on (`Dashboard`).

## 8. What would come next

1. `AuthSession` with identities, and the authentication audit entries.
2. `Devices`: the endpoints with their audit entries, edits of one device by two administrators, the order of audit entry and deletion.
3. `LdapGroups`, the race of two threads that create the same group, and with it a retry that meets its own entry.
4. The safety half of `WatcherTold` (a scan that is over has told whoever watches it, or has the event queued, unless the stream has ended), and of `EventuallySettles` (a row in progress has a task, an execution or
   the sweeper that will move it), as invariants of their own with proofs.
