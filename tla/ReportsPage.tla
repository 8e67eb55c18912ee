----------------------------- MODULE ReportsPage -----------------------------
(***************************************************************************)
(* The reports page around the dialog of module Reports: the history       *)
(* query, what invalidates it, and the badges of its rows.  The page is    *)
(* left and entered again while trigger requests and history requests are  *)
(* on their way.                                                           *)
(*                                                                         *)
(* A row of the history is final once it is committed, so that a cached    *)
(* history is a set of jobs.  All of them fit into the fifty rows of an    *)
(* answer.  A request stands for its attempt and up to three retries.      *)
(***************************************************************************)
EXTENDS Reports

VARIABLES
  opened,   \* the page is mounted
  posts,    \* trigger requests on their way, also those of a page that was left
  cache,    \* the entry ["reports", "history"]
  fetch,    \* its request
  owed      \* what was recorded when a trigger request was last answered

page == <<opened, posts, cache, fetch, owed>>
pageVars == <<vars, page>>

-----------------------------------------------------------------------------
\* inv: isInvalidated. late: asked for before an invalidation that did not
\* replace its request.
Entry == [loaded : BOOLEAN, rows : SUBSET Jobs, inv : BOOLEAN, failed : BOOLEAN, late : BOOLEAN]
NoEntry == [loaded |-> FALSE, rows |-> {}, inv |-> FALSE, failed |-> FALSE, late |-> FALSE]
Fetch == [on : {"no", "sent", "answered"}, rows : SUBSET Jobs, late : BOOLEAN]
NoFetch == [on |-> "no", rows |-> {}, late |-> FALSE]
SentFetch == [NoFetch EXCEPT !.on = "sent"]

\* The types; and the dialog is part of the page.
PageTypeOK ==
  /\ TypeOK
  /\ opened \in BOOLEAN
  /\ modal # EmptyModal => opened
  /\ posts \subseteq Jobs /\ owed \subseteq Jobs
  /\ cache \in Entry
  /\ fetch \in Fetch

PageInit ==
  /\ Init
  /\ opened = FALSE /\ posts = {} /\ owed = {}
  /\ cache = NoEntry /\ fetch = NoFetch

-----------------------------------------------------------------------------
(***************************************************************************)
(* GET /reports/history and useReportHistory.                              *)
(***************************************************************************)
Recorded == {j \in Jobs : hist[j] # "none"}

Served ==
  /\ fetch.on = "sent"
  /\ fetch' = [fetch EXCEPT !.on = "answered", !.rows = Recorded]
  /\ UNCHANGED <<vars, opened, posts, cache, owed>>
Stored ==
  /\ fetch.on = "answered"
  /\ cache' = [loaded |-> TRUE, rows |-> fetch.rows, inv |-> FALSE, failed |-> FALSE,
               late |-> fetch.late]
  /\ fetch' = NoFetch
  /\ UNCHANGED <<vars, opened, posts, owed>>
FetchFails ==
  /\ fetch.on # "no"
  /\ cache' = [cache EXCEPT !.failed = TRUE]
  /\ fetch' = NoFetch
  /\ UNCHANGED <<vars, opened, posts, owed>>

\* A variant of onSuccess without the invalidation.
NotInvalidated == UNCHANGED <<cache, fetch>>
\* invalidateQueries: the entry is marked and, while the page is there, fetched
\* anew; a request on its way is replaced if the page is there and has data.
Invalidated ==
  /\ cache' = [cache EXCEPT !.inv = cache.loaded]
  /\ fetch' = IF opened /\ (cache.loaded \/ fetch.on = "no") THEN SentFetch
              ELSE [fetch EXCEPT !.late = fetch.on # "no"]

-----------------------------------------------------------------------------
(***************************************************************************)
(* The page.                                                               *)
(***************************************************************************)
\* Data stays fresh for five minutes; when they are over is left open.
Open ==
  /\ ~ opened /\ opened' = TRUE
  /\ \/ fetch' = IF fetch.on = "no" THEN SentFetch ELSE fetch
     \/ cache.loaded /\ ~ cache.inv /\ UNCHANGED fetch
  /\ UNCHANGED <<vars, posts, cache, owed>>
\* A variant whose dialog stays behind and polls on.
LeavePageOnly ==
  /\ opened /\ opened' = FALSE
  /\ UNCHANGED <<vars, posts, cache, fetch, owed>>
\* The dialog goes with the page, whatever it shows.
LeavePage ==
  /\ opened /\ opened' = FALSE
  /\ Leave \/ (modal = EmptyModal /\ UNCHANGED vars)
  /\ UNCHANGED <<posts, cache, fetch, owed>>
\* gcTime.
Forget ==
  /\ ~ opened /\ fetch.on = "no" /\ cache.loaded
  /\ cache' = NoEntry
  /\ UNCHANGED <<vars, opened, posts, fetch, owed>>

\* The skeleton, the error with its button, and the table.
ErrorShown == opened /\ cache.failed /\ (cache.loaded \/ fetch.on = "no")
Refetch ==
  /\ ErrorShown
  /\ fetch' = SentFetch
  /\ UNCHANGED <<vars, opened, posts, cache, owed>>

Rows == IF opened /\ cache.loaded /\ ~ cache.failed THEN cache.rows ELSE {}
\* StatusBadge knows "failed"; "sent" gets the badge of unknown words.
Badge(j) == IF hist[j] = "FAILED" THEN "Fehlgeschlagen" ELSE "sent"

-----------------------------------------------------------------------------
(***************************************************************************)
(* useTriggerReport.                                                       *)
(***************************************************************************)
Request(j) ==
  /\ opened /\ Trigger(j)
  /\ posts' = posts \cup {j}
  /\ UNCHANGED <<opened, cache, fetch, owed>>

\* A variant whose dialog takes the answer to the request of a page that was left.
WatchedBy(j) == modal' = Watch(j)
\* The callback of mutate serves the dialog that asked.
Watched(j) == modal' = IF modal.posted = j THEN Watch(j) ELSE modal

\* The callback of the hook runs whether or not the page is still there.
RequestAnswered(j) ==
  /\ j \in posts /\ posts' = posts \ {j}
  /\ Invalidated
  /\ owed' = Recorded
  /\ Watched(j)
  /\ UNCHANGED <<opened, job, task, hist, audit, served, crashes>>
RequestLost(j) ==
  /\ j \in posts /\ posts' = posts \ {j}
  /\ modal' = IF modal.posted = j THEN [modal EXCEPT !.posted = NoJob] ELSE modal
  /\ UNCHANGED <<opened, cache, fetch, owed, job, task, hist, audit, served, crashes>>

-----------------------------------------------------------------------------
Beside ==
  \/ \E j \in Jobs : Generate(j)
  \/ Close \/ StatusAnswer \/ StatusLost \/ Focus \/ Download \/ Downloaded
  \/ Crash
PageNext ==
  \/ Beside /\ UNCHANGED page
  \/ Served \/ Stored \/ FetchFails
  \/ Open \/ LeavePage \/ Forget \/ Refetch
  \/ \E j \in Jobs : Request(j) \/ RequestAnswered(j) \/ RequestLost(j)

PageSpec == PageInit /\ [][PageNext]_pageVars
PageFairness ==
  /\ \A j \in Jobs : WF_pageVars(Generate(j) /\ UNCHANGED page)
  /\ WF_pageVars(StatusAnswer /\ UNCHANGED page)
PageFairSpec == PageSpec /\ PageFairness

-----------------------------------------------------------------------------
(***************************************************************************)
(* Properties.                                                             *)
(***************************************************************************)

\* The page keeps to module Reports: whatever is left, entered again or
\* answered late, the jobs, the records and the dialog move as that module says.
KeepsReports == Spec

\* A report that was recorded when a trigger was answered is in the history
\* from then on, on a page that was left and entered again too: unless its
\* request is on its way or failed, or no invalidation replaced it.
RecordedListed ==
  opened /\ cache.loaded /\ fetch.on = "no" /\ ~ cache.failed /\ ~ cache.late => owed \subseteq Rows

\* A row with the badge "failed" belongs to a report nobody has or can download.
FailedHasNoPdf ==
  \A j \in Rows : Badge(j) = "Fehlgeschlagen" => ~ Servable(j) /\ j \notin served
=============================================================================
