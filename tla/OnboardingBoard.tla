-------------------------- MODULE OnboardingBoard --------------------------
(***************************************************************************)
(* The onboarding page of one administrator: the cached list with its      *)
(* poll and optimistic create, the watched jobs and their event streams,   *)
(* the columns and the actions a card offers.  The server is the part the  *)
(* page talks to: committed rows, the in-memory job store with one queue   *)
(* per job, and the list, create, retry, rollback and offboard endpoints.  *)
(*                                                                         *)
(* What moves a job on (module Onboarding) may report any status here.     *)
(* RUNNING stands for AD_CREATING, EMAIL_SENDING and JIRA_CREATING, and    *)
(* STOPPED for FAILED and PARTIALLY_COMPLETE: the page tells them apart by  *)
(* their label, their column and the option to rotate the password.  A     *)
(* list request stands for its attempt and up to three retries.            *)
(***************************************************************************)
EXTENDS Naturals, Sequences, FiniteSets

CONSTANTS
  Hires,       \* people, each named by at most one create request
  Jobs,        \* onboarding job ids, numbered in the order they are made
  NoJob,
  Separators,  \* what may end a line of the event stream
  MaxEvents,   \* bound on status reports
  MaxFaults    \* bound on lost answers, broken conn and restarts

ASSUME JobAssumption == Jobs \subseteq Nat /\ NoJob \notin Jobs
ASSUME SeparatorAssumption == Separators \subseteq {"LF", "CRLF"} /\ Separators # {}
ASSUME BoundAssumption == MaxEvents \in Nat /\ MaxFaults \in Nat

VARIABLES
  row,      \* row[u]: the committed row of hire u
  store,    \* store[j]: the status of job j in job_store
  queue,    \* queue[j]: the statuses queued for job j
  had,      \* had[j]: the statuses job j was ever reported or stored with
  sep,      \* the line separator the server uses
  list,     \* the cache entry ["onboard", "list"]
  fetch,    \* the list request on its way
  watched,  \* the cache entry ["onboard", "watchedJobIds"]
  open,     \* the page is mounted
  mine,     \* the hire whose create request the open form waits for
  conn,     \* conn[j]: the stream of subscriber j
  post,     \* post[u]: the create request of hire u
  asked,    \* requests of cards whose answer is on its way
  events, faults

server == <<row, store, queue, had, events>>
requests == <<mine, post, asked>>
vars == <<server, sep, list, fetch, watched, open, requests, conn, faults>>

-----------------------------------------------------------------------------
Status == {"PENDING", "RUNNING", "STOPPED", "COMPLETED"}
Terminal == {"STOPPED", "COMPLETED"}

\* One entry of the list. The optimistic record of a create has a job id of
\* its own that no server knows: NoJob.
Record == [user : Hires, job : Jobs \cup {NoJob}, st : Status, off : BOOLEAN]
Temp(u) == [user |-> u, job |-> NoJob, st |-> "PENDING", off |-> FALSE]

Row == [job : Jobs \cup {NoJob}, st : Status, off : BOOLEAN]
NoRow == [job |-> NoJob, st |-> "PENDING", off |-> FALSE]
Exists(u) == row[u].job # NoJob
\* GET /onboard, for at most the hundred rows of one answer.
Listed == {[user |-> u, job |-> row[u].job, st |-> row[u].st, off |-> row[u].off] :
             u \in {v \in Hires : Exists(v)}}

\* failed: isError.
Cache == [rows : SUBSET Record, loaded : BOOLEAN, failed : BOOLEAN]
\* knows: the creates that had begun when the request was sent.
Fetch == [on : {"no", "sent", "answered"}, rows : SUBSET Record, knows : SUBSET Hires]
NoFetch == [on |-> "no", rows |-> {}, knows |-> {}]
Begun == {u \in Hires : post[u].on # "unused"}
SentFetch == [on |-> "sent", rows |-> {}, knows |-> Begun]

Post == [on : {"unused", "asking", "accepted", "refused", "over"},
         job : Jobs \cup {NoJob}, snap : SUBSET Record]
Unused == [on |-> "unused", job |-> NoJob, snap |-> {}]
Conn == [on : {"off", "first", "open", "closed"}, st : Status]
Off == [on |-> "off", st |-> "PENDING"]
Ask == [kind : {"retry", "rollback", "offboard"}, user : Hires,
        ok : BOOLEAN, job : Jobs \cup {NoJob}]

TypeOK ==
  /\ row \in [Hires -> Row]
  /\ store \in [Jobs -> Status \cup {"none", "gone"}]
  /\ queue \in [Jobs -> Seq(Status)]
  /\ had \in [Jobs -> SUBSET Status]
  /\ sep \in Separators
  /\ list \in Cache
  /\ fetch \in Fetch
  /\ watched \subseteq Jobs
  /\ open \in BOOLEAN
  /\ mine \subseteq Hires
  /\ conn \in [Jobs -> Conn]
  /\ post \in [Hires -> Post]
  /\ asked \subseteq Ask
  /\ events \in 0..MaxEvents
  /\ faults \in 0..MaxFaults

Init ==
  /\ row = [u \in Hires |-> NoRow]
  /\ store = [j \in Jobs |-> "none"]
  /\ queue = [j \in Jobs |-> <<>>]
  /\ had = [j \in Jobs |-> {}]
  /\ sep \in Separators
  /\ list = [rows |-> {}, loaded |-> FALSE, failed |-> FALSE]
  /\ fetch = NoFetch
  /\ watched = {}
  /\ open = FALSE
  /\ mine = {}
  /\ conn = [j \in Jobs |-> Off]
  /\ post = [u \in Hires |-> Unused]
  /\ asked = {}
  /\ events = 0
  /\ faults = 0

Fault == faults < MaxFaults /\ faults' = faults + 1

-----------------------------------------------------------------------------
(***************************************************************************)
(* The server.                                                             *)
(***************************************************************************)
\* create_job and the row that carries its id, committed together.
Start(u, j) ==
  /\ store[j] = "none" /\ \A i \in Jobs : i < j => store[i] # "none"
  /\ store' = [store EXCEPT ![j] = "PENDING"]
  /\ had' = [had EXCEPT ![j] = {"PENDING"}]
  /\ row' = [row EXCEPT ![u] = [job |-> j, st |-> "PENDING", off |-> FALSE]]
  /\ UNCHANGED <<queue, events>>

\* update_job_status: the event is queued before the row is committed.
Publish(j, s) ==
  /\ store[j] \notin {"none", "gone", s}
  /\ events < MaxEvents /\ events' = events + 1
  /\ store' = [store EXCEPT ![j] = s]
  /\ queue' = [queue EXCEPT ![j] = Append(@, s)]
  /\ had' = [had EXCEPT ![j] = @ \cup {s}]
  /\ UNCHANGED <<row, sep, list, fetch, watched, open, requests, conn, faults>>

Persist(u) ==
  LET j == row[u].job
  IN /\ Exists(u) /\ store[j] \notin {"gone", row[u].st}
     /\ row' = [row EXCEPT ![u].st = store[j]]
     /\ UNCHANGED <<store, queue, had, events, sep, list, fetch, watched, open,
                    requests, conn, faults>>

\* The sweeper or a late callback settles a row whose job a restart forgot.
Settle(u, s) ==
  /\ Exists(u) /\ store[row[u].job] = "gone" /\ row[u].st \notin Terminal
  /\ row' = [row EXCEPT ![u].st = s]
  /\ had' = [had EXCEPT ![row[u].job] = @ \cup {s}]
  /\ UNCHANGED <<store, queue, events, sep, list, fetch, watched, open,
                 requests, conn, faults>>

Restart ==
  /\ Fault
  /\ store' = [j \in Jobs |-> IF store[j] = "none" THEN "none" ELSE "gone"]
  /\ queue' = [j \in Jobs |-> <<>>]
  /\ conn' = [j \in Jobs |-> IF conn[j].on \in {"first", "open"}
                             THEN [conn[j] EXCEPT !.on = "closed"] ELSE conn[j]]
  /\ UNCHANGED <<row, had, events, sep, list, fetch, watched, open, requests>>

\* retry_onboarding looks for the job id it was given; the two others for the
\* hire. Each refuses a row in another status.
Retry(u, j) == Exists(u) /\ row[u].st = "STOPPED" /\ Start(u, j)
\* A variant of rollback that marks the row instead of deleting it.
RollbackMarked(u) ==
  /\ Exists(u) /\ row[u].st = "STOPPED"
  /\ row' = [row EXCEPT ![u].st = "ROLLED_BACK"]
  /\ UNCHANGED <<store, queue, had, events>>
Rollback(u) ==
  /\ Exists(u) /\ row[u].st = "STOPPED"
  /\ row' = [row EXCEPT ![u] = NoRow]
  /\ UNCHANGED <<store, queue, had, events>>
Offboard(u) ==
  /\ Exists(u) /\ row[u].st = "COMPLETED"
  /\ row' = [row EXCEPT ![u].off = TRUE]
  /\ UNCHANGED <<store, queue, had, events>>

\* What other administrators do.
Elsewhere(u) ==
  /\ \/ Rollback(u)
     \/ ~ row[u].off /\ Offboard(u)
     \/ \E j \in Jobs : Retry(u, j)
     \/ \E j \in Jobs : post[u].on = "unused" /\ ~ Exists(u) /\ Start(u, j)
  /\ post' = [post EXCEPT ![u].on = IF @ = "unused" THEN "over" ELSE @]
  /\ UNCHANGED <<sep, list, fetch, watched, open, mine, asked, conn, faults>>

-----------------------------------------------------------------------------
(***************************************************************************)
(* The page, its list query and what depends on it.                        *)
(***************************************************************************)
\* The page proper is rendered: neither the skeleton nor the error.
Rendered(l) == l.loaded /\ ~ l.failed
Shown == open /\ Rendered(list)

\* Subscribers are mounted for the watched jobs of a rendered page: the others'
\* connections are aborted when the page goes.
Unsubscribed == conn' = [j \in Jobs |-> Off]

\* The open dialog goes with the page.
FormGone == mine' = {}

Open ==
  /\ ~ open /\ open' = TRUE
  /\ fetch' = IF fetch.on = "no" THEN SentFetch ELSE fetch
  /\ UNCHANGED <<server, sep, list, watched, requests, conn, faults>>
\* A list that still counts as fresh is not fetched; when that ends is left open.
OpenFresh ==
  /\ ~ open /\ open' = TRUE
  /\ list.loaded /\ ~ list.failed
  /\ UNCHANGED <<server, sep, list, fetch, watched, requests, conn, faults>>
Leave ==
  /\ open /\ open' = FALSE
  /\ Unsubscribed
  /\ FormGone
  /\ UNCHANGED <<server, sep, list, fetch, watched, post, asked, faults>>

\* A variant without refetchInterval.
NoPoll == FALSE /\ UNCHANGED vars
\* refetchInterval, also while the page shows the error.
Poll ==
  /\ open /\ fetch.on = "no"
  /\ fetch' = SentFetch
  /\ UNCHANGED <<server, sep, list, watched, open, requests, conn, faults>>

FetchServed ==
  /\ fetch.on = "sent"
  /\ fetch' = [fetch EXCEPT !.on = "answered", !.rows = Listed]
  /\ UNCHANGED <<server, sep, list, watched, open, requests, conn, faults>>
FetchStored ==
  /\ fetch.on = "answered"
  /\ list' = [rows |-> fetch.rows, loaded |-> TRUE, failed |-> FALSE]
  /\ fetch' = NoFetch
  /\ UNCHANGED <<server, sep, watched, open, requests, conn, faults>>
FetchFails ==
  /\ fetch.on # "no" /\ Fault
  /\ list' = [list EXCEPT !.failed = TRUE]
  /\ fetch' = NoFetch
  /\ Unsubscribed
  /\ FormGone
  /\ UNCHANGED <<server, sep, watched, open, post, asked>>

\* invalidateQueries: a mounted list is fetched anew, and a request that is on
\* its way already is given up.
Invalidated(rows) ==
  /\ list' = [list EXCEPT !.rows = rows]
  /\ fetch' = IF open THEN SentFetch ELSE fetch
\* setQueryData makes the entry a good one again.
SetRows(rows) == list' = [rows |-> rows, loaded |-> TRUE, failed |-> FALSE]

-----------------------------------------------------------------------------
(***************************************************************************)
(* useCreateOnboarding behind the form.                                    *)
(***************************************************************************)
\* A variant of onMutate that leaves the running list request alone.
CancelNothing == fetch' = fetch
CancelQueries == fetch' = NoFetch

\* The form of the dialog, its button disabled while its request is on its way.
CanSubmit == Shown /\ mine = {}

Create(u) ==
  /\ CanSubmit /\ post[u].on = "unused"
  /\ CancelQueries
  /\ SetRows(list.rows \cup {Temp(u)})
  /\ post' = [post EXCEPT ![u] = [on |-> "asking", job |-> NoJob, snap |-> list.rows]]
  /\ mine' = {u}
  /\ UNCHANGED <<server, sep, watched, open, asked, conn, faults>>

CreateServed(u) ==
  /\ post[u].on = "asking"
  /\ \/ \E j \in Jobs : /\ Start(u, j)
                        /\ post' = [post EXCEPT ![u] = [post[u] EXCEPT !.on = "accepted",
                                                                    !.job = j]]
     \/ /\ post' = [post EXCEPT ![u].on = "refused"]
        /\ UNCHANGED server
  /\ UNCHANGED <<sep, list, fetch, watched, open, mine, asked, conn, faults>>

Answered(u) ==
  /\ post' = [post EXCEPT ![u] = [Unused EXCEPT !.on = "over"]]
  /\ mine' = mine \ {u}
CreateSucceeds(u) ==
  /\ post[u].on = "accepted"
  /\ Answered(u)
  /\ watched' = watched \cup {post[u].job}
  /\ Invalidated(list.rows)
  /\ UNCHANGED <<server, sep, open, asked, conn, faults>>
\* Refused, or accepted and the answer lost: the snapshot is put back.
CreateFails(u) ==
  /\ \/ post[u].on = "refused" /\ UNCHANGED faults
     \/ post[u].on = "accepted" /\ Fault
  /\ Answered(u)
  /\ SetRows(post[u].snap)
  /\ UNCHANGED <<server, sep, fetch, watched, open, asked, conn>>

-----------------------------------------------------------------------------
(***************************************************************************)
(* Columns, cards and what they offer.                                     *)
(***************************************************************************)
\* The section of the page that draws a record.
Place(r) == IF r.off THEN "offboarded" ELSE IF r.st = "COMPLETED" THEN "completed"
            ELSE "pipeline"

\* The actions of FullCard, of CompactCard and of OffboardedCard.
FullActions(r) ==
  CASE r.st = "STOPPED" -> {"retry", "rollback"}
    [] r.st = "COMPLETED" -> {"offboard"}
    [] OTHER -> {}
CompactActions == {}
Offered(r) == IF Place(r) = "pipeline" THEN FullActions(r) ELSE CompactActions

\* The request of a card takes effect, or is refused: the card may show an
\* attempt that is over, or a hire that is gone.
Serve(r, k) ==
  LET u == r.user
      Reply(ok, j) == asked' = {[kind |-> k, user |-> u, ok |-> ok, job |-> j]}
  IN \/ \E j \in Jobs : k = "retry" /\ row[u].job = r.job /\ Retry(u, j) /\ Reply(TRUE, j)
     \/ k = "rollback" /\ Rollback(u) /\ Reply(TRUE, NoJob)
     \/ k = "offboard" /\ Offboard(u) /\ Reply(TRUE, NoJob)
     \/ UNCHANGED server /\ Reply(FALSE, NoJob)

\* isPending allows one request of a kind per card; here one in all at a time.
Click(r, k) ==
  /\ Shown /\ r \in list.rows /\ k \in Offered(r)
  /\ asked = {}
  /\ Serve(r, k)
  /\ UNCHANGED <<sep, list, fetch, watched, open, mine, post, conn, faults>>

ClickSucceeds(q) ==
  /\ q.ok
  /\ asked' = asked \ {q}
  /\ watched' = IF q.kind = "retry" THEN watched \cup {q.job} ELSE watched
  /\ Invalidated(list.rows)
  /\ UNCHANGED <<server, sep, open, mine, post, conn, faults>>
ClickFails(q) ==
  /\ \/ ~ q.ok /\ UNCHANGED faults
     \/ q.ok /\ Fault
  /\ asked' = asked \ {q}
  /\ UNCHANGED <<server, sep, list, fetch, watched, open, mine, post, conn>>

-----------------------------------------------------------------------------
(***************************************************************************)
(* useOnboardingJobStream and stream_onboarding_progress.                  *)
(***************************************************************************)
\* The hook looks for two line feeds in a row, which end no frame of a stream
\* whose lines end in carriage return and line feed.
FrameFound == sep = "LF"

\* A variant of applyEvent that forgets to compare job ids.
EveryRecord(r, j) == TRUE
OfJob(r, j) == r.job = j
Applied(j, s) == {IF OfJob(r, j) THEN [r EXCEPT !.st = s] ELSE r : r \in list.rows}

\* One event reached the hook: it is applied, and a terminal one ends the watch;
\* or it stays in the buffer for good.
Frame(j, s, next) ==
  \/ /\ FrameFound /\ s \notin Terminal
     /\ SetRows(Applied(j, s))
     /\ conn' = [conn EXCEPT ![j] = next]
     /\ UNCHANGED <<fetch, watched>>
  \/ /\ FrameFound /\ s \in Terminal
     /\ Invalidated(Applied(j, s))
     /\ watched' = watched \ {j}
     /\ conn' = [conn EXCEPT ![j] = Off]
  \/ /\ ~ FrameFound
     /\ conn' = [conn EXCEPT ![j] = next]
     /\ UNCHANGED <<list, fetch, watched>>

\* The effect of a mounted subscriber opens the stream; the generator starts
\* with the status of the moment.  A restarted server answers 404.
Subscribe(j) ==
  /\ Shown /\ j \in watched /\ conn[j].on = "off"
  /\ \/ /\ store[j] # "gone"
        /\ conn' = [conn EXCEPT ![j] = [on |-> "first", st |-> store[j]]]
        /\ UNCHANGED watched
     \/ /\ store[j] = "gone"
        /\ watched' = watched \ {j}
        /\ UNCHANGED conn
  /\ UNCHANGED <<server, sep, list, fetch, open, requests, faults>>
\* Nothing opens the stream again while the subscriber stays mounted.
StreamBreaks(j) ==
  /\ conn[j].on \in {"first", "open"} /\ Fault
  /\ conn' = [conn EXCEPT ![j] = [Off EXCEPT !.on = "closed"]]
  /\ UNCHANGED <<server, sep, list, fetch, watched, open, requests>>

ReadFirst(j) ==
  /\ conn[j].on = "first"
  /\ Frame(j, conn[j].st, [Off EXCEPT !.on = "open"])
  /\ UNCHANGED <<server, sep, open, requests, faults>>
\* A terminal event ends the generator, and with it the response.
ReadEvent(j) ==
  /\ conn[j].on = "open" /\ queue[j] # <<>>
  /\ queue' = [queue EXCEPT ![j] = Tail(@)]
  /\ LET s == Head(queue[j])
     IN Frame(j, s, [Off EXCEPT !.on = IF s \in Terminal THEN "closed" ELSE "open"])
  /\ UNCHANGED <<row, store, had, events, sep, open, requests, faults>>

\* The generator of an aborted stream takes an event before the server notices
\* that its reader is gone: the queue serves whoever asks.
Steal(j) ==
  /\ queue[j] # <<>> /\ Fault
  /\ queue' = [queue EXCEPT ![j] = Tail(@)]
  /\ UNCHANGED <<row, store, had, events, sep, list, fetch, watched, open, requests, conn>>

-----------------------------------------------------------------------------
Server ==
  \/ \E j \in Jobs, s \in Status \ {"PENDING"} : Publish(j, s)
  \/ \E u \in Hires : Persist(u) \/ Elsewhere(u) \/ \E s \in Terminal : Settle(u, s)
  \/ Restart
Page ==
  \/ Open \/ OpenFresh \/ Leave \/ Poll
  \/ \E u \in Hires : Create(u)
  \/ \E r \in list.rows, k \in {"retry", "rollback", "offboard"} : Click(r, k)
Network ==
  \/ FetchServed \/ FetchStored \/ FetchFails
  \/ \E u \in Hires : CreateServed(u) \/ CreateSucceeds(u) \/ CreateFails(u)
  \/ \E q \in asked : ClickSucceeds(q) \/ ClickFails(q)
Stream(j) == Subscribe(j) \/ ReadFirst(j) \/ ReadEvent(j)
Next ==
  \/ Server \/ Page \/ Network
  \/ \E j \in Jobs : Stream(j) \/ StreamBreaks(j) \/ Steal(j)

Spec == Init /\ [][Next]_vars

\* The tab is in the foreground, so the poll's timer fires; requests are
\* answered or time out; a read stream delivers; a commit follows its event.
Fairness ==
  /\ WF_vars(Poll) /\ WF_vars(FetchServed) /\ WF_vars(FetchStored)
  /\ \A u \in Hires : /\ WF_vars(Persist(u)) /\ WF_vars(CreateServed(u))
                      /\ WF_vars(CreateSucceeds(u) \/ CreateFails(u))
  /\ \A j \in Jobs : WF_vars(Stream(j))
FairSpec == Spec /\ Fairness

-----------------------------------------------------------------------------
(***************************************************************************)
(* Properties.                                                             *)
(***************************************************************************)

\* The list never shows a job with a status it did not have: not through an
\* event that arrives after a retry gave the row another job, nor through a
\* snapshot that is put back late.
ShownStatusHappened ==
  \A r \in list.rows : r.job # NoJob => r.st \in had[r.job]

\* The answer to a list request that was sent before a create never wipes out
\* the optimistic record of that create.
AnswerKeepsCreates ==
  \A u \in Hires :
    fetch.on = "answered" /\ fetch' = NoFetch /\ Temp(u) \in list.rows
    /\ Temp(u) \notin list'.rows => u \in fetch.knows
OptimismKept == [][AnswerKeepsCreates]_vars

\* An administrator who stays on the page ends up seeing the rows as they are:
\* whatever events were lost, stolen or replayed late, whatever requests failed
\* and whatever snapshot a failed create put back.
ListConverges == <>[]open => <>[](list.rows = Listed)

\* An event read from the stream of a watched job is shown in the list.
LiveUpdates ==
  [][\A j \in Jobs :
       conn[j].on = "open" /\ Len(queue'[j]) < Len(queue[j]) /\ faults' = faults
       => \A r \in list'.rows : r.job = j => r.st = Head(queue[j])]_vars
=============================================================================
