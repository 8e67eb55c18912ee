------------------------ MODULE OnboardingBoardProofs ------------------------
(***************************************************************************)
(* What the onboarding page shows, for any hires, jobs, events, faults and *)
(* line ends: no status that never was, and no create that an older answer *)
(* wipes out.                                                              *)
(***************************************************************************)
EXTENDS OnboardingBoard, SequenceTheorems, TLAPS

\* Records whose job had their status, when h says what the jobs had.
Happened(S, h) ==
  /\ S \in SUBSET Record
  /\ \A r \in S : r.job # NoJob => r.st \in h[r.job]

\* Rows, job store and queues hold only what their jobs had; a job that was not
\* made yet had nothing.
ServerInv ==
  /\ row \in [Hires -> Row]
  /\ store \in [Jobs -> Status \cup {"none", "gone"}]
  /\ had \in [Jobs -> SUBSET Status]
  /\ queue \in [Jobs -> Seq(Status)]
  /\ \A u \in Hires : Exists(u) => row[u].st \in had[row[u].job]
  /\ \A j \in Jobs : /\ store[j] \in Status => store[j] \in had[j]
                     /\ store[j] = "none" => had[j] = {}
                     /\ queue[j] \in Seq(had[j])

\* Whatever may become the list holds only what happened.
RowsInv ==
  /\ list \in Cache /\ fetch \in Fetch /\ post \in [Hires -> Post]
  /\ Happened(list.rows, had) /\ Happened(fetch.rows, had)
  /\ \A u \in Hires : Happened(post[u].snap, had)

\* The jobs the page knows were made.
Made == {j \in Jobs : store[j] # "none"}
JobsInv ==
  /\ watched \subseteq Made
  /\ conn \in [Jobs -> Conn]
  /\ \A j \in Jobs : conn[j].on = "first" => conn[j].st \in had[j]
  /\ asked \subseteq Ask
  /\ \A q \in asked : q.ok /\ q.kind = "retry" => q.job \in Made
  /\ \A u \in Hires : post[u].on = "accepted" => post[u].job \in Made

\* A list request on its way knows of every optimistic record that is shown or
\* may be put back.
Optimistic(u) == Temp(u) \in list.rows \/ \E v \in Hires : Temp(u) \in post[v].snap
KnownInv ==
  /\ \A r \in fetch.rows : r.job # NoJob
  /\ \A u \in Hires : Optimistic(u) =>
       post[u].on # "unused" /\ (fetch.on = "no" \/ u \in fetch.knows)

RestInv ==
  /\ sep \in Separators /\ open \in BOOLEAN /\ mine \subseteq Hires
  /\ events \in 0..MaxEvents /\ faults \in 0..MaxFaults

BoardInv == ServerInv /\ RowsInv /\ JobsInv /\ KnownInv /\ RestInv

\* What no step takes back.
Grown ==
  \A j \in Jobs : had[j] \subseteq had'[j] /\ (store[j] # "none" => store'[j] # "none")

-----------------------------------------------------------------------------
(***************************************************************************)
(* The server.                                                             *)
(***************************************************************************)
\* Queues of members of a set.
LEMMA Queues ==
  ASSUME NEW S, NEW q \in Seq(S)
  PROVE  /\ \A s \in S : Append(q, s) \in Seq(S)
         /\ q # <<>> => Head(q) \in S /\ Tail(q) \in Seq(S)
OBVIOUS

\* A job starts.
LEMMA StartStep ==
  ASSUME ServerInv, NEW u \in Hires, NEW j \in Jobs, Start(u, j)
  PROVE  ServerInv' /\ Grown /\ store'[j] # "none"
<1>1. had' = [had EXCEPT ![j] = {"PENDING"}] /\ store' = [store EXCEPT ![j] = "PENDING"]
      /\ row' = [row EXCEPT ![u] = [job |-> j, st |-> "PENDING", off |-> FALSE]]
      /\ queue' = queue /\ store[j] = "none"
  BY DEF Start
<1>2. [job |-> j, st |-> "PENDING", off |-> FALSE] \in Row
  BY DEF Row, Status
<1>3. /\ row' \in [Hires -> Row]
      /\ store' \in [Jobs -> Status \cup {"none", "gone"}]
      /\ had' \in [Jobs -> SUBSET Status]
  BY <1>1, <1>2 DEF ServerInv, Status
<1>4. Grown
  BY <1>1 DEF ServerInv, Grown
<1>5. \A v \in Hires : Exists(v)' => row'[v].st \in had'[row'[v].job]
  <2>1. ASSUME NEW v \in Hires, row'[v].job # NoJob PROVE row'[v].st \in had'[row'[v].job]
    <3>1. CASE v = u
      BY <1>1, <3>1 DEF ServerInv
    <3>2. CASE v # u
      <4>1. row'[v] = row[v] /\ row[v].job \in Jobs
        BY <1>1, <2>1, <3>2 DEF ServerInv, Row
      <4> QED BY <2>1, <4>1, <1>4 DEF ServerInv, Exists, Grown
    <3> QED BY <3>1, <3>2
  <2> QED BY <2>1 DEF Exists
<1>6. \A i \in Jobs : /\ store'[i] \in Status => store'[i] \in had'[i]
                      /\ store'[i] = "none" => had'[i] = {}
  BY <1>1 DEF ServerInv
<1>7. \A i \in Jobs : queue'[i] \in Seq(had'[i])
  <2>1. ASSUME NEW i \in Jobs PROVE queue[i] \in Seq(had'[i])
    <3>1. had[i] \subseteq had'[i] /\ queue[i] \in Seq(had[i])
      BY <1>4 DEF Grown, ServerInv
    <3> HIDE DEF Grown
    <3> QED BY <3>1
  <2> QED BY <1>1, <2>1
<1>8. store'[j] # "none"
  BY <1>1 DEF ServerInv
<1> QED BY <1>1, <1>3, <1>4, <1>5, <1>6, <1>7, <1>8 DEF ServerInv

\* A report is stored and queued.
LEMMA PublishStep ==
  ASSUME ServerInv, NEW j \in Jobs, NEW s \in Status, Publish(j, s)
  PROVE  ServerInv' /\ Grown
<1>1. /\ had' = [had EXCEPT ![j] = had[j] \cup {s}] /\ store' = [store EXCEPT ![j] = s]
      /\ row' = row
      /\ queue' = [queue EXCEPT ![j] = Append(queue[j], s)] /\ store[j] # "none"
  BY DEF Publish
<1>2. /\ store' \in [Jobs -> Status \cup {"none", "gone"}]
      /\ had' \in [Jobs -> SUBSET Status]
      /\ queue' \in [Jobs -> Seq(Status)]
  BY <1>1 DEF ServerInv
<1>3. Grown
  BY <1>1 DEF ServerInv, Grown, Status
<1>4. \A v \in Hires : row'[v].job # NoJob => row'[v].st \in had'[row'[v].job]
  BY <1>1, <1>3 DEF ServerInv, Exists, Grown, Row
<1>5. \A i \in Jobs : /\ store'[i] \in Status => store'[i] \in had'[i]
                      /\ store'[i] = "none" => had'[i] = {}
  BY <1>1 DEF ServerInv, Status
<1>6. \A i \in Jobs : queue'[i] \in Seq(had'[i])
  <2>1. ASSUME NEW i \in Jobs PROVE queue'[i] \in Seq(had'[i])
    <3>1. queue[i] \in Seq(had[i]) /\ had[i] \subseteq had'[i]
      BY <1>3 DEF Grown, ServerInv
    <3>2. queue[i] \in Seq(had'[i])
      BY <3>1
    <3>3. CASE i = j
      <4>1. s \in had'[j] /\ queue'[j] = Append(queue[j], s)
        BY <1>1 DEF ServerInv
      <4> QED BY <3>2, <3>3, <4>1, Queues
    <3>4. CASE i # j
      BY <1>1, <3>2, <3>4 DEF ServerInv
    <3> QED BY <3>3, <3>4
  <2> QED BY <2>1
<1> QED BY <1>1, <1>2, <1>3, <1>4, <1>5, <1>6 DEF ServerInv, Exists

\* The row changes, and with it what its job had at most grows.
LEMMA RowStep ==
  ASSUME ServerInv, NEW u \in Hires, store' = store, queue' = queue,
         NEW r \in Row, row' = [row EXCEPT ![u] = r],
         had' \in [Jobs -> SUBSET Status], \A j \in Jobs : had[j] \subseteq had'[j],
         \A j \in Jobs : store[j] = "none" => had'[j] = {},
         r.job # NoJob => r.st \in had'[r.job]
  PROVE  ServerInv' /\ Grown
<1>1. Grown
  BY DEF Grown
<1>2. \A v \in Hires : row'[v].job # NoJob => row'[v].st \in had'[row'[v].job]
  BY DEF ServerInv, Exists, Row
<1>3. \A j \in Jobs : queue[j] \in Seq(had'[j])
  <2>1. ASSUME NEW j \in Jobs PROVE queue[j] \in Seq(had'[j])
    <3>1. queue[j] \in Seq(had[j]) /\ had[j] \subseteq had'[j]
      BY DEF ServerInv
    <3> QED BY <3>1
  <2> QED BY <2>1
<1>4. \A j \in Jobs : store'[j] \in Status => store'[j] \in had'[j]
  BY DEF ServerInv
<1> QED BY <1>1, <1>2, <1>3, <1>4 DEF ServerInv, Exists

\* A row takes the status of its job.
LEMMA PersistStep ==
  ASSUME ServerInv, NEW u \in Hires, Persist(u)
  PROVE  ServerInv' /\ Grown
<1> DEFINE r == [row[u] EXCEPT !.st = store[row[u].job]]
<1>1. row[u].job \in Jobs /\ row[u].st \in had[row[u].job]
  BY DEF Persist, Exists, ServerInv, Row
<1>2. store[row[u].job] \in Status
  BY <1>1 DEF Persist, ServerInv
<1>3. r \in Row /\ r.job = row[u].job /\ r.st = store[row[u].job]
  BY <1>2 DEF ServerInv, Row
<1>4. row' = [row EXCEPT ![u] = r] /\ UNCHANGED <<store, queue, had>>
  BY DEF Persist
<1>5. r.st \in had[r.job]
  BY <1>1, <1>2, <1>3 DEF ServerInv
<1> HIDE DEF r
<1> QED BY <1>3, <1>4, <1>5, RowStep DEF ServerInv

\* A row whose job was forgotten is settled, which its job had then.
LEMMA SettleStep ==
  ASSUME ServerInv, NEW u \in Hires, NEW s \in Terminal, Settle(u, s)
  PROVE  ServerInv' /\ Grown
<1> DEFINE r == [row[u] EXCEPT !.st = s]
           j == row[u].job
<1>1. j \in Jobs /\ store[j] = "gone"
  BY DEF Settle, Exists, ServerInv, Row
<1>2. r \in Row /\ r.job = j /\ r.st = s /\ s \in Status
  <2>1. s \in Status
    BY DEF Status, Terminal
  <2>2. row[u] \in Row
    BY DEF ServerInv
  <2> QED BY <2>1, <2>2 DEF Row
<1>3. /\ row' = [row EXCEPT ![u] = r] /\ UNCHANGED <<store, queue>>
      /\ had' = [had EXCEPT ![j] = had[j] \cup {s}]
  BY DEF Settle
<1> HIDE DEF r, j
<1>4. /\ had' \in [Jobs -> SUBSET Status]
      /\ \A i \in Jobs : had[i] \subseteq had'[i]
      /\ \A i \in Jobs : store[i] = "none" => had'[i] = {}
      /\ s \in had'[j]
  BY <1>1, <1>2, <1>3 DEF ServerInv
<1> QED BY <1>2, <1>3, <1>4, RowStep

\* A row goes.
LEMMA RollbackStep ==
  ASSUME ServerInv, NEW u \in Hires, Rollback(u)
  PROVE  ServerInv' /\ Grown
<1>1. row' = [row EXCEPT ![u] = NoRow] /\ UNCHANGED <<store, queue, had>>
  BY DEF Rollback
<1>2. NoRow \in Row /\ NoRow.job = NoJob
  BY DEF NoRow, Row, Status
<1> HIDE DEF NoRow
<1> QED BY <1>1, <1>2, RowStep DEF ServerInv

\* A row is marked as offboarded, its status stays.
LEMMA OffboardStep ==
  ASSUME ServerInv, NEW u \in Hires, Offboard(u)
  PROVE  ServerInv' /\ Grown
<1> DEFINE r == [row[u] EXCEPT !.off = TRUE]
<1>1. row' = [row EXCEPT ![u] = r] /\ UNCHANGED <<store, queue, had>>
  BY DEF Offboard
<1>2. r \in Row /\ r.job = row[u].job /\ r.st = row[u].st
  BY DEF ServerInv, Row
<1> HIDE DEF r
<1>3. r.job # NoJob => r.st \in had'[r.job]
  BY <1>1, <1>2 DEF ServerInv, Exists
<1> QED BY <1>1, <1>2, <1>3, RowStep DEF ServerInv

\* A restart forgets jobs and queues, not rows nor what was.
LEMMA RestartStep ==
  ASSUME ServerInv, Restart
  PROVE  ServerInv' /\ Grown
<1>1. /\ row' = row /\ had' = had /\ queue' = [j \in Jobs |-> <<>>]
      /\ store' = [j \in Jobs |-> IF store[j] = "none" THEN "none" ELSE "gone"]
  BY DEF Restart
<1>2. Grown
  BY <1>1 DEF Grown
<1>3. \A j \in Jobs : queue'[j] \in Seq(had'[j])
  BY <1>1
<1>4. store' \in [Jobs -> Status \cup {"none", "gone"}] /\ queue' \in [Jobs -> Seq(Status)]
  BY <1>1
<1>5. \A j \in Jobs : /\ store'[j] \in Status => store'[j] \in had'[j]
                      /\ store'[j] = "none" => had'[j] = {}
  BY <1>1 DEF ServerInv, Status
<1> QED BY <1>1, <1>2, <1>3, <1>4, <1>5 DEF ServerInv, Exists

\* An event leaves its queue.
Taken(j) == /\ queue[j] # <<>> /\ queue' = [queue EXCEPT ![j] = Tail(queue[j])]
            /\ UNCHANGED <<row, store, had>>
\* Whoever takes an event takes one its job had.
LEMMA TakenStep ==
  ASSUME ServerInv, NEW j \in Jobs, Taken(j)
  PROVE  ServerInv' /\ Grown /\ Head(queue[j]) \in had[j]
<1>1. queue[j] \in Seq(had[j]) /\ queue[j] # <<>> /\ queue[j] \in Seq(Status)
  BY DEF ServerInv, Taken
<1>2. Tail(queue[j]) \in Seq(had[j]) /\ Head(queue[j]) \in had[j] /\ Tail(queue[j]) \in Seq(Status)
  BY <1>1, Queues
<1>3. Grown
  BY DEF Grown, Taken
<1>4. \A i \in Jobs : queue'[i] \in Seq(had[i])
  BY <1>2 DEF ServerInv, Taken
<1>5. queue' \in [Jobs -> Seq(Status)]
  BY <1>2 DEF ServerInv, Taken
<1> QED BY <1>2, <1>3, <1>4, <1>5 DEF ServerInv, Taken, Exists

\* Nothing happened on the server.
LEMMA ServerRests ==
  ASSUME ServerInv, UNCHANGED <<row, store, queue, had>>
  PROVE  ServerInv' /\ Grown
BY DEF ServerInv, Grown, Exists

-----------------------------------------------------------------------------
(***************************************************************************)
(* The page: what list, request and snapshots may become.                  *)
(***************************************************************************)
\* What happened stays what happened.
LEMMA RowsGrow ==
  ASSUME NEW S, NEW h, NEW k, Happened(S, h), \A j \in Jobs : h[j] \subseteq k[j]
  PROVE  Happened(S, k)
BY DEF Happened, Record

\* The rows a list answer may hold.
LEMMA ListedRows ==
  ASSUME ServerInv
  PROVE  Happened(Listed, had) /\ \A r \in Listed : r.job # NoJob
<1>1. ASSUME NEW u \in Hires, Exists(u),
             NEW r, r = [user |-> u, job |-> row[u].job, st |-> row[u].st, off |-> row[u].off]
      PROVE  r \in Record /\ r.job # NoJob /\ r.st \in had[r.job]
  <2>1. row[u] \in Row /\ row[u].st \in had[row[u].job] /\ row[u].job # NoJob
    BY <1>1 DEF ServerInv, Exists
  <2> QED BY <1>1, <2>1 DEF Row, Record
<1> QED BY <1>1 DEF Listed, Happened

\* Records of one job take the status of an event; optimistic records do not.
LEMMA AppliedRows ==
  ASSUME ServerInv, Happened(list.rows, had), NEW j \in Jobs, NEW s \in had[j]
  PROVE  /\ Happened(Applied(j, s), had)
         /\ \A u \in Hires : Temp(u) \in Applied(j, s) => Temp(u) \in list.rows
<1>1. ASSUME NEW r \in list.rows, r.job = j
      PROVE  LET q == [r EXCEPT !.st = s]
             IN q \in Record /\ q.job = j /\ q.st \in had[q.job]
  BY <1>1 DEF Happened, Record, ServerInv
<1>2. ASSUME NEW r \in list.rows, r.job # j
      PROVE  r \in Record /\ (r.job # NoJob => r.st \in had[r.job])
  BY DEF Happened
<1>3. \A q \in Applied(j, s) : q \in list.rows \/ q.job = j
  BY <1>1 DEF Applied, OfJob
<1>4. \A u \in Hires : Temp(u).job = NoJob
  BY DEF Temp
<1> QED BY <1>1, <1>2, <1>3, <1>4, JobAssumption DEF Applied, OfJob, Happened

\* Requests that hold no answer.
LEMMA EmptyFetches ==
  /\ SentFetch \in Fetch /\ SentFetch.rows = {} /\ SentFetch.knows = Begun /\ SentFetch.on = "sent"
  /\ NoFetch \in Fetch /\ NoFetch.rows = {} /\ NoFetch.on = "no"
BY DEF SentFetch, NoFetch, Fetch, Begun

\* A set of rows is shown.
LEMMA RowsShown ==
  ASSUME NEW S, Happened(S, had'), SetRows(S)
  PROVE  list' \in Cache /\ list'.rows = S /\ Happened(list'.rows, had')
BY DEF SetRows, Cache, Happened

\* A set of rows is shown, and asked for anew.
LEMMA RowsInvalidated ==
  ASSUME NEW S, Happened(S, had'), list \in Cache, Invalidated(S)
  PROVE  list' \in Cache /\ list'.rows = S /\ fetch' \in {fetch, SentFetch}
<1>1. [list EXCEPT !.rows = S] \in Cache /\ [list EXCEPT !.rows = S].rows = S
  BY DEF Happened, Cache
<1> QED BY <1>1 DEF Invalidated

\* The three places rows come from, when only some of them change.
RowsMove ==
  /\ list' \in Cache /\ Happened(list'.rows, had')
  /\ fetch' \in {fetch, NoFetch, SentFetch}
  /\ post' \in [Hires -> Post]
  /\ \A u \in Hires : post'[u].snap \in {{}, post[u].snap, list.rows}
\* Rows that were in one of the three places may move to another.
LEMMA RowsMoved ==
  ASSUME RowsInv, Grown, RowsMove
  PROVE  RowsInv'
<1>1. \A j \in Jobs : had[j] \subseteq had'[j]
  BY DEF Grown
<1>2. Happened({}, had')
  BY DEF Happened
<1>3. Happened(list.rows, had') /\ Happened(fetch.rows, had')
      /\ \A u \in Hires : Happened(post[u].snap, had')
  BY <1>1, RowsGrow DEF RowsInv
<1>4. fetch' \in Fetch /\ Happened(fetch'.rows, had')
  BY <1>2, <1>3, EmptyFetches DEF RowsMove, RowsInv
<1>5. \A u \in Hires : Happened(post'[u].snap, had')
  BY <1>2, <1>3 DEF RowsMove
<1> QED BY <1>4, <1>5 DEF RowsInv, RowsMove

\* The request alone changes.
LEMMA RowsRest ==
  ASSUME RowsInv, Grown, UNCHANGED <<list, post>>, fetch' \in {fetch, NoFetch, SentFetch}
  PROVE  RowsInv'
<1>1. Happened(list'.rows, had')
  BY RowsGrow DEF RowsInv, Grown
<1> QED BY <1>1, RowsMoved DEF RowsMove, RowsInv

\* The jobs the page knows, when some are forgotten and some were just made.
LEMMA JobsMoved ==
  ASSUME JobsInv, Grown, watched' \subseteq watched \cup Made',
         asked' \subseteq Ask,
         \A q \in asked' : q.ok /\ q.kind = "retry" => q \in asked \/ q.job \in Made',
         conn' \in [Jobs -> Conn],
         \A j \in Jobs : conn'[j].on = "first" => conn'[j] = conn[j] \/ conn'[j].st \in had'[j],
         \A u \in Hires : post'[u].on = "accepted" => post'[u] = post[u] \/ post'[u].job \in Made'
  PROVE  JobsInv'
<1>1. Made \subseteq Made'
  BY DEF Made, Grown
<1>2. \A j \in Jobs : conn'[j].on = "first" => conn'[j].st \in had'[j]
  BY DEF JobsInv, Grown
<1>3. \A u \in Hires : post'[u].on = "accepted" => post'[u].job \in Made'
  BY <1>1 DEF JobsInv
<1>4. \A q \in asked' : q.ok /\ q.kind = "retry" => q.job \in Made'
  BY <1>1 DEF JobsInv
<1>5. watched' \subseteq Made'
  BY <1>1 DEF JobsInv
<1> QED BY <1>2, <1>3, <1>4, <1>5 DEF JobsInv

\* Jobs, requests and streams are at most forgotten.
LEMMA JobsRest ==
  ASSUME JobsInv, Grown, watched' \subseteq watched, asked' \subseteq asked,
         conn' \in [Jobs -> Conn],
         \A j \in Jobs : conn'[j].on = "first" => conn'[j] = conn[j],
         \A u \in Hires : post'[u].on = "accepted" => post'[u] = post[u]
  PROVE  JobsInv'
<1>1. asked' \subseteq Ask
  BY DEF JobsInv
<1> QED BY <1>1, JobsMoved

\* Optimistic records, when a request is sent, given up or answered.
FetchKnows ==
  /\ \A r \in fetch'.rows : r.job # NoJob
  /\ \/ fetch'.on = "no"
     \/ fetch'.knows = Begun
     \/ fetch'.knows = fetch.knows /\ fetch.on # "no"
\* No optimistic record comes back unknown to the request on its way.
LEMMA KnownMoved ==
  ASSUME KnownInv, FetchKnows,
         \A u \in Hires : post[u].on # "unused" => post'[u].on # "unused",
         \A u \in Hires : Optimistic(u)' =>
           Optimistic(u) \/ (fetch'.on = "no" /\ post'[u].on # "unused")
  PROVE  KnownInv'
<1>1. ASSUME NEW u \in Hires, Optimistic(u)'
      PROVE  post'[u].on # "unused" /\ (fetch'.on = "no" \/ u \in fetch'.knows)
  <2>1. CASE Optimistic(u)
    BY <2>1 DEF KnownInv, FetchKnows, Begun
  <2>2. CASE fetch'.on = "no" /\ post'[u].on # "unused"
    BY <2>2
  <2> QED BY <1>1, <2>1, <2>2
<1> QED BY <1>1 DEF KnownInv, FetchKnows

\* The usual requests know enough.
LEMMA FetchesKnow ==
  ASSUME KnownInv, fetch' \in {fetch, NoFetch, SentFetch}
  PROVE  FetchKnows
BY EmptyFetches DEF KnownInv, FetchKnows

\* The request alone changes.
LEMMA KnownRest ==
  ASSUME KnownInv, UNCHANGED <<list, post>>, fetch' \in {fetch, NoFetch, SentFetch}
  PROVE  KnownInv'
<1>1. \A u \in Hires : Optimistic(u)' => Optimistic(u)
  BY DEF Optimistic, Temp
<1> QED BY <1>1, FetchesKnow, KnownMoved

-----------------------------------------------------------------------------
(***************************************************************************)
(* The actions of the page.                                                *)
(***************************************************************************)
\* The bounded counters and the flags.
LEMMA FaultCounted ==
  ASSUME RestInv, Fault
  PROVE  faults' \in 0..MaxFaults
BY BoundAssumption DEF RestInv, Fault

\* A step of the server, or of another administrator's row, alone.
LEMMA ServerAlone ==
  ASSUME BoardInv, ServerInv', Grown,
         UNCHANGED <<sep, list, fetch, watched, open, requests, conn>>,
         events' \in 0..MaxEvents, faults' \in 0..MaxFaults
  PROVE  BoardInv'
<1>1. RowsInv' /\ KnownInv'
  BY RowsRest, KnownRest DEF BoardInv, requests
<1>2. JobsInv'
  BY JobsRest DEF BoardInv, requests, JobsInv
<1>3. RestInv'
  BY DEF BoardInv, RestInv, requests
<1> QED BY <1>1, <1>2, <1>3 DEF BoardInv

\* A report keeps the invariant.
LEMMA PublishKeeps ==
  ASSUME BoardInv, NEW j \in Jobs, NEW s \in Status, Publish(j, s)
  PROVE  BoardInv'
<1>1. ServerInv' /\ Grown
  BY PublishStep DEF BoardInv
<1>2. events' \in 0..MaxEvents /\ faults' \in 0..MaxFaults
  BY BoundAssumption DEF Publish, BoardInv, RestInv
<1> QED BY <1>1, <1>2, ServerAlone DEF Publish

\* A commit keeps the invariant.
LEMMA PersistKeeps ==
  ASSUME BoardInv, NEW u \in Hires, Persist(u)
  PROVE  BoardInv'
<1>1. ServerInv' /\ Grown
  BY PersistStep DEF BoardInv
<1>2. events' \in 0..MaxEvents /\ faults' \in 0..MaxFaults
  BY DEF Persist, BoardInv, RestInv
<1> QED BY <1>1, <1>2, ServerAlone DEF Persist

\* A settled row keeps the invariant.
LEMMA SettleKeeps ==
  ASSUME BoardInv, NEW u \in Hires, NEW s \in Terminal, Settle(u, s)
  PROVE  BoardInv'
<1>1. ServerInv' /\ Grown
  BY SettleStep DEF BoardInv
<1>2. events' \in 0..MaxEvents /\ faults' \in 0..MaxFaults
  BY DEF Settle, BoardInv, RestInv
<1> QED BY <1>1, <1>2, ServerAlone DEF Settle

\* A stolen event keeps the invariant.
LEMMA StealKeeps ==
  ASSUME BoardInv, NEW j \in Jobs, Steal(j)
  PROVE  BoardInv'
<1>1. ServerInv' /\ Grown
  BY TakenStep DEF BoardInv, Steal, Taken
<1>2. events' \in 0..MaxEvents /\ faults' \in 0..MaxFaults
  BY FaultCounted DEF Steal, BoardInv, RestInv
<1> QED BY <1>1, <1>2, ServerAlone DEF Steal

\* A restart keeps the invariant.
LEMMA RestartKeeps ==
  ASSUME BoardInv, Restart
  PROVE  BoardInv'
<1>1. ServerInv' /\ Grown
  BY RestartStep DEF BoardInv
<1>2. RowsInv' /\ KnownInv'
  BY <1>1, RowsRest, KnownRest DEF Restart, BoardInv, requests
<1>3. \A j \in Jobs : [conn[j] EXCEPT !.on = "closed"] \in Conn
                     /\ [conn[j] EXCEPT !.on = "closed"].on = "closed"
  BY DEF BoardInv, JobsInv, Conn
<1>4. conn' \in [Jobs -> Conn] /\ \A j \in Jobs : conn'[j].on = "first" => conn'[j] = conn[j]
  BY <1>3 DEF Restart, BoardInv, JobsInv
<1>5. JobsInv'
  BY <1>1, <1>4, JobsRest DEF Restart, BoardInv, requests
<1>6. RestInv'
  BY FaultCounted DEF Restart, BoardInv, RestInv, requests
<1> QED BY <1>1, <1>2, <1>5, <1>6 DEF BoardInv

\* Other administrators keep the invariant; a hire they add is never asked for here.
LEMMA ElsewhereKeeps ==
  ASSUME BoardInv, NEW u \in Hires, Elsewhere(u)
  PROVE  BoardInv'
<1>1. ServerInv' /\ Grown /\ events' = events
  BY StartStep, RollbackStep, OffboardStep DEF BoardInv, Elsewhere, Retry, Start, Rollback, Offboard
<1> DEFINE q == [post[u] EXCEPT !.on = IF @ = "unused" THEN "over" ELSE @]
<1>2. /\ q \in Post /\ q.snap = post[u].snap /\ q.on # "unused"
      /\ q.on = "accepted" => q = post[u]
  <2>1. post[u] \in Post
    BY DEF BoardInv, RowsInv
  <2> QED BY <2>1 DEF Post
<1>3. post' = [post EXCEPT ![u] = q]
  BY DEF Elsewhere
<1> HIDE DEF q
<1>4. /\ post' \in [Hires -> Post]
      /\ \A v \in Hires : /\ post'[v].snap = post[v].snap
                          /\ post[v].on # "unused" => post'[v].on # "unused"
                          /\ post'[v].on = "accepted" => post'[v] = post[v]
  BY <1>2, <1>3 DEF BoardInv, RowsInv
<1>5. UNCHANGED <<sep, list, fetch, watched, open, mine, asked, conn, faults>>
  BY DEF Elsewhere
<1>6. Happened(list'.rows, had')
  BY <1>1, <1>5, RowsGrow DEF BoardInv, RowsInv, Grown
<1>7. RowsInv'
  BY <1>1, <1>4, <1>5, <1>6, RowsMoved DEF BoardInv, RowsMove, RowsInv
<1>8. \A v \in Hires : Optimistic(v)' => Optimistic(v)
  BY <1>4, <1>5 DEF Optimistic, Temp
<1>9. KnownInv'
  BY <1>4, <1>5, <1>8, FetchesKnow, KnownMoved DEF BoardInv
<1>10. JobsInv'
  BY <1>1, <1>4, <1>5, JobsRest DEF BoardInv, JobsInv
<1>11. RestInv'
  BY <1>1, <1>5 DEF BoardInv, RestInv
<1> QED BY <1>1, <1>7, <1>9, <1>10, <1>11 DEF BoardInv

\* Streams end, or the page goes: nothing is open for the first time.
LEMMA Disconnected ==
  ASSUME Unsubscribed
  PROVE  conn' \in [Jobs -> Conn] /\ \A j \in Jobs : conn'[j].on = "off"
BY DEF Unsubscribed, Off, Conn, Status

\* A list request is sent, or the page opens on what it has.
LEMMA AskKeeps ==
  ASSUME BoardInv, Open \/ OpenFresh \/ Poll
  PROVE  BoardInv'
<1>1. /\ UNCHANGED <<server, sep, list, watched, requests, conn, faults>>
      /\ fetch' \in {fetch, NoFetch, SentFetch} /\ open' \in BOOLEAN
  BY DEF Open, OpenFresh, Poll, BoardInv, RestInv
<1>2. ServerInv' /\ Grown
  BY <1>1, ServerRests DEF BoardInv, server
<1>3. RowsInv' /\ KnownInv'
  BY <1>1, <1>2, RowsRest, KnownRest DEF BoardInv, requests
<1>4. JobsInv'
  BY <1>1, <1>2, JobsRest DEF BoardInv, requests, JobsInv
<1>5. RestInv'
  BY <1>1 DEF BoardInv, RestInv, requests, server
<1> QED BY <1>2, <1>3, <1>4, <1>5 DEF BoardInv

\* Leaving the page keeps the invariant.
LEMMA LeaveKeeps ==
  ASSUME BoardInv, Leave
  PROVE  BoardInv'
<1>1. ServerInv' /\ Grown
  BY ServerRests DEF BoardInv, server, Leave
<1>2. RowsInv' /\ KnownInv'
  BY <1>1, RowsRest, KnownRest DEF BoardInv, Leave
<1>3. JobsInv'
  BY <1>1, Disconnected, JobsRest DEF BoardInv, Leave, JobsInv
<1>4. RestInv'
  BY DEF BoardInv, RestInv, Leave, server, FormGone
<1> QED BY <1>1, <1>2, <1>3, <1>4 DEF BoardInv

\* The rows of an answer happened, and are not optimistic.
LEMMA FetchServedKeeps ==
  ASSUME BoardInv, FetchServed
  PROVE  BoardInv'
<1>1. ServerInv' /\ Grown /\ had' = had
  BY ServerRests DEF BoardInv, server, FetchServed
<1>2. Happened(Listed, had) /\ \A r \in Listed : r.job # NoJob
  BY ListedRows DEF BoardInv
<1> DEFINE f == [fetch EXCEPT !.on = "answered", !.rows = Listed]
<1>3. f \in Fetch /\ f.rows = Listed /\ f.knows = fetch.knows
  BY <1>2 DEF BoardInv, RowsInv, Fetch, Happened
<1>4. fetch' = f /\ fetch.on = "sent"
  BY DEF FetchServed
<1> HIDE DEF f
<1>5. RowsInv'
  BY <1>1, <1>2, <1>3, <1>4 DEF BoardInv, RowsInv, FetchServed, requests
<1>6. FetchKnows
  BY <1>2, <1>3, <1>4 DEF FetchKnows
<1>7. \A u \in Hires : Optimistic(u)' => Optimistic(u)
  BY DEF Optimistic, Temp, FetchServed, requests
<1>8. KnownInv'
  BY <1>6, <1>7, KnownMoved DEF BoardInv, FetchServed, requests
<1>9. JobsInv'
  BY <1>1, JobsRest DEF BoardInv, FetchServed, requests, JobsInv
<1>10. RestInv'
  BY DEF BoardInv, RestInv, FetchServed, server, requests
<1> QED BY <1>1, <1>5, <1>8, <1>9, <1>10 DEF BoardInv

\* An answer becomes the list.
LEMMA FetchStoredKeeps ==
  ASSUME BoardInv, FetchStored
  PROVE  BoardInv'
<1>1. ServerInv' /\ Grown /\ had' = had
  BY ServerRests DEF BoardInv, server, FetchStored
<1>2. UNCHANGED <<sep, watched, open, mine, post, asked, conn, events, faults>> /\ fetch' = NoFetch
  BY DEF FetchStored, requests, server
<1>3. list' \in Cache /\ list'.rows = fetch.rows
  BY DEF FetchStored, BoardInv, RowsInv, Cache, Happened
<1>4. RowsInv'
  BY <1>1, <1>2, <1>3, RowsMoved DEF BoardInv, RowsMove, RowsInv
<1>5. \A u \in Hires : Temp(u) \notin list'.rows
  BY <1>3 DEF BoardInv, KnownInv, Temp
<1>6. \A u \in Hires : Optimistic(u)' => Optimistic(u)
  BY <1>2, <1>5 DEF Optimistic, Temp
<1>7. KnownInv'
  BY <1>2, <1>6, FetchesKnow, KnownMoved DEF BoardInv
<1>8. JobsInv'
  BY <1>1, <1>2, JobsRest DEF BoardInv, JobsInv
<1>9. RestInv'
  BY <1>2 DEF BoardInv, RestInv
<1> QED BY <1>1, <1>4, <1>7, <1>8, <1>9 DEF BoardInv

\* A failed request leaves the rows.
LEMMA FetchFailsKeeps ==
  ASSUME BoardInv, FetchFails
  PROVE  BoardInv'
<1>1. ServerInv' /\ Grown /\ had' = had
  BY ServerRests DEF BoardInv, server, FetchFails
<1>2. UNCHANGED <<sep, watched, open, post, asked, events>> /\ fetch' = NoFetch /\ mine' = {}
  BY DEF FetchFails, FormGone, server
<1>3. list' \in Cache /\ list'.rows = list.rows
  BY DEF FetchFails, BoardInv, RowsInv, Cache
<1>4. RowsInv'
  BY <1>1, <1>2, <1>3, RowsMoved DEF BoardInv, RowsMove, RowsInv
<1>5. \A u \in Hires : Optimistic(u)' => Optimistic(u)
  BY <1>2, <1>3 DEF Optimistic, Temp
<1>6. KnownInv'
  BY <1>2, <1>5, FetchesKnow, KnownMoved DEF BoardInv
<1>7. JobsInv'
  BY <1>1, <1>2, Disconnected, JobsRest DEF BoardInv, JobsInv, FetchFails
<1>8. RestInv'
  BY <1>2, FaultCounted DEF BoardInv, RestInv, FetchFails
<1> QED BY <1>1, <1>4, <1>6, <1>7, <1>8 DEF BoardInv

\* A create shows its optimistic record and gives up the request that does not know it.
LEMMA CreateKeeps ==
  ASSUME BoardInv, NEW u \in Hires, Create(u)
  PROVE  BoardInv'
<1>1. ServerInv' /\ Grown /\ had' = had
  BY ServerRests DEF BoardInv, server, Create
<1> DEFINE q == [on |-> "asking", job |-> NoJob, snap |-> list.rows]
<1>2. /\ UNCHANGED <<sep, watched, open, asked, conn, events, faults>>
      /\ fetch' = NoFetch /\ mine' = {u} /\ post' = [post EXCEPT ![u] = q]
      /\ SetRows(list.rows \cup {Temp(u)})
  BY DEF Create, CancelQueries, server
<1>3. q \in Post
  BY DEF BoardInv, RowsInv, Happened, Post
<1>4. Happened(list.rows \cup {Temp(u)}, had')
  <2>1. Temp(u) \in Record /\ Temp(u).job = NoJob
    BY DEF Temp, Record, Status
  <2> QED BY <1>1, <2>1 DEF BoardInv, RowsInv, Happened
<1>5. list' \in Cache /\ list'.rows = list.rows \cup {Temp(u)} /\ Happened(list'.rows, had')
  BY <1>2, <1>4, RowsShown
<1>6. /\ post' \in [Hires -> Post]
      /\ \A v \in Hires : post'[v] = IF v = u THEN q ELSE post[v]
  BY <1>2, <1>3 DEF BoardInv, RowsInv
<1>7. \A v \in Hires : post'[v].snap \in {post[v].snap, list.rows}
                     /\ (post[v].on # "unused" => post'[v].on # "unused")
                     /\ (post'[v].on = "accepted" => post'[v] = post[v])
  BY <1>6
<1>8. RowsInv'
  BY <1>1, <1>2, <1>5, <1>6, <1>7, RowsMoved DEF BoardInv, RowsMove
<1>9. \A v \in Hires : Temp(v) = Temp(u) => v = u
  BY DEF Temp
<1>10. \A v \in Hires : Optimistic(v)' => Optimistic(v) \/ v = u
  BY <1>5, <1>7, <1>9 DEF Optimistic, Temp
<1>11. fetch'.on = "no" /\ post'[u].on # "unused"
  BY <1>2, <1>6, EmptyFetches
<1>12. KnownInv'
  BY <1>2, <1>7, <1>10, <1>11, FetchesKnow, KnownMoved DEF BoardInv
<1>13. JobsInv'
  BY <1>1, <1>2, <1>7, JobsRest DEF BoardInv, JobsInv
<1>14. RestInv'
  BY <1>2 DEF BoardInv, RestInv
<1> QED BY <1>1, <1>8, <1>12, <1>13, <1>14 DEF BoardInv

\* The server accepts a create with a new job, or refuses it.
LEMMA CreateServedKeeps ==
  ASSUME BoardInv, NEW u \in Hires, CreateServed(u)
  PROVE  BoardInv'
<1>1. /\ UNCHANGED <<sep, list, fetch, watched, open, mine, asked, conn, faults>>
      /\ events' = events /\ post[u].on = "asking"
  BY DEF CreateServed, Start, server
<1>2. /\ ServerInv' /\ Grown
      /\ \E q \in Post : /\ post' = [post EXCEPT ![u] = q]
                         /\ q.snap = post[u].snap /\ q.on # "unused"
                         /\ q.on = "accepted" => q.job \in Made'
  <2>0. post[u] \in Post
    BY DEF BoardInv, RowsInv
  <2>1. CASE \E j \in Jobs : Start(u, j) /\ post' = [post EXCEPT ![u] = [post[u] EXCEPT !.on = "accepted", !.job = j]]
    <3>1. PICK j \in Jobs : Start(u, j) /\ post' = [post EXCEPT ![u] = [post[u] EXCEPT !.on = "accepted", !.job = j]]
      BY <2>1
    <3> DEFINE q == [post[u] EXCEPT !.on = "accepted", !.job = j]
    <3>2. q \in Post /\ q.on = "accepted" /\ q.job = j /\ q.snap = post[u].snap
      BY <2>0 DEF Post
    <3>3. post' = [post EXCEPT ![u] = q]
      BY <3>1
    <3>4. ServerInv' /\ Grown /\ j \in Made'
      BY <3>1, StartStep DEF BoardInv, Made
    <3> HIDE DEF q
    <3> QED BY <3>2, <3>3, <3>4
  <2>2. CASE post' = [post EXCEPT ![u].on = "refused"] /\ UNCHANGED server
    <3> DEFINE q == [post[u] EXCEPT !.on = "refused"]
    <3>1. q \in Post /\ q.snap = post[u].snap /\ q.on = "refused"
      BY <2>0 DEF Post
    <3>2. post' = [post EXCEPT ![u] = q]
      BY <2>2
    <3>3. ServerInv' /\ Grown
      BY <2>2, ServerRests DEF BoardInv, server
    <3> HIDE DEF q
    <3> QED BY <3>1, <3>2, <3>3
  <2> QED BY <2>1, <2>2 DEF CreateServed
<1>3. /\ post' \in [Hires -> Post]
      /\ \A v \in Hires : /\ post'[v].snap = post[v].snap
                          /\ post[v].on # "unused" => post'[v].on # "unused"
                          /\ post'[v].on = "accepted" => post'[v] = post[v] \/ post'[v].job \in Made'
  BY <1>2 DEF BoardInv, RowsInv
<1>4. Happened(list'.rows, had')
  BY <1>1, <1>2, RowsGrow DEF BoardInv, RowsInv, Grown
<1>5. RowsInv'
  BY <1>1, <1>2, <1>3, <1>4, RowsMoved DEF BoardInv, RowsMove, RowsInv
<1>6. \A v \in Hires : Optimistic(v)' => Optimistic(v)
  BY <1>1, <1>3 DEF Optimistic, Temp
<1>7. KnownInv'
  BY <1>1, <1>3, <1>6, FetchesKnow, KnownMoved DEF BoardInv
<1>8. JobsInv'
  BY <1>1, <1>2, <1>3, JobsMoved DEF BoardInv, JobsInv
<1>9. RestInv'
  BY <1>1 DEF BoardInv, RestInv
<1> QED BY <1>2, <1>5, <1>7, <1>8, <1>9 DEF BoardInv

\* A create request is over.
LEMMA AnsweredPosts ==
  ASSUME post \in [Hires -> Post], NEW u \in Hires, Answered(u)
  PROVE  /\ post' \in [Hires -> Post]
         /\ \A v \in Hires : /\ post'[v].snap \in {{}, post[v].snap}
                             /\ post[v].on # "unused" => post'[v].on # "unused"
                             /\ post'[v].on = "accepted" => post'[v] = post[v]
<1> DEFINE q == [Unused EXCEPT !.on = "over"]
<1>1. q \in Post /\ q.on = "over" /\ q.snap = {}
  BY DEF Unused, Post
<1>2. post' = [post EXCEPT ![u] = q]
  BY DEF Answered
<1> HIDE DEF q
<1> QED BY <1>1, <1>2

\* The job of an accepted create is watched.
LEMMA CreateSucceedsKeeps ==
  ASSUME BoardInv, NEW u \in Hires, CreateSucceeds(u)
  PROVE  BoardInv'
<1>1. ServerInv' /\ Grown /\ had' = had
  BY ServerRests DEF BoardInv, server, CreateSucceeds
<1>2. /\ UNCHANGED <<sep, open, asked, conn, events, faults>>
      /\ mine' = mine \ {u} /\ watched' = watched \cup {post[u].job}
  BY DEF CreateSucceeds, Answered, server
<1>3. list' \in Cache /\ list'.rows = list.rows /\ fetch' \in {fetch, SentFetch}
  BY <1>1, RowsInvalidated DEF CreateSucceeds, BoardInv, RowsInv
<1>4. /\ post' \in [Hires -> Post]
      /\ \A v \in Hires : /\ post'[v].snap \in {{}, post[v].snap}
                          /\ post[v].on # "unused" => post'[v].on # "unused"
                          /\ post'[v].on = "accepted" => post'[v] = post[v]
  BY AnsweredPosts DEF CreateSucceeds, BoardInv, RowsInv
<1>5. RowsInv'
  BY <1>1, <1>3, <1>4, RowsMoved DEF BoardInv, RowsMove, RowsInv
<1>6. \A v \in Hires : Optimistic(v)' => Optimistic(v)
  BY <1>3, <1>4 DEF Optimistic, Temp
<1>7. KnownInv'
  BY <1>3, <1>4, <1>6, FetchesKnow, KnownMoved DEF BoardInv
<1>8. post[u].job \in Made'
  BY <1>1 DEF CreateSucceeds, BoardInv, JobsInv, Made, Grown
<1>9. JobsInv'
  BY <1>1, <1>2, <1>4, <1>8, JobsMoved DEF BoardInv, JobsInv
<1>10. RestInv'
  BY <1>2 DEF BoardInv, RestInv
<1> QED BY <1>1, <1>5, <1>7, <1>9, <1>10 DEF BoardInv

\* A snapshot that is put back holds what happened, and creates all requests know.
LEMMA CreateFailsKeeps ==
  ASSUME BoardInv, NEW u \in Hires, CreateFails(u)
  PROVE  BoardInv'
<1>1. ServerInv' /\ Grown /\ had' = had
  BY ServerRests DEF BoardInv, server, CreateFails
<1>2. UNCHANGED <<sep, fetch, watched, open, asked, conn, events>> /\ mine' = mine \ {u}
  BY DEF CreateFails, Answered, server
<1>3. list' \in Cache /\ list'.rows = post[u].snap /\ Happened(list'.rows, had')
  BY <1>1, RowsShown DEF CreateFails, BoardInv, RowsInv
<1>4. /\ post' \in [Hires -> Post]
      /\ \A v \in Hires : /\ post'[v].snap \in {{}, post[v].snap}
                          /\ post[v].on # "unused" => post'[v].on # "unused"
                          /\ post'[v].on = "accepted" => post'[v] = post[v]
  BY AnsweredPosts DEF CreateFails, BoardInv, RowsInv
<1>5. RowsInv'
  BY <1>1, <1>2, <1>3, <1>4, RowsMoved DEF BoardInv, RowsMove
<1>6. \A v \in Hires : Optimistic(v)' => Optimistic(v)
  BY <1>3, <1>4 DEF Optimistic, Temp
<1>7. KnownInv'
  BY <1>2, <1>4, <1>6, FetchesKnow, KnownMoved DEF BoardInv
<1>8. JobsInv'
  BY <1>1, <1>2, <1>4, JobsRest DEF BoardInv, JobsInv
<1>9. RestInv'
  BY <1>2, FaultCounted DEF BoardInv, RestInv, CreateFails
<1> QED BY <1>1, <1>5, <1>7, <1>8, <1>9 DEF BoardInv

\* The request of a card takes effect or is refused.
LEMMA ClickKeeps ==
  ASSUME BoardInv, NEW r \in list.rows, NEW k \in {"retry", "rollback", "offboard"},
         Click(r, k)
  PROVE  BoardInv'
<1>1. r.user \in Hires /\ UNCHANGED <<sep, list, fetch, watched, open, mine, post, conn, faults>>
  BY DEF BoardInv, RowsInv, Happened, Record, Click
<1>2. /\ ServerInv' /\ Grown /\ events' = events
      /\ \E b \in BOOLEAN, j \in Jobs \cup {NoJob} :
           /\ asked' = {[kind |-> k, user |-> r.user, ok |-> b, job |-> j]}
           /\ b /\ k = "retry" => j \in Made'
  <2>1. CASE \E j \in Jobs : /\ k = "retry" /\ Retry(r.user, j)
                             /\ asked' = {[kind |-> k, user |-> r.user, ok |-> TRUE, job |-> j]}
    BY <1>1, <2>1, StartStep DEF BoardInv, Retry, Made, Start
  <2>2. CASE /\ k # "retry" /\ (Rollback(r.user) \/ Offboard(r.user))
             /\ asked' = {[kind |-> k, user |-> r.user, ok |-> TRUE, job |-> NoJob]}
    <3>1. ServerInv' /\ Grown
      BY <1>1, <2>2, RollbackStep, OffboardStep DEF BoardInv
    <3>2. events' = events
      BY <2>2 DEF Rollback, Offboard
    <3> QED BY <2>2, <3>1, <3>2
  <2>3. CASE /\ UNCHANGED server
             /\ asked' = {[kind |-> k, user |-> r.user, ok |-> FALSE, job |-> NoJob]}
    BY <2>3, ServerRests DEF BoardInv, server
  <2> QED BY <2>1, <2>2, <2>3 DEF Click, Serve
<1>3. RowsInv' /\ KnownInv'
  BY <1>1, <1>2, RowsRest, KnownRest DEF BoardInv
<1>4. asked' \subseteq Ask /\ \A q \in asked' : q.ok /\ q.kind = "retry" => q.job \in Made'
  BY <1>1, <1>2 DEF Ask
<1>5. JobsInv'
  BY <1>1, <1>2, <1>4, JobsMoved DEF BoardInv, JobsInv
<1>6. RestInv'
  BY <1>1, <1>2 DEF BoardInv, RestInv
<1> QED BY <1>2, <1>3, <1>5, <1>6 DEF BoardInv

\* The job of a retry is watched.
LEMMA ClickSucceedsKeeps ==
  ASSUME BoardInv, NEW q \in asked, ClickSucceeds(q)
  PROVE  BoardInv'
<1>1. ServerInv' /\ Grown /\ had' = had
  BY ServerRests DEF BoardInv, server, ClickSucceeds
<1>2. /\ UNCHANGED <<sep, open, mine, post, conn, events, faults>>
      /\ asked' = asked \ {q}
      /\ watched' = IF q.kind = "retry" THEN watched \cup {q.job} ELSE watched
  BY DEF ClickSucceeds, server
<1>3. list' \in Cache /\ list'.rows = list.rows /\ fetch' \in {fetch, SentFetch}
  BY <1>1, RowsInvalidated DEF ClickSucceeds, BoardInv, RowsInv
<1>4. RowsInv'
  BY <1>1, <1>2, <1>3, RowsMoved DEF BoardInv, RowsMove, RowsInv
<1>5. \A v \in Hires : Optimistic(v)' => Optimistic(v)
  BY <1>2, <1>3 DEF Optimistic, Temp
<1>6. KnownInv'
  BY <1>2, <1>3, <1>5, FetchesKnow, KnownMoved DEF BoardInv
<1>7. q.kind = "retry" => q.job \in Made'
  BY <1>1 DEF ClickSucceeds, BoardInv, JobsInv, Made, Grown
<1>8. JobsInv'
  BY <1>1, <1>2, <1>7, JobsMoved DEF BoardInv, JobsInv
<1>9. RestInv'
  BY <1>2 DEF BoardInv, RestInv
<1> QED BY <1>1, <1>4, <1>6, <1>8, <1>9 DEF BoardInv

\* A refused or lost request of a card changes nothing.
LEMMA ClickFailsKeeps ==
  ASSUME BoardInv, NEW q \in asked, ClickFails(q)
  PROVE  BoardInv'
<1>1. ServerInv' /\ Grown
  BY ServerRests DEF BoardInv, server, ClickFails
<1>2. /\ UNCHANGED <<sep, list, fetch, watched, open, mine, post, conn, events>>
      /\ asked' = asked \ {q}
  BY DEF ClickFails, server
<1>3. RowsInv' /\ KnownInv'
  BY <1>1, <1>2, RowsRest, KnownRest DEF BoardInv
<1>4. JobsInv'
  BY <1>1, <1>2, JobsRest DEF BoardInv, JobsInv
<1>5. RestInv'
  BY <1>2, FaultCounted DEF BoardInv, RestInv, ClickFails
<1> QED BY <1>1, <1>3, <1>4, <1>5 DEF BoardInv

\* One event reached the hook.
LEMMA FrameKeeps ==
  ASSUME BoardInv, ServerInv', Grown, NEW j \in Jobs, NEW s \in had[j],
         NEW next \in Conn, next.on # "first", Frame(j, s, next),
         UNCHANGED <<sep, open, requests, faults>>, events' = events
  PROVE  BoardInv'
<1>1. UNCHANGED <<sep, open, mine, post, asked, events, faults>>
  BY DEF requests
<1>2. /\ Happened(Applied(j, s), had')
      /\ \A u \in Hires : Temp(u) \in Applied(j, s) => Temp(u) \in list.rows
  BY AppliedRows, RowsGrow DEF BoardInv, RowsInv, Grown
<1>3. Off \in Conn /\ Off.on = "off"
  BY DEF Off, Conn, Status
<1>4. /\ \E c \in {next, Off} : conn' = [conn EXCEPT ![j] = c]
      /\ watched' \in {watched, watched \ {j}}
  BY DEF Frame
<1>5. /\ list' \in Cache /\ list'.rows \in {list.rows, Applied(j, s)} /\ Happened(list'.rows, had')
      /\ fetch' \in {fetch, SentFetch}
  <2>1. CASE SetRows(Applied(j, s)) /\ fetch' = fetch
    BY <1>2, <2>1, RowsShown
  <2>2. CASE Invalidated(Applied(j, s))
    BY <1>2, <2>2, RowsInvalidated DEF BoardInv, RowsInv
  <2>3. CASE UNCHANGED <<list, fetch>>
    BY <2>3, RowsGrow DEF BoardInv, RowsInv, Grown
  <2> QED BY <2>1, <2>2, <2>3 DEF Frame
<1>6. RowsInv'
  BY <1>1, <1>5, RowsMoved DEF BoardInv, RowsMove, RowsInv
<1>7. \A u \in Hires : Optimistic(u)' => Optimistic(u)
  BY <1>1, <1>2, <1>5 DEF Optimistic, Temp
<1>8. KnownInv'
  BY <1>1, <1>5, <1>7, FetchesKnow, KnownMoved DEF BoardInv
<1>9. conn' \in [Jobs -> Conn] /\ \A i \in Jobs : conn'[i].on = "first" => conn'[i] = conn[i]
  BY <1>3, <1>4 DEF BoardInv, JobsInv
<1>10. JobsInv'
  BY <1>1, <1>4, <1>9, JobsRest DEF BoardInv
<1>11. RestInv'
  BY <1>1 DEF BoardInv, RestInv
<1> QED BY <1>6, <1>8, <1>10, <1>11 DEF BoardInv

\* What a connection may be after an event, or when it breaks.
LEMMA ConnsAfter ==
  ASSUME NEW o \in {"open", "closed"}
  PROVE  [Off EXCEPT !.on = o] \in Conn /\ [Off EXCEPT !.on = o].on = o
BY DEF Off, Conn, Status

\* A stream starts with the status of the moment, or finds no job.
LEMMA SubscribeKeeps ==
  ASSUME BoardInv, NEW j \in Jobs, Subscribe(j)
  PROVE  BoardInv'
<1>1. ServerInv' /\ Grown /\ had' = had
  BY ServerRests DEF BoardInv, server, Subscribe
<1>2. UNCHANGED <<sep, list, fetch, open, mine, post, asked, events, faults>>
  BY DEF Subscribe, requests, server
<1>3. RowsInv' /\ KnownInv'
  BY <1>1, <1>2, RowsRest, KnownRest DEF BoardInv
<1>4. RestInv'
  BY <1>2 DEF BoardInv, RestInv
<1>5. CASE /\ store[j] # "gone" /\ conn' = [conn EXCEPT ![j] = [on |-> "first", st |-> store[j]]]
           /\ watched' = watched
  <2>1. store[j] \in Status /\ store[j] \in had[j]
    BY <1>5 DEF Subscribe, BoardInv, JobsInv, ServerInv, Made
  <2>2. [on |-> "first", st |-> store[j]] \in Conn
    BY <2>1 DEF Conn
  <2>3. /\ conn' \in [Jobs -> Conn] /\ asked \subseteq Ask
        /\ \A i \in Jobs : conn'[i].on = "first" => conn'[i] = conn[i] \/ conn'[i].st \in had'[i]
    BY <1>1, <1>5, <2>1, <2>2 DEF BoardInv, JobsInv
  <2>4. JobsInv'
    BY <1>1, <1>2, <1>5, <2>3, JobsMoved DEF BoardInv
  <2> QED BY <1>1, <1>3, <2>4, <1>4 DEF BoardInv
<1>6. CASE watched' = watched \ {j} /\ conn' = conn
  <2>1. conn' \in [Jobs -> Conn]
    BY <1>6 DEF BoardInv, JobsInv
  <2>2. JobsInv'
    BY <1>1, <1>2, <1>6, <2>1, JobsRest DEF BoardInv
  <2> QED BY <1>1, <1>3, <2>2, <1>4 DEF BoardInv
<1> QED BY <1>5, <1>6 DEF Subscribe

\* A broken stream is closed.
LEMMA StreamBreaksKeeps ==
  ASSUME BoardInv, NEW j \in Jobs, StreamBreaks(j)
  PROVE  BoardInv'
<1>1. ServerInv' /\ Grown
  BY ServerRests DEF BoardInv, server, StreamBreaks
<1>2. UNCHANGED <<sep, list, fetch, watched, open, mine, post, asked, events>>
  BY DEF StreamBreaks, requests, server
<1>3. RowsInv' /\ KnownInv'
  BY <1>1, <1>2, RowsRest, KnownRest DEF BoardInv
<1>4. conn' \in [Jobs -> Conn] /\ \A i \in Jobs : conn'[i].on = "first" => conn'[i] = conn[i]
  BY ConnsAfter DEF BoardInv, JobsInv, StreamBreaks
<1>5. JobsInv'
  BY <1>1, <1>2, <1>4, JobsRest DEF BoardInv
<1>6. RestInv'
  BY <1>2, FaultCounted DEF BoardInv, RestInv, StreamBreaks
<1> QED BY <1>1, <1>3, <1>5, <1>6 DEF BoardInv

\* The first status of a stream is one its job had.
LEMMA ReadFirstKeeps ==
  ASSUME BoardInv, NEW j \in Jobs, ReadFirst(j)
  PROVE  BoardInv'
<1>1. ServerInv' /\ Grown
  BY ServerRests DEF BoardInv, server, ReadFirst
<1>2. conn[j].st \in had[j]
  BY DEF BoardInv, JobsInv, ReadFirst
<1>3. events' = events /\ UNCHANGED <<sep, open, requests, faults>>
  BY DEF ReadFirst, server
<1> QED BY <1>1, <1>2, <1>3, ConnsAfter, FrameKeeps DEF ReadFirst

\* An event read from the queue is one its job had.
LEMMA ReadEventKeeps ==
  ASSUME BoardInv, NEW j \in Jobs, ReadEvent(j)
  PROVE  BoardInv'
<1>1. ServerInv' /\ Grown /\ Head(queue[j]) \in had[j]
  BY TakenStep DEF BoardInv, ReadEvent, Taken
<1>2. events' = events /\ UNCHANGED <<sep, open, requests, faults>>
  BY DEF ReadEvent
<1>3. PICK o \in {"open", "closed"} : Frame(j, Head(queue[j]), [Off EXCEPT !.on = o])
  BY DEF ReadEvent
<1> QED BY <1>1, <1>2, <1>3, ConnsAfter, FrameKeeps

-----------------------------------------------------------------------------
(***************************************************************************)
(* The theorems.                                                           *)
(***************************************************************************)
\* The invariant holds at the start.
LEMMA BoardInit ==
  ASSUME Init PROVE BoardInv
<1>1. /\ NoRow \in Row /\ NoRow.job = NoJob /\ Off \in Conn /\ Off.on = "off"
      /\ Unused \in Post /\ Unused.on = "unused" /\ Unused.snap = {}
  BY DEF NoRow, Row, Off, Conn, Unused, Post, Status
<1>2. ServerInv
  BY <1>1 DEF Init, ServerInv, Exists, Status
<1>3. RowsInv
  BY <1>1, EmptyFetches DEF Init, RowsInv, Happened, Cache
<1>4. JobsInv
  BY <1>1 DEF Init, JobsInv
<1>5. KnownInv
  BY <1>1, EmptyFetches DEF Init, KnownInv, Optimistic
<1>6. RestInv
  <2>1. 0 \in 0..MaxEvents /\ 0 \in 0..MaxFaults
    BY BoundAssumption
  <2> QED BY <2>1 DEF Init, RestInv
<1> QED BY <1>2, <1>3, <1>4, <1>5, <1>6 DEF BoardInv

\* Every step keeps the invariant.
LEMMA BoardStep ==
  ASSUME BoardInv, [Next]_vars
  PROVE  BoardInv'
<1>1. CASE UNCHANGED vars
  BY <1>1 DEF vars, server, requests, BoardInv, ServerInv, RowsInv, JobsInv, KnownInv, RestInv,
     Exists, Made, Optimistic, Temp
<1>2. CASE Server
  <2>1. \A s \in Status \ {"PENDING"} : s \in Status
    OBVIOUS
  <2> QED BY <1>2, <2>1, PublishKeeps, PersistKeeps, ElsewhereKeeps, SettleKeeps, RestartKeeps DEF Server
<1>3. CASE Page
  BY <1>3, AskKeeps, LeaveKeeps, CreateKeeps, ClickKeeps DEF Page
<1>4. CASE Network
  BY <1>4, FetchServedKeeps, FetchStoredKeeps, FetchFailsKeeps, CreateServedKeeps,
     CreateSucceedsKeeps, CreateFailsKeeps, ClickSucceedsKeeps, ClickFailsKeeps DEF Network
<1>5. CASE \E j \in Jobs : Stream(j) \/ StreamBreaks(j) \/ Steal(j)
  BY <1>5, SubscribeKeeps, ReadFirstKeeps, ReadEventKeeps, StreamBreaksKeeps, StealKeeps DEF Stream
<1> QED BY <1>1, <1>2, <1>3, <1>4, <1>5 DEF Next

\* The invariant holds in every reachable state.
LEMMA BoardInvariance == Spec => []BoardInv
<1>1. Init => BoardInv
  BY BoardInit
<1>2. BoardInv /\ [Next]_vars => BoardInv'
  BY BoardStep
<1> QED BY <1>1, <1>2, PTL DEF Spec

\* The types of rows, caches, requests and streams.
THEOREM BoardTypes == Spec => []TypeOK
<1>1. BoardInv => TypeOK
  BY DEF BoardInv, ServerInv, RowsInv, JobsInv, RestInv, TypeOK, Made
<1> QED BY <1>1, BoardInvariance, PTL

\* No status is shown that the job did not have, however late events, answers
\* and snapshots come: everything that may become the list holds only such.
THEOREM ShownHappened == Spec => []ShownStatusHappened
<1>1. BoardInv => ShownStatusHappened
  BY DEF BoardInv, RowsInv, Happened, ShownStatusHappened
<1> QED BY <1>1, BoardInvariance, PTL

\* An answer to an older request does not wipe out a create: every request on
\* its way knows the creates that are shown, and those a snapshot may bring back.
THEOREM CreatesKept == Spec => OptimismKept
<1>1. BoardInv => AnswerKeepsCreates
  <2> SUFFICES ASSUME BoardInv, NEW u \in Hires, fetch.on = "answered",
                      Temp(u) \in list.rows
               PROVE  u \in fetch.knows
    BY DEF AnswerKeepsCreates
  <2> QED BY DEF BoardInv, KnownInv, Optimistic
<1> QED BY <1>1, BoardInvariance, PTL DEF OptimismKept
=============================================================================
