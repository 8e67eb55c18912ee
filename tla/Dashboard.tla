------------------------------ MODULE Dashboard ------------------------------
(***************************************************************************)
(* The dashboard: one request that runs a statement per section, each      *)
(* under its own snapshot of the database, a query that polls, and what    *)
(* the page makes of the answer.                                           *)
(*                                                                         *)
(* Devices, hires and the audit log change meanwhile; a scan changes many  *)
(* devices in one commit.  A health score is high, or low enough for an     *)
(* alert.  The history is that of one day, whose average is told by how    *)
(* many of its scores are low.                                             *)
(* A request stands for its attempt and up to three retries.               *)
(***************************************************************************)
EXTENDS Naturals, FiniteSets, FiniteSetsExt

CONSTANTS
  Devices,
  Hires,
  Weeks,        \* the weeks that the volume chart covers
  Entries,      \* audit entries, by their timestamps
  FeedSize,     \* entries in the feed
  MaxChanges,   \* bound on commits
  MaxFaults     \* bound on requests that fail for good

ASSUME EntryAssumption == Entries \subseteq Nat /\ IsFiniteSet(Entries)
ASSUME FiniteAssumption == IsFiniteSet(Devices) /\ IsFiniteSet(Hires) /\ IsFiniteSet(Weeks)
ASSUME BoundAssumption == FeedSize \in Nat /\ MaxChanges \in Nat /\ MaxFaults \in Nat

VARIABLES
  dev,       \* dev[d]: the status of device d
  strained,  \* devices whose latest health score is below the threshold
  scores,    \* scores[d]: how many scores device d has, and how many are low
  hire,      \* hire[u]: the week and the job status of hire u
  log,       \* committed audit entries
  open,      \* the page is mounted
  data,      \* the cache entry ["dashboard"]
  failed,    \* isError
  req,       \* the request: the statement that comes next, and the answer so far
  changes, faults

database == <<dev, strained, scores, hire, log>>
vars == <<database, open, data, failed, req, changes, faults>>

-----------------------------------------------------------------------------
DevStatus == {"none", "online", "offline", "unknown"}
\* open: PENDING, AD_CREATING, EMAIL_SENDING and JIRA_CREATING.
JobStatus == {"none", "open", "COMPLETED", "FAILED", "PARTIALLY_COMPLETE"}

Here(S) == {d \in Devices : dev[d] \in S}
Existing == Here(DevStatus \ {"none"})

\* A section that was not read yet is empty.
Volume == [Weeks -> [completed : Nat, inProgress : Nat, failed : Nat]]
NoVolume == [w \in Weeks |-> [completed |-> 0, inProgress |-> 0, failed |-> 0]]
Scores == [all : Nat, low : Nat]
NoScores == [all |-> 0, low |-> 0]
Snapshot == [loaded : BOOLEAN, total : Nat, online : Nat, offline : Nat, alerts : Nat, trend : Scores,
             os : Nat, volume : Volume, feed : SUBSET Entries]
NoSnapshot == [loaded |-> FALSE, total |-> 0, online |-> 0, offline |-> 0, alerts |-> 0, trend |-> NoScores,
               os |-> 0, volume |-> NoVolume, feed |-> {}]
Request == [at : {"no", "counts", "alerts", "trend", "os", "volume", "feed", "answered"}, snap : Snapshot]
NoRequest == [at |-> "no", snap |-> NoSnapshot]
SentRequest == [NoRequest EXCEPT !.at = "counts"]

TypeOK ==
  /\ dev \in [Devices -> DevStatus]
  /\ strained \subseteq Existing
  /\ scores \in [Devices -> Scores]
  /\ hire \in [Hires -> [week : Weeks, st : JobStatus]]
  /\ log \subseteq Entries
  /\ open \in BOOLEAN /\ failed \in BOOLEAN
  /\ data \in Snapshot /\ Cardinality(data.feed) <= FeedSize
  /\ req \in Request
  /\ changes \in 0..MaxChanges /\ faults \in 0..MaxFaults

Init ==
  /\ dev \in [Devices -> DevStatus]
  /\ hire \in [Hires -> [week : Weeks, st : JobStatus]]
  /\ strained = {} /\ scores = [d \in Devices |-> NoScores] /\ log = {}
  /\ open = FALSE /\ failed = FALSE
  /\ data = NoSnapshot /\ req = NoRequest
  /\ changes = 0 /\ faults = 0

-----------------------------------------------------------------------------
(***************************************************************************)
(* What commits meanwhile.                                                 *)
(***************************************************************************)
Commit == changes < MaxChanges /\ changes' = changes + 1

\* A scan: hosts that answered get a score, the others keep the one they had.
Scan(up, low) ==
  /\ Commit
  /\ low \subseteq up
  /\ dev' = [d \in Devices |-> IF d \in up THEN "online"
                              ELSE IF dev[d] = "none" THEN "none" ELSE "offline"]
  /\ strained' = (strained \ up) \cup low
  /\ scores' = [d \in Devices |->
                  [all |-> scores[d].all + (IF d \in up THEN 1 ELSE 0),
                   low |-> scores[d].low + (IF d \in low THEN 1 ELSE 0)]]
  /\ UNCHANGED <<hire, log, open, data, failed, req, faults>>
\* An administrator creates, patches or deletes a device, its history with it.
Edit(d, s) ==
  /\ Commit
  /\ dev[d] # s /\ dev' = [dev EXCEPT ![d] = s]
  /\ strained' = IF s = "none" THEN strained \ {d} ELSE strained
  /\ scores' = IF s = "none" THEN [scores EXCEPT ![d] = NoScores] ELSE scores
  /\ UNCHANGED <<hire, log, open, data, failed, req, faults>>
\* A pipeline, a callback, a sweep, or a rollback.
HireMoves(u, s) ==
  /\ Commit
  /\ hire[u].st # s /\ hire' = [hire EXCEPT ![u].st = s]
  /\ UNCHANGED <<dev, strained, scores, log, open, data, failed, req, faults>>
Logged(e) ==
  /\ Commit
  /\ e \notin log /\ log' = log \cup {e}
  /\ UNCHANGED <<dev, strained, scores, hire, open, data, failed, req, faults>>

-----------------------------------------------------------------------------
(***************************************************************************)
(* get_snapshot: the statements one after the other.                       *)
(***************************************************************************)
Read(now, next, snap) ==
  /\ req.at = now
  /\ req' = [at |-> next, snap |-> snap]
  /\ UNCHANGED <<database, open, data, failed, changes, faults>>

\* A variant with a statement of its own for the two states.
ReadOsAndStates ==
  Read("os", "volume", [req.snap EXCEPT !.os = Cardinality(Existing),
                                        !.online = Cardinality(Here({"online"})),
                                        !.offline = Cardinality(Here({"offline"}))])
\* get_device_counts: one statement for the three numbers, one for the alerts.
ReadCounts ==
  Read("counts", "alerts", [req.snap EXCEPT !.total = Cardinality(Existing),
                                            !.online = Cardinality(Here({"online"})),
                                            !.offline = Cardinality(Here({"offline"}))])
ReadAlerts == Read("alerts", "trend", [req.snap EXCEPT !.alerts = Cardinality(strained)])
\* The sum of one field of F over S.
Total(F, field, S) == MapThenSumSet(LAMBDA x : F[x][field], S)
\* GROUP BY day: the scores of every device.
Measured == [all |-> Total(scores, "all", Devices), low |-> Total(scores, "low", Devices)]
ReadTrend == Read("trend", "os", [req.snap EXCEPT !.trend = Measured])
ReadOs == Read("os", "volume", [req.snap EXCEPT !.os = Cardinality(Existing)])

InWeek(w, s) == Cardinality({u \in Hires : hire[u].week = w /\ hire[u].st = s})
ReadVolume ==
  Read("volume", "feed",
       [req.snap EXCEPT !.volume = [w \in Weeks |-> [completed |-> InWeek(w, "COMPLETED"),
                                                     inProgress |-> InWeek(w, "open"),
                                                     failed |-> InWeek(w, "FAILED")]]])
\* A variant with one entry too many.
NewestOneMore == {e \in log : Cardinality({f \in log : f > e}) <= FeedSize}
\* ORDER BY timestamp DESC LIMIT.
Newest == {e \in log : Cardinality({f \in log : f > e}) < FeedSize}
ReadFeed ==
  Read("feed", "answered", [req.snap EXCEPT !.feed = Newest, !.loaded = TRUE])

-----------------------------------------------------------------------------
(***************************************************************************)
(* useDashboard and the page.                                              *)
(***************************************************************************)
Idle == req.at = "no"

\* Data is fresh for as long as the poll waits; when that is over is left open.
Open ==
  /\ ~ open /\ open' = TRUE
  /\ \/ req' = IF Idle THEN SentRequest ELSE req
     \/ data.loaded /\ UNCHANGED req
  /\ UNCHANGED <<database, data, failed, changes, faults>>
Leave ==
  /\ open /\ open' = FALSE
  /\ UNCHANGED <<database, data, failed, req, changes, faults>>
\* A variant without refetchInterval.
NoPoll == FALSE /\ UNCHANGED vars
Poll ==
  /\ open /\ Idle
  /\ req' = SentRequest
  /\ UNCHANGED <<database, open, data, failed, changes, faults>>

Stored ==
  /\ req.at = "answered"
  /\ data' = req.snap /\ failed' = FALSE
  /\ req' = NoRequest
  /\ UNCHANGED <<database, open, changes, faults>>
\* What was shown stays, below the error.
Fails ==
  /\ ~ Idle /\ faults < MaxFaults /\ faults' = faults + 1
  /\ failed' = TRUE
  /\ req' = NoRequest
  /\ UNCHANGED <<database, open, data, changes>>

\* isLoading, and the error with its button: with data at hand a new request
\* takes the place of the one on its way.
Loading == ~ data.loaded /\ ~ Idle
ErrorShown == open /\ failed /\ ~ Loading
Retry ==
  /\ ErrorShown
  /\ req' = SentRequest
  /\ UNCHANGED <<database, open, data, failed, changes, faults>>

\* StatsRow, HealthTrendSection, OSDistributionSection, OnboardingVolumeChart and
\* AuditActivityFeed.
Cards(s) == [total |-> s.total, online |-> s.online, offline |-> s.offline, alerts |-> s.alerts]
\* A day without scores has no point.
Points(t) == IF t.all = 0 THEN {} ELSE {t}
Trend(s) == Points(s.trend)
OsTotal(s) == s.os
Summary(s) == [completed |-> Total(s.volume, "completed", Weeks),
               inProgress |-> Total(s.volume, "inProgress", Weeks),
               failed |-> Total(s.volume, "failed", Weeks)]
Feed(s) == s.feed

Next ==
  \/ \E up, low \in SUBSET Devices : Scan(up, low)
  \/ \E d \in Devices, s \in DevStatus : Edit(d, s)
  \/ \E u \in Hires, s \in JobStatus : HireMoves(u, s)
  \/ \E e \in Entries : Logged(e)
  \/ ReadCounts \/ ReadAlerts \/ ReadTrend \/ ReadOs \/ ReadVolume \/ ReadFeed
  \/ Open \/ Leave \/ Poll \/ Stored \/ Fails \/ Retry

Spec == Init /\ [][Next]_vars

\* The tab is in the foreground, so the poll's timer fires; the server answers.
Fairness ==
  /\ WF_vars(Poll) /\ WF_vars(Stored)
  /\ WF_vars(ReadCounts \/ ReadAlerts \/ ReadTrend \/ ReadOs \/ ReadVolume \/ ReadFeed)
FairSpec == Spec /\ Fairness

-----------------------------------------------------------------------------
(***************************************************************************)
(* Properties.                                                             *)
(***************************************************************************)

\* Whatever commits between the statements of a snapshot, the cards never show
\* more devices up and down than there are, and the volume chart counts no
\* hire twice while the hire moves from one state to the next.
CountsAddUp ==
  LET cards == Cards(data)
      sum == Summary(data)
  IN /\ cards.online + cards.offline <= cards.total
     /\ sum.completed + sum.inProgress + sum.failed <= Cardinality(Hires)

\* What the page shows when nothing was committed since its statements ran.
UpToDate ==
  /\ data.loaded
  /\ Cards(data) = [total |-> Cardinality(Existing), online |-> Cardinality(Here({"online"})),
                    offline |-> Cardinality(Here({"offline"})), alerts |-> Cardinality(strained)]
  /\ Trend(data) = Points(Measured)
  /\ OsTotal(data) = Cardinality(Existing)
  /\ Summary(data).completed = Cardinality({u \in Hires : hire[u].st = "COMPLETED"})
  /\ Feed(data) = Newest

\* A dashboard that stays open ends up showing the database in every section,
\* however its statements were torn apart and whatever requests failed; unless
\* the retry button, which restarts a request, is pressed for ever.
DashboardConverges == <>[]open /\ <>[][~ Retry]_vars => <>[]UpToDate
=============================================================================
