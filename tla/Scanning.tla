------------------------------ MODULE Scanning ------------------------------
(***************************************************************************)
(* Network discovery: scan jobs started by an administrator's browser or   *)
(* by the scheduler, the per-host tasks of one scan, the transaction that  *)
(* upserts the devices, the progress queue behind the SSE stream, and the  *)
(* useScanStream hook that reads it.  Administrators edit devices through  *)
(* the device endpoints meanwhile.                                         *)
(*                                                                         *)
(* A step is the code between two awaits, or one SQL statement.  Entries   *)
(* of audit_log are left out: write_audit_log never raises, the data it    *)
(* might roll back is committed already, and nothing here reads them.      *)
(***************************************************************************)
EXTENDS Naturals, Sequences, FiniteSets

CONSTANTS
  Addrs,          \* host addresses
  Subnets,        \* the subnets that may be requested
  Scans,          \* scan job ids
  Hooks,          \* mounted useScanStream hooks
  NoScan,
  MaxConcurrent,  \* MAX_CONCURRENT_SCANS
  MaxEdits,       \* bound on administrators' device edits
  MaxCrashes      \* bound on process restarts

ASSUME AddrAssumption == Addrs \subseteq Nat /\ IsFiniteSet(Addrs)
ASSUME SubnetAssumption == Subnets \subseteq SUBSET Addrs
ASSUME ScanAssumption == NoScan \notin Scans /\ IsFiniteSet(Scans)
ASSUME LimitAssumption ==
  MaxConcurrent \in Nat \ {0} /\ MaxEdits \in Nat /\ MaxCrashes \in Nat

VARIABLES
  dev,     \* dev[a]: the committed row of the device with address a
  scan,    \* scan[j]: the job and the run_scan task of scan j
  host,    \* host[j][a]: how far scan_host(a) of scan j is
  queue,   \* queue[j]: the progress queue of scan j
  lock,    \* lock[a]: the scan whose open transaction has written row a
  saved,   \* scans whose transaction has committed
  ui,      \* ui[h]: the state of hook h
  edits, crashes

vars == <<dev, scan, host, queue, lock, saved, ui, edits, crashes>>
work == <<scan, host, queue, saved>>

-----------------------------------------------------------------------------
Status == {"online", "offline", "unknown"}
\* from: the scan that inserted the row, NoScan for an administrator's.
Row == [st : Status \cup {"none"}, from : Scans \cup {NoScan}]
NoRow == [st |-> "none", from |-> NoScan]
Exists(a) == dev[a].st # "none"

\* count is scanned_count, rest the results still to be upserted.
Scan == [pc : {"none", "hosts", "write", "audit", "over"},
         status : {"none", "running", "complete", "error", "gone"},
         sched : BOOLEAN, count : 0..Cardinality(Addrs), rest : SUBSET Addrs]
NoScanYet == [pc |-> "none", status |-> "none", sched |-> FALSE, count |-> 0,
              rest |-> {}]

HostState == {"out", "todo", "ping", "os", "up", "down", "lost"}
Event == [event : {"progress", "complete", "error"}, n : 0..Cardinality(Addrs)]
\* ended: the body of the stream has ended and is no longer read.
Hook == [status : {"idle", "starting", "scanning", "complete", "error"},
         job : Scans \cup {NoScan}, ended : BOOLEAN,
         scanned : 0..Cardinality(Addrs), found : 0..Cardinality(Addrs)]
IdleHook == [status |-> "idle", job |-> NoScan, ended |-> FALSE, scanned |-> 0,
             found |-> 0]

TypeOK ==
  /\ dev \in [Addrs -> Row]
  /\ scan \in [Scans -> Scan]
  /\ host \in [Scans -> [Addrs -> HostState]]
  /\ queue \in [Scans -> Seq(Event)]
  /\ lock \in [Addrs -> Scans \cup {NoScan}]
  /\ saved \subseteq Scans
  /\ ui \in [Hooks -> Hook]
  /\ edits \in 0..MaxEdits
  /\ crashes \in 0..MaxCrashes

Init ==
  /\ dev = [a \in Addrs |-> NoRow]
  /\ scan = [j \in Scans |-> NoScanYet]
  /\ host = [j \in Scans |-> [a \in Addrs |-> "out"]]
  /\ queue = [j \in Scans |-> <<>>]
  /\ lock = [a \in Addrs |-> NoScan]
  /\ saved = {}
  /\ ui = [h \in Hooks |-> IdleHook]
  /\ edits = 0
  /\ crashes = 0

-----------------------------------------------------------------------------
(***************************************************************************)
(* Starting a scan: POST /scan or the scheduled discovery scan.            *)
(***************************************************************************)
Begin(j, net, sched) ==
  /\ scan[j].pc = "none"
  /\ scan' = [scan EXCEPT ![j] = [NoScanYet EXCEPT !.pc = "hosts", !.status = "running",
                                                  !.sched = sched]]
  /\ host' = [host EXCEPT ![j] = [a \in Addrs |-> IF a \in net THEN "todo" ELSE "out"]]

\* max_instances = 1: no second discovery scan while one runs.
Scheduled(j, net) ==
  /\ \A k \in Scans : scan[k].sched => scan[k].pc \in {"none", "over"}
  /\ Begin(j, net, TRUE)
  /\ UNCHANGED <<dev, queue, lock, saved, ui, edits, crashes>>

\* A scan that another administrator's browser started and watches.
Elsewhere(j, net) ==
  /\ Begin(j, net, FALSE)
  /\ UNCHANGED <<dev, queue, lock, saved, ui, edits, crashes>>

\* startScan: returns early while busy; aborts the old stream and posts.
StartScan(h) ==
  /\ ui[h].status \in {"idle", "complete", "error"}
  /\ ui' = [ui EXCEPT ![h] = [IdleHook EXCEPT !.status = "starting"]]
  /\ UNCHANGED <<work, dev, lock, edits, crashes>>

Post(h, j, net) ==
  /\ ui[h].status = "starting" /\ ui[h].job = NoScan
  /\ Begin(j, net, FALSE)
  /\ ui' = [ui EXCEPT ![h].job = j]
  /\ UNCHANGED <<dev, queue, lock, saved, edits, crashes>>

\* The answer arrives and the stream is opened, or the request fails: it was
\* refused (403, 429), or its answer was lost and the scan runs unwatched.
Posted(h) ==
  /\ ui[h].status = "starting"
  /\ \/ ui[h].job # NoScan /\ ui' = [ui EXCEPT ![h].status = "scanning"]
     \/ ui' = [ui EXCEPT ![h] = [IdleHook EXCEPT !.status = "error"]]
  /\ UNCHANGED <<work, dev, lock, edits, crashes>>

-----------------------------------------------------------------------------
(***************************************************************************)
(* async_scan_subnet: one task per host, MaxConcurrent of them at a time.  *)
(***************************************************************************)
Active(j) == {a \in Addrs : host[j][a] \in {"ping", "os"}}

HostStart(j, a) ==
  /\ scan[j].pc = "hosts" /\ host[j][a] = "todo"
  /\ Cardinality(Active(j)) < MaxConcurrent
  /\ host' = [host EXCEPT ![j][a] = "ping"]
  /\ UNCHANGED <<dev, scan, queue, lock, saved, ui, edits, crashes>>

\* A variant that reports the position of the host instead of the count.
HostDoneAtIndex(j, a, r) ==
  LET n == Cardinality({b \in Addrs : b <= a /\ host[j][b] # "out"})
  IN /\ host' = [host EXCEPT ![j][a] = r]
     /\ scan' = [scan EXCEPT ![j].count = @ + 1]
     /\ queue' = IF r = "lost" THEN queue
                 ELSE [queue EXCEPT ![j] = Append(@, [event |-> "progress", n |-> n])]

\* The count is taken under count_lock and enqueued without an await between;
\* a host whose ping raised counts but has no result and no event.
HostDone(j, a, r) ==
  LET n == scan[j].count + 1
  IN /\ host' = [host EXCEPT ![j][a] = r]
     /\ scan' = [scan EXCEPT ![j].count = n]
     /\ queue' = IF r = "lost" THEN queue
                 ELSE [queue EXCEPT ![j] = Append(@, [event |-> "progress", n |-> n])]

\* A variant that counts a host that answered twice.
PingDoneCounted(j, a) ==
  /\ scan[j].pc = "hosts" /\ host[j][a] = "ping"
  /\ \E r \in {"os", "down", "lost"} : HostDone(j, a, r)
  /\ UNCHANGED <<dev, lock, saved, ui, edits, crashes>>

\* A host that answers goes on to the OS and port scan in the same slot.
PingDone(j, a) ==
  /\ scan[j].pc = "hosts" /\ host[j][a] = "ping"
  /\ \/ host' = [host EXCEPT ![j][a] = "os"] /\ UNCHANGED <<scan, queue>>
     \/ \E r \in {"down", "lost"} : HostDone(j, a, r)
  /\ UNCHANGED <<dev, lock, saved, ui, edits, crashes>>

OsDone(j, a) ==
  /\ scan[j].pc = "hosts" /\ host[j][a] = "os"
  /\ HostDone(j, a, "up")
  /\ UNCHANGED <<dev, lock, saved, ui, edits, crashes>>

Ups(j) == {a \in Addrs : host[j][a] = "up"}
Results(j) == {a \in Addrs : host[j][a] \in {"up", "down"}}

\* gather has returned: the upserts begin.
Gathered(j) ==
  /\ scan[j].pc = "hosts"
  /\ \A a \in Addrs : host[j][a] \notin {"todo", "ping", "os"}
  /\ scan' = [scan EXCEPT ![j].pc = "write", ![j].rest = Results(j)]
  /\ UNCHANGED <<dev, host, queue, lock, saved, ui, edits, crashes>>

-----------------------------------------------------------------------------
(***************************************************************************)
(* run_scan: one transaction upserts all results in host order.            *)
(***************************************************************************)
\* A variant that upserts in the order in which hosts finished.
NextResultAny(j) == scan[j].rest
NextResult(j) == {a \in scan[j].rest : \A b \in scan[j].rest : a <= b}

\* A variant that inserts hosts that did not answer.
TouchesAlways(j, a) == host[j][a] \in {"up", "down"}
\* INSERT ... ON CONFLICT for an online host, UPDATE only for an offline one;
\* an UPDATE sees no row that another transaction has not committed.
Touches(j, a) == host[j][a] = "up" \/ Exists(a)
Waits(j, a) == Touches(j, a) /\ lock[a] \notin {NoScan, j}

Upsert(j, a) ==
  /\ scan[j].pc = "write" /\ a \in NextResult(j)
  /\ ~ Waits(j, a)
  /\ scan' = [scan EXCEPT ![j].rest = @ \ {a}]
  /\ lock' = IF Touches(j, a) THEN [lock EXCEPT ![a] = j] ELSE lock
  /\ UNCHANGED <<dev, host, queue, saved, ui, edits, crashes>>

Released(j) == [a \in Addrs |-> IF lock[a] = j THEN NoScan ELSE lock[a]]
Written(j) ==
  [a \in Addrs |->
     IF lock[a] # j THEN dev[a]
     ELSE [st |-> IF host[j][a] = "up" THEN "online" ELSE "offline",
           from |-> IF Exists(a) THEN dev[a].from ELSE j]]

\* A variant whose rollback handler does not raise again.
CommitSwallowed(j) ==
  /\ \/ dev' = Written(j) /\ saved' = saved \cup {j}
     \/ UNCHANGED <<dev, saved>>
  /\ lock' = Released(j)
  /\ scan' = [scan EXCEPT ![j].pc = "audit"]
  /\ UNCHANGED queue
Commit(j) ==
  /\ dev' = Written(j)
  /\ saved' = saved \cup {j}
  /\ lock' = Released(j)
  /\ scan' = [scan EXCEPT ![j].pc = "audit"]
  /\ UNCHANGED queue
CommitResults(j) ==
  /\ scan[j].pc = "write" /\ scan[j].rest = {}
  /\ Commit(j)
  /\ UNCHANGED <<host, ui, edits, crashes>>

\* Status and event change together once the audit entry was attempted.
Complete(j) ==
  /\ scan[j].pc = "audit"
  /\ scan' = [scan EXCEPT ![j].pc = "over", ![j].status = "complete"]
  /\ queue' = [queue EXCEPT ![j] =
                 Append(@, [event |-> "complete", n |-> Cardinality(Ups(j))])]
  /\ UNCHANGED <<dev, host, lock, saved, ui, edits, crashes>>

\* A variant that forgets to tell the stream.
ReportErrorSilently(j) == queue' = queue
ReportError(j) == queue' = [queue EXCEPT ![j] = Append(@, [event |-> "error", n |-> 0])]
\* A statement or the commit raises; the commit may have taken effect when
\* its answer was lost.
Fail(j) ==
  /\ scan[j].pc = "write"
  /\ \/ UNCHANGED <<dev, saved>>
     \/ scan[j].rest = {} /\ dev' = Written(j) /\ saved' = saved \cup {j}
  /\ lock' = Released(j)
  /\ scan' = [scan EXCEPT ![j].pc = "over", ![j].status = "error"]
  /\ ReportError(j)
  /\ UNCHANGED <<host, ui, edits, crashes>>

-----------------------------------------------------------------------------
(***************************************************************************)
(* stream_scan_progress and the hook.  The user interface opens one stream *)
(* per job, so the queue has a single reader.                              *)
(***************************************************************************)
Shown(h, e) ==
  CASE e.event = "progress" -> [ui[h] EXCEPT !.scanned = e.n]
    [] e.event = "complete" -> [ui[h] EXCEPT !.status = "complete", !.found = e.n]
    [] e.event = "error" -> [ui[h] EXCEPT !.status = "error"]

\* openEventStream, its loop over whole frames: one is there to be read.
Streaming(h) == ui[h].status = "scanning" /\ ~ ui[h].ended
FrameReady(h) ==
  /\ Streaming(h)
  /\ scan[ui[h].job].status # "gone" /\ queue[ui[h].job] # <<>>

Deliver(h) ==
  LET j == ui[h].job
  IN /\ FrameReady(h)
     /\ ui' = [ui EXCEPT ![h] = Shown(h, Head(queue[j]))]
     /\ queue' = [queue EXCEPT ![j] = Tail(@)]
     /\ UNCHANGED <<dev, scan, host, lock, saved, edits, crashes>>

\* The connection breaks, or the restarted process answers 404: fetch or read
\* rejects and onError shows it.
StreamFails(h) ==
  /\ Streaming(h)
  /\ ui' = [ui EXCEPT ![h].status = "error"]
  /\ UNCHANGED <<work, dev, lock, edits, crashes>>
\* The body just ends, complete or cut short by a proxy or a restart: read
\* answers done, onClose is called, and the hook has not passed one.
StreamEnds(h) ==
  /\ Streaming(h)
  /\ ui' = [ui EXCEPT ![h].ended = TRUE]
  /\ UNCHANGED <<work, dev, lock, edits, crashes>>
StreamGone(h) ==
  /\ ui[h].job \in Scans /\ scan[ui[h].job].status = "gone"
  /\ StreamFails(h) \/ StreamEnds(h)

\* The dialog of a running scan can only be put aside, which changes nothing;
\* closing it on a result is dismissResult.
Closable(h) == ui[h].status \in {"complete", "error"}
Dismiss(h) ==
  /\ Closable(h)
  /\ ui' = [ui EXCEPT ![h] = IdleHook]
  /\ UNCHANGED <<work, dev, lock, edits, crashes>>
\* The page is left and its state with it; the stream reads on for nobody.
LeavePage(h) ==
  /\ ui[h].status \in {"starting", "scanning"}
  /\ ui' = [ui EXCEPT ![h] = IdleHook]
  /\ UNCHANGED <<work, dev, lock, edits, crashes>>

-----------------------------------------------------------------------------
(***************************************************************************)
(* The device endpoints.  Each is one single-row transaction that waits    *)
(* for a scan that has written the row.                                    *)
(***************************************************************************)
Edit(a) ==
  /\ edits < MaxEdits /\ edits' = edits + 1
  /\ lock[a] = NoScan
  /\ UNCHANGED <<work, lock, ui, crashes>>

CreateDevice(a, s) ==
  /\ Edit(a) /\ ~ Exists(a)
  /\ dev' = [dev EXCEPT ![a] = [NoRow EXCEPT !.st = s]]
UpdateDevice(a, s) ==
  /\ Edit(a) /\ Exists(a)
  /\ dev' = [dev EXCEPT ![a].st = s]
DeleteDevice(a) ==
  /\ Edit(a) /\ Exists(a)
  /\ dev' = [dev EXCEPT ![a] = NoRow]

\* A restart ends every task, forgets every job and aborts open transactions.
Crash ==
  /\ crashes < MaxCrashes /\ crashes' = crashes + 1
  /\ scan' = [j \in Scans |-> IF scan[j].pc = "none" THEN scan[j]
                              ELSE [scan[j] EXCEPT !.pc = "over", !.status = "gone"]]
  /\ queue' = [j \in Scans |-> <<>>]
  /\ lock' = [a \in Addrs |-> NoScan]
  /\ UNCHANGED <<dev, host, saved, ui, edits>>

RunScan(j) ==
  \/ \E a \in Addrs : HostStart(j, a) \/ PingDone(j, a) \/ OsDone(j, a) \/ Upsert(j, a)
  \/ Gathered(j) \/ CommitResults(j) \/ Complete(j) \/ Fail(j)
Browser(h) ==
  \/ StartScan(h) \/ Posted(h) \/ Deliver(h) \/ StreamFails(h) \/ StreamEnds(h)
  \/ Dismiss(h) \/ LeavePage(h)
  \/ \E j \in Scans, net \in Subnets : Post(h, j, net)
Administrator ==
  \E a \in Addrs : \/ \E s \in Status : CreateDevice(a, s) \/ UpdateDevice(a, s)
                   \/ DeleteDevice(a)
Next ==
  \/ \E j \in Scans : RunScan(j)
  \/ \E j \in Scans, net \in Subnets : Scheduled(j, net) \/ Elsewhere(j, net)
  \/ \E h \in Hooks : Browser(h)
  \/ Administrator
  \/ Crash

Spec == Init /\ [][Next]_vars

\* Tasks are scheduled, nmap returns, transactions end; the POST is answered
\* or times out, an open stream delivers and a dead one is noticed.
Fairness ==
  /\ \A j \in Scans : WF_vars(RunScan(j))
  /\ \A h \in Hooks : WF_vars(Posted(h)) /\ WF_vars(Deliver(h)) /\ WF_vars(StreamGone(h))
FairSpec == Spec /\ Fairness

-----------------------------------------------------------------------------
(***************************************************************************)
(* Properties.                                                             *)
(***************************************************************************)

\* When the dialog reports a finished scan, its rows are committed, so the
\* refetch it triggers sees them, and the number shown is the hosts online.
CompleteIsSaved ==
  \A h \in Hooks : ui[h].status = "complete" =>
    ui[h].job \in saved /\ ui[h].found = Cardinality(Ups(ui[h].job))

\* "A non-response must never create a row": a row a scan inserted belongs to
\* a host that answered that scan, also when an administrator deletes devices
\* while the scan runs.
NoGhosts ==
  \A a \in Addrs : dev[a].from # NoScan => host[dev[a].from][a] = "up"

\* Overlapping scans never wait for each other in a circle, whatever subnets
\* they share: Postgres would abort one of them as a deadlock victim.
WaitsFor(j, k) == scan[j].pc = "write" /\ \E a \in NextResult(j) : Waits(j, a) /\ lock[a] = k
NoLockCycle ==
  \A S \in (SUBSET Scans) \ {{}} : \E j \in S : \A k \in S : ~ WaitsFor(j, k)

\* The hosts-scanned counter the user sees never moves back during a scan,
\* although the hosts finish in any order.
ProgressForward ==
  [][\A h \in Hooks : ui[h].status = "scanning" /\ ui'[h].status = "scanning" =>
       ui'[h].scanned >= ui[h].scanned]_vars

\* A user who waits for a scan is told its end, also when the scan fails, its
\* commit does or the server restarts, as long as the stream reports its own
\* end.  A body that just ends is the exception: nobody listens to onClose, the
\* hook stays at "scanning" and startScan refuses until the page is left.
WatcherTold ==
  \A h \in Hooks : ui[h].status \in {"starting", "scanning"} ~>
                   ui[h].status \notin {"starting", "scanning"} \/ ui[h].ended
=============================================================================
