--------------------------- MODULE ScanningProofs ---------------------------
(***************************************************************************)
(* What scans insert, report and wait for, for any addresses, subnets,     *)
(* numbers of scans and hooks, edits and restarts.                         *)
(***************************************************************************)
EXTENDS Scanning, FiniteSetTheorems, SequenceTheorems, WellFoundedInduction, TLAPS

\* The hosts of a scan that are through; the count is theirs.
Answered(j) == {a \in Addrs : host[j][a] \in {"up", "down", "lost"}}
Counted == \A j \in Scans : scan[j].pc = "hosts" => scan[j].count = Cardinality(Answered(j))

\* A row is locked by a scan that is upserting; the scan inserts it only for a
\* host that answered, and all rows it has still to come to lie behind.
Locks ==
  \A a \in Addrs : LET j == lock[a] IN j # NoScan =>
    /\ scan[j].pc = "write"
    /\ host[j][a] = "up" \/ Exists(a)
    /\ \A b \in scan[j].rest : a < b

\* A scan that inserted a row, or is committed, has its results.
Settled(j) == scan[j].pc \in {"write", "audit", "over"}
InsertedSettled == \A a \in Addrs : dev[a].from # NoScan => Settled(dev[a].from)
SavedSettled ==
  /\ \A j \in saved : Settled(j)
  /\ \A j \in Scans : scan[j].pc = "audit" => j \in saved

\* What "complete" says, in the queue and in the dialog.
Saved(j, n) == j \in saved /\ n = Cardinality(Ups(j))
QueueTrue ==
  \A j \in Scans : \A i \in 1..Len(queue[j]) :
    queue[j][i].event = "complete" => Saved(j, queue[j][i].n)
HooksHaveJobs == \A h \in Hooks : ui[h].status = "scanning" => ui[h].job \in Scans

ScanInv ==
  /\ TypeOK /\ Counted /\ Locks
  /\ NoGhosts /\ InsertedSettled /\ SavedSettled
  /\ QueueTrue /\ HooksHaveJobs /\ CompleteIsSaved

-----------------------------------------------------------------------------
(***************************************************************************)
(* The numbers of hosts.                                                   *)
(***************************************************************************)
\* A set of hosts has at most as many members as there are addresses.
LEMMA HostCount ==
  ASSUME NEW S \in SUBSET Addrs
  PROVE  IsFiniteSet(S) /\ Cardinality(S) \in 0..Cardinality(Addrs)
<1>1. IsFiniteSet(S) /\ Cardinality(S) <= Cardinality(Addrs)
  BY AddrAssumption, FS_Subset
<1>2. Cardinality(S) \in Nat /\ Cardinality(Addrs) \in Nat
  BY <1>1, AddrAssumption, FS_CardinalityType
<1> QED BY <1>1, <1>2

\* One more host is through.
LEMMA CountRises ==
  ASSUME TypeOK, Counted, NEW j \in Scans, NEW a \in Addrs, scan[j].pc = "hosts",
         host[j][a] \in {"ping", "os"}
  PROVE  /\ scan[j].count + 1 = Cardinality(Answered(j) \cup {a})
         /\ scan[j].count + 1 \in 0..Cardinality(Addrs)
<1>1. Answered(j) \in SUBSET Addrs /\ a \notin Answered(j)
  BY DEF Answered
<1>2. IsFiniteSet(Answered(j)) /\ Answered(j) \cup {a} \in SUBSET Addrs
  BY <1>1, HostCount
<1>3. Cardinality(Answered(j) \cup {a}) = Cardinality(Answered(j)) + 1
  BY <1>1, <1>2, FS_AddElement
<1>4. Cardinality(Answered(j) \cup {a}) \in 0..Cardinality(Addrs)
  BY <1>2, HostCount
<1> QED BY <1>3, <1>4 DEF Counted

-----------------------------------------------------------------------------
(***************************************************************************)
(* What the steps do to jobs, hosts and queues.                            *)
(***************************************************************************)
\* One job changes.
ScanBecomes(j, r) ==
  /\ r \in Scan
  /\ scan' \in [Scans -> Scan]
  /\ \A k \in Scans : scan'[k] = IF k = j THEN r ELSE scan[k]
\* An event is queued.
Queued(j, e) ==
  /\ queue' \in [Scans -> Seq(Event)]
  /\ queue'[j] = Append(queue[j], e)
  /\ \A k \in Scans : k # j => queue'[k] = queue[k]
  /\ \A i \in 1..Len(queue'[j]) : queue'[j][i] = e \/ \E m \in 1..Len(queue[j]) : queue'[j][i] = queue[j][m]

\* One job is replaced by another record.
LEMMA ScanSet ==
  ASSUME TypeOK, NEW j \in Scans, NEW r \in Scan, scan' = [scan EXCEPT ![j] = r]
  PROVE  ScanBecomes(j, r)
BY DEF TypeOK, ScanBecomes

\* An event is appended to one queue.
LEMMA QueueSet ==
  ASSUME TypeOK, NEW j \in Scans, NEW e \in Event,
         queue' = [queue EXCEPT ![j] = Append(queue[j], e)]
  PROVE  Queued(j, e)
<1>1. queue[j] \in Seq(Event)
  BY DEF TypeOK
<1> DEFINE q == queue[j]
           s == Append(q, e)
<1> HIDE DEF q
<1>2. /\ s \in Seq(Event) /\ Len(s) = Len(q) + 1 /\ Len(q) \in Nat
      /\ \A i \in 1..Len(q) : s[i] = q[i]
      /\ s[Len(q) + 1] = e
  BY <1>1, AppendProperties, LenProperties DEF q
<1> HIDE DEF s
<1>3. \A i \in 1..Len(s) : s[i] = e \/ \E m \in 1..Len(q) : s[i] = q[m]
  <2> TAKE i \in 1..Len(s)
  <2>1. CASE i = Len(q) + 1
    BY <1>2, <2>1
  <2>2. CASE i # Len(q) + 1
    <3>1. i \in 1..Len(q)
      BY <1>2, <2>2
    <3> QED BY <1>2, <3>1
  <2> QED BY <2>1, <2>2
<1>4. queue' = [queue EXCEPT ![j] = s]
  BY DEF s, q
<1>5. queue'[j] = s /\ (\A k \in Scans : k # j => queue'[k] = queue[k])
      /\ queue' \in [Scans -> Seq(Event)]
  BY <1>2, <1>4 DEF TypeOK
<1>6. s = Append(queue[j], e)
  BY DEF s, q
<1> QED BY <1>3, <1>5, <1>6 DEF Queued, q

\* A scan begins with none of its hosts through.
LEMMA BeginScan ==
  ASSUME TypeOK, NEW j \in Scans, NEW net \in Subnets, NEW sched \in BOOLEAN, Begin(j, net, sched)
  PROVE  /\ ScanBecomes(j, [pc |-> "hosts", status |-> "running", sched |-> sched,
                            count |-> 0, rest |-> {}])
         /\ scan[j].pc = "none"
         /\ host' \in [Scans -> [Addrs -> HostState]]
         /\ \A k \in Scans : k # j => host'[k] = host[k]
         /\ \A a \in Addrs : host'[j][a] \in {"todo", "out"}
<1> DEFINE r == [pc |-> "hosts", status |-> "running", sched |-> sched, count |-> 0, rest |-> {}]
<1>1. [NoScanYet EXCEPT !.pc = "hosts", !.status = "running", !.sched = sched] = r
  <2> DEFINE s == [NoScanYet EXCEPT !.pc = "hosts", !.status = "running", !.sched = sched]
  <2>1. NoScanYet \in Scan /\ NoScanYet.count = 0 /\ NoScanYet.rest = {}
    BY HostCount DEF Scan, NoScanYet
  <2>2. s \in Scan /\ s.pc = "hosts" /\ s.status = "running" /\ s.sched = sched
        /\ s.count = 0 /\ s.rest = {}
    BY <2>1 DEF Scan
  <2> HIDE DEF s
  <2>3. s = r
    BY <2>2 DEF Scan
  <2> QED BY <2>3 DEF s
<1>2. r \in Scan
  BY HostCount DEF Scan
<1> HIDE DEF r
<1>3. ScanBecomes(j, r)
  BY <1>1, <1>2, ScanSet DEF Begin
<1>4. /\ host' \in [Scans -> [Addrs -> HostState]]
      /\ \A k \in Scans : k # j => host'[k] = host[k]
      /\ \A a \in Addrs : host'[j][a] \in {"todo", "out"}
  BY DEF Begin, TypeOK, HostState
<1> QED BY <1>3, <1>4 DEF Begin, r

\* A host moves on; when it is through it counts, and all but the lost ones
\* are reported.
LEMMA HostMoves ==
  ASSUME ScanInv, NEW j \in Scans, NEW a \in Addrs, HostStart(j, a) \/ PingDone(j, a) \/ OsDone(j, a)
  PROVE  /\ scan[j].pc = "hosts"
         /\ host' \in [Scans -> [Addrs -> HostState]]
         /\ \A k \in Scans : k # j => host'[k] = host[k]
         /\ scan' = scan \/ ScanBecomes(j, [scan[j] EXCEPT !.count = scan[j].count + 1])
         /\ scan'[j].count = Cardinality(Answered(j)')
         /\ queue' = queue \/ Queued(j, [event |-> "progress", n |-> scan[j].count + 1])
         /\ UNCHANGED <<dev, lock, saved, ui, edits, crashes>>
<1> USE DEF ScanInv
<1>1. ASSUME NEW r \in HostState, host' = [host EXCEPT ![j][a] = r]
      PROVE  /\ host' \in [Scans -> [Addrs -> HostState]]
             /\ \A k \in Scans : k # j => host'[k] = host[k]
             /\ \A b \in Addrs : host'[j][b] = IF b = a THEN r ELSE host[j][b]
  BY <1>1 DEF TypeOK
<1>2. ASSUME scan[j].pc = "hosts", host[j][a] \in {"todo", "ping", "os"}, scan' = scan,
             host' = [host EXCEPT ![j][a] = "ping"] \/ host' = [host EXCEPT ![j][a] = "os"]
      PROVE  scan'[j].count = Cardinality(Answered(j)')
  <2>1. \A b \in Addrs : b # a => host'[j][b] = host[j][b]
    BY <1>1, <1>2 DEF HostState
  <2>2. host'[j][a] \in {"ping", "os"}
    BY <1>1, <1>2 DEF HostState
  <2>3. Answered(j)' = Answered(j)
    BY <1>2, <2>1, <2>2 DEF Answered
  <2> QED BY <1>2, <2>3 DEF Counted
<1>3. ASSUME NEW r \in {"up", "down", "lost"}, HostDone(j, a, r), scan[j].pc = "hosts",
             host[j][a] \in {"ping", "os"}
      PROVE  /\ ScanBecomes(j, [scan[j] EXCEPT !.count = scan[j].count + 1])
             /\ scan'[j].count = Cardinality(Answered(j)')
             /\ queue' = queue \/ Queued(j, [event |-> "progress", n |-> scan[j].count + 1])
  <2> DEFINE n == scan[j].count + 1
             s == [scan[j] EXCEPT !.count = n]
  <2>1. n = Cardinality(Answered(j) \cup {a}) /\ n \in 0..Cardinality(Addrs)
    BY <1>3, CountRises
  <2> HIDE DEF n
  <2>2. s \in Scan /\ s.count = n
    BY <2>1 DEF TypeOK, Scan
  <2>3. scan' = [scan EXCEPT ![j] = s]
    BY <1>3 DEF HostDone, n
  <2> HIDE DEF s
  <2>4. ScanBecomes(j, s)
    BY <2>2, <2>3, ScanSet
  <2>5. Answered(j)' = Answered(j) \cup {a}
    <3>1. host' = [host EXCEPT ![j][a] = r]
      BY <1>3 DEF HostDone
    <3>2. \A b \in Addrs : host'[j][b] = IF b = a THEN r ELSE host[j][b]
      BY <1>1, <3>1 DEF HostState
    <3> QED BY <1>3, <3>2 DEF Answered
  <2>6. scan'[j].count = Cardinality(Answered(j)')
    BY <2>1, <2>2, <2>4, <2>5 DEF ScanBecomes
  <2>7. [event |-> "progress", n |-> n] \in Event
    BY <2>1 DEF Event
  <2>8. queue' = queue \/ Queued(j, [event |-> "progress", n |-> n])
    <3>1. queue' = queue \/ queue' = [queue EXCEPT ![j] = Append(queue[j], [event |-> "progress", n |-> n])]
      BY <1>3 DEF HostDone, n
    <3> QED BY <2>7, <3>1, QueueSet
  <2> QED BY <2>4, <2>6, <2>8 DEF s, n
<1>4. CASE HostStart(j, a)
  BY <1>1, <1>2, <1>4 DEF HostStart, HostState
<1>5. CASE PingDone(j, a)
  <2>1. CASE host' = [host EXCEPT ![j][a] = "os"] /\ UNCHANGED <<scan, queue>>
    BY <1>1, <1>2, <1>5, <2>1 DEF PingDone, HostState
  <2>2. ASSUME NEW r \in {"down", "lost"}, HostDone(j, a, r)
        PROVE  host' = [host EXCEPT ![j][a] = r]
    BY <2>2 DEF HostDone
  <2> QED BY <1>1, <1>3, <1>5, <2>1, <2>2 DEF PingDone, HostState
<1>6. CASE OsDone(j, a)
  <2>1. host' = [host EXCEPT ![j][a] = "up"]
    BY <1>6 DEF OsDone, HostDone
  <2> QED BY <1>1, <1>3, <1>6, <2>1 DEF OsDone, HostState
<1> QED BY <1>4, <1>5, <1>6

\* A job enters a phase; its count stays.
Enters(j, pc) ==
  /\ scan' \in [Scans -> Scan]
  /\ \A k \in Scans : k # j => scan'[k] = scan[k]
  /\ scan'[j].pc = pc
  /\ scan'[j].count = scan[j].count

\* All hosts are through.
LEMMA EntersWrite ==
  ASSUME TypeOK, NEW j \in Scans, Gathered(j)
  PROVE  Enters(j, "write")
<1> DEFINE r == [scan[j] EXCEPT !.pc = "write", !.rest = Results(j)]
<1>1. Results(j) \in SUBSET Addrs
  BY DEF Results
<1>2. r \in Scan /\ r.pc = "write" /\ r.count = scan[j].count
  BY <1>1 DEF TypeOK, Scan
<1>3. scan' = [scan EXCEPT ![j] = r]
  BY DEF Gathered
<1> HIDE DEF r
<1> QED BY <1>2, <1>3, ScanSet DEF ScanBecomes, Enters

\* The transaction has committed.
LEMMA EntersAudit ==
  ASSUME TypeOK, NEW j \in Scans, CommitResults(j)
  PROVE  Enters(j, "audit")
<1> DEFINE r == [scan[j] EXCEPT !.pc = "audit"]
<1>1. r \in Scan /\ r.pc = "audit" /\ r.count = scan[j].count
  BY DEF TypeOK, Scan
<1>2. scan' = [scan EXCEPT ![j] = r]
  BY DEF CommitResults, Commit
<1> HIDE DEF r
<1> QED BY <1>1, <1>2, ScanSet DEF ScanBecomes, Enters

\* The scan is over.
LEMMA EntersOver ==
  ASSUME TypeOK, NEW j \in Scans, Complete(j) \/ Fail(j)
  PROVE  Enters(j, "over")
<1>1. ASSUME NEW s \in {"complete", "error"},
             scan' = [scan EXCEPT ![j].pc = "over", ![j].status = s]
      PROVE  Enters(j, "over")
  <2> DEFINE r == [scan[j] EXCEPT !.pc = "over", !.status = s]
  <2>1. r \in Scan /\ r.pc = "over" /\ r.count = scan[j].count
    BY DEF TypeOK, Scan
  <2>2. scan' = [scan EXCEPT ![j] = r]
    BY <1>1
  <2> HIDE DEF r
  <2> QED BY <2>1, <2>2, ScanSet DEF ScanBecomes, Enters
<1> QED BY <1>1 DEF Complete, Fail

\* An upsert takes the first address from the rest.
LEMMA UpsertMoves ==
  ASSUME TypeOK, NEW j \in Scans, NEW a \in Addrs, Upsert(j, a)
  PROVE  Enters(j, "write") /\ scan'[j].rest = scan[j].rest \ {a}
<1> DEFINE r == [scan[j] EXCEPT !.rest = scan[j].rest \ {a}]
<1>1. r \in Scan /\ r.pc = scan[j].pc /\ r.count = scan[j].count /\ r.rest = scan[j].rest \ {a}
  BY DEF TypeOK, Scan
<1>2. scan' = [scan EXCEPT ![j] = r]
  BY DEF Upsert
<1> HIDE DEF r
<1> QED BY <1>1, <1>2, ScanSet DEF ScanBecomes, Enters, Upsert

\* A restart ends what has begun.
LEMMA CrashEnds ==
  ASSUME TypeOK, Crash
  PROVE  /\ scan' \in [Scans -> Scan]
         /\ \A k \in Scans : /\ scan'[k].pc = IF scan[k].pc = "none" THEN "none" ELSE "over"
                             /\ scan'[k].count = scan[k].count
<1> DEFINE r(k) == IF scan[k].pc = "none" THEN scan[k]
                   ELSE [scan[k] EXCEPT !.pc = "over", !.status = "gone"]
<1>1. \A k \in Scans : /\ r(k) \in Scan /\ r(k).count = scan[k].count
                        /\ r(k).pc = IF scan[k].pc = "none" THEN "none" ELSE "over"
  BY DEF TypeOK, Scan
<1>2. scan' = [k \in Scans |-> r(k)]
  BY DEF Crash
<1> HIDE DEF r
<1> QED BY <1>1, <1>2

\* The rows and locks after a transaction.
LEMMA TransactionRows ==
  ASSUME TypeOK, NEW j \in Scans
  PROVE  /\ Released(j) \in [Addrs -> Scans \cup {NoScan}]
         /\ \A a \in Addrs : Released(j)[a] = IF lock[a] = j THEN NoScan ELSE lock[a]
         /\ Written(j) \in [Addrs -> Row]
         /\ \A a \in Addrs :
              /\ lock[a] # j => Written(j)[a] = dev[a]
              /\ lock[a] = j => Written(j)[a].from = IF Exists(a) THEN dev[a].from ELSE j
<1>1. \A a \in Addrs : dev[a] \in Row
  BY DEF TypeOK
<1> DEFINE row(a) == [st |-> IF host[j][a] = "up" THEN "online" ELSE "offline",
                      from |-> IF Exists(a) THEN dev[a].from ELSE j]
<1>2. \A a \in Addrs : row(a) \in Row /\ row(a).from = IF Exists(a) THEN dev[a].from ELSE j
  BY <1>1 DEF Row, Status
<1>3. Written(j) = [a \in Addrs |-> IF lock[a] # j THEN dev[a] ELSE row(a)]
  BY DEF Written
<1> HIDE DEF row
<1> QED BY <1>1, <1>2, <1>3 DEF TypeOK, Released

-----------------------------------------------------------------------------
(***************************************************************************)
(* What stays as it is.                                                    *)
(***************************************************************************)
\* A scan that has its results keeps them.
Stays == \A k \in Scans : Settled(k) => Settled(k)' /\ host'[k] = host[k]

\* Rows keep what they say of settled scans.
LEMMA RowsStay ==
  ASSUME ScanInv, Stays, dev' = dev
  PROVE  NoGhosts' /\ InsertedSettled'
<1>1. \A a \in Addrs : dev[a].from # NoScan =>
        /\ dev[a].from \in Scans /\ Settled(dev[a].from)
        /\ host[dev[a].from][a] = "up"
  BY DEF ScanInv, TypeOK, Row, NoGhosts, InsertedSettled
<1> QED BY <1>1 DEF Stays, NoGhosts, InsertedSettled

\* What was saved stays saved.
LEMMA SavedStay ==
  ASSUME ScanInv, Stays, saved \subseteq saved', NEW j \in Scans, NEW n, Saved(j, n)
  PROVE  Saved(j, n)'
<1>1. host'[j] = host[j]
  BY DEF ScanInv, SavedSettled, Stays, Saved
<1> QED BY <1>1 DEF Saved, Ups

\* Dialogs that report no scan anew stay true.
LEMMA HooksStay ==
  ASSUME ScanInv, Stays, saved \subseteq saved',
         \A h \in Hooks : ui'[h].status = "complete" => ui'[h] = ui[h]
  PROVE  CompleteIsSaved'
<1> SUFFICES ASSUME NEW h \in Hooks, ui'[h].status = "complete"
             PROVE  Saved(ui[h].job, ui[h].found)'
  BY DEF CompleteIsSaved, Saved
<1>1. ui'[h] = ui[h] /\ Saved(ui[h].job, ui[h].found) /\ ui[h].job \in Scans
  BY DEF ScanInv, TypeOK, CompleteIsSaved, Saved
<1>2. host'[ui[h].job] = host[ui[h].job]
  BY <1>1 DEF ScanInv, SavedSettled, Stays, Saved
<1> QED BY <1>1, <1>2 DEF Saved, Ups

\* Queues that nobody appends to stay true.
LEMMA QueueStays ==
  ASSUME ScanInv, Stays, saved \subseteq saved', queue' = queue
  PROVE  QueueTrue'
<1> SUFFICES ASSUME NEW j \in Scans, NEW i \in 1..Len(queue[j]), queue[j][i].event = "complete"
             PROVE  Saved(j, queue[j][i].n)'
  BY DEF QueueTrue, Saved, Ups
<1>1. Saved(j, queue[j][i].n)
  BY DEF ScanInv, QueueTrue
<1>2. host'[j] = host[j]
  BY <1>1 DEF ScanInv, SavedSettled, Stays, Saved
<1> QED BY <1>1, <1>2 DEF Saved, Ups

\* With one more event, which is true.
LEMMA QueueGrows ==
  ASSUME ScanInv, Stays, saved \subseteq saved', NEW j \in Scans, NEW e, Queued(j, e),
         e.event = "complete" => j \in saved' /\ e.n = Cardinality(Ups(j)')
  PROVE  QueueTrue'
<1> SUFFICES ASSUME NEW k \in Scans, NEW i \in 1..Len(queue'[k]), queue'[k][i].event = "complete"
             PROVE  k \in saved' /\ queue'[k][i].n = Cardinality(Ups(k)')
  BY DEF QueueTrue, Saved
<1>1. ASSUME NEW m \in 1..Len(queue[k]), queue'[k][i] = queue[k][m]
      PROVE  k \in saved' /\ queue'[k][i].n = Cardinality(Ups(k)')
  <2>1. Saved(k, queue[k][m].n)
    BY <1>1 DEF ScanInv, QueueTrue
  <2>2. host'[k] = host[k]
    BY <2>1 DEF ScanInv, SavedSettled, Stays, Saved
  <2> QED BY <1>1, <2>1, <2>2 DEF Saved, Ups
<1>2. CASE k # j
  BY <1>1, <1>2 DEF Queued
<1>3. CASE k = j
  BY <1>1, <1>3 DEF Queued, Saved
<1> QED BY <1>2, <1>3

\* Locks of scans that do not move stay as they are.
LEMMA LocksStay ==
  ASSUME ScanInv, lock' = lock,
         \A a \in Addrs : lock[a] # NoScan => dev'[a] = dev[a],
         \A k \in Scans : scan[k].pc = "write" => scan'[k] = scan[k] /\ host'[k] = host[k]
  PROVE  Locks'
<1> SUFFICES ASSUME NEW a \in Addrs, lock[a] # NoScan
             PROVE  /\ scan'[lock[a]].pc = "write"
                    /\ host'[lock[a]][a] = "up" \/ Exists(a)'
                    /\ \A b \in scan'[lock[a]].rest : a < b
  BY DEF Locks
<1>1. /\ lock[a] \in Scans /\ scan[lock[a]].pc = "write"
      /\ host[lock[a]][a] = "up" \/ Exists(a)
      /\ \A b \in scan[lock[a]].rest : a < b
  BY DEF ScanInv, TypeOK, Locks
<1>2. dev'[a] = dev[a] /\ scan'[lock[a]] = scan[lock[a]] /\ host'[lock[a]] = host[lock[a]]
  BY <1>1
<1> QED BY <1>1, <1>2 DEF Exists

\* Counts of scans that do not move stay as they are.
LEMMA CountStays ==
  ASSUME ScanInv,
         \A k \in Scans : scan'[k].pc = "hosts" => scan'[k] = scan[k] /\ host'[k] = host[k]
  PROVE  Counted'
<1> SUFFICES ASSUME NEW k \in Scans, scan'[k].pc = "hosts"
             PROVE  scan'[k].count = Cardinality(Answered(k)')
  BY DEF Counted
<1>1. scan'[k] = scan[k] /\ host'[k] = host[k]
  OBVIOUS
<1>2. Answered(k)' = Answered(k)
  BY <1>1 DEF Answered
<1> QED BY <1>1, <1>2 DEF ScanInv, Counted

\* One scan enters a phase that is settled, and no host moves.
LEMMA EntersStays ==
  ASSUME ScanInv, NEW j \in Scans, NEW pc \in {"write", "audit", "over"}, Enters(j, pc), host' = host
  PROVE  Stays
BY DEF Enters, Stays, Settled

-----------------------------------------------------------------------------
(***************************************************************************)
(* The steps.                                                              *)
(***************************************************************************)
\* A scan starts, whoever asked for it.
LEMMA BeginStep ==
  ASSUME ScanInv, NEW j \in Scans, NEW net \in Subnets, NEW sched \in BOOLEAN, Begin(j, net, sched),
         UNCHANGED <<dev, queue, lock, saved, edits, crashes>>, ui' \in [Hooks -> Hook],
         \A h \in Hooks : ui'[h].status \in {"scanning", "complete"} => ui'[h] = ui[h]
  PROVE  ScanInv'
<1> USE DEF ScanInv
<1> DEFINE r == [pc |-> "hosts", status |-> "running", sched |-> sched, count |-> 0, rest |-> {}]
<1>1. /\ ScanBecomes(j, r) /\ scan[j].pc = "none"
      /\ host' \in [Scans -> [Addrs -> HostState]]
      /\ \A k \in Scans : k # j => host'[k] = host[k]
      /\ \A a \in Addrs : host'[j][a] \in {"todo", "out"}
  BY BeginScan
<1>2. r.pc = "hosts" /\ r.count = 0
  OBVIOUS
<1> HIDE DEF r
<1>3. TypeOK'
  BY <1>1 DEF TypeOK, ScanBecomes
<1>4. Stays
  BY <1>1 DEF Stays, Settled, ScanBecomes
<1>5. Counted'
  <2> SUFFICES ASSUME NEW k \in Scans, scan'[k].pc = "hosts"
               PROVE  scan'[k].count = Cardinality(Answered(k)')
    BY DEF Counted
  <2>1. CASE k = j
    <3>1. Answered(k)' = {}
      BY <1>1, <2>1 DEF Answered
    <3> QED BY <1>1, <1>2, <2>1, <3>1, FS_EmptySet DEF ScanBecomes
  <2>2. CASE k # j
    <3>1. Answered(k)' = Answered(k)
      BY <1>1, <2>2 DEF Answered
    <3> QED BY <1>1, <2>2, <3>1 DEF Counted, ScanBecomes
  <2> QED BY <2>1, <2>2
<1>6. Locks'
  BY <1>1, LocksStay DEF ScanBecomes
<1>7. SavedSettled'
  BY <1>1, <1>2, <1>4 DEF SavedSettled, ScanBecomes, Stays, TypeOK
<1>8. HooksHaveJobs'
  BY DEF HooksHaveJobs
<1> QED BY <1>3, <1>4, <1>5, <1>6, <1>7, <1>8, RowsStay, QueueStays, HooksStay

\* A host moves on.
LEMMA HostStep ==
  ASSUME ScanInv, NEW j \in Scans, NEW a \in Addrs, HostStart(j, a) \/ PingDone(j, a) \/ OsDone(j, a)
  PROVE  ScanInv'
<1> USE DEF ScanInv
<1> DEFINE r == [scan[j] EXCEPT !.count = scan[j].count + 1]
           e == [event |-> "progress", n |-> scan[j].count + 1]
<1>1. /\ scan[j].pc = "hosts"
      /\ host' \in [Scans -> [Addrs -> HostState]]
      /\ \A k \in Scans : k # j => host'[k] = host[k]
      /\ scan' = scan \/ ScanBecomes(j, r)
      /\ scan'[j].count = Cardinality(Answered(j)')
      /\ queue' = queue \/ Queued(j, e)
      /\ UNCHANGED <<dev, lock, saved, ui, edits, crashes>>
  BY HostMoves
<1>2. r.pc = "hosts" /\ e.event # "complete"
  BY <1>1 DEF TypeOK, Scan
<1> HIDE DEF r, e
<1>3. /\ scan' \in [Scans -> Scan] /\ scan'[j].pc = "hosts"
      /\ \A k \in Scans : k # j => scan'[k] = scan[k]
  BY <1>1, <1>2 DEF TypeOK, ScanBecomes
<1>4. queue' \in [Scans -> Seq(Event)]
  BY <1>1 DEF TypeOK, Queued
<1>5. TypeOK'
  BY <1>1, <1>3, <1>4 DEF TypeOK
<1>6. Stays
  BY <1>1, <1>3 DEF Stays, Settled
<1>7. Counted'
  <2> SUFFICES ASSUME NEW k \in Scans, scan'[k].pc = "hosts"
               PROVE  scan'[k].count = Cardinality(Answered(k)')
    BY DEF Counted
  <2>1. CASE k = j
    BY <1>1, <2>1
  <2>2. CASE k # j
    <3>1. Answered(k)' = Answered(k)
      BY <1>1, <2>2 DEF Answered
    <3> QED BY <1>3, <2>2, <3>1 DEF Counted
  <2> QED BY <2>1, <2>2
<1>8. Locks'
  BY <1>1, <1>3, LocksStay
<1>9. QueueTrue'
  BY <1>1, <1>2, <1>6, QueueStays, QueueGrows
<1>10. SavedSettled'
  BY <1>1, <1>3, <1>6 DEF SavedSettled, Stays, TypeOK
<1>11. HooksHaveJobs'
  BY <1>1 DEF HooksHaveJobs
<1> QED BY <1>1, <1>5, <1>6, <1>7, <1>8, <1>9, <1>10, <1>11, RowsStay, HooksStay

\* The upserts begin; no row is locked yet.
LEMMA GatheredStep ==
  ASSUME ScanInv, NEW j \in Scans, Gathered(j)
  PROVE  ScanInv'
<1> USE DEF ScanInv
<1>1. scan[j].pc = "hosts" /\ UNCHANGED <<dev, host, queue, lock, saved, ui, edits, crashes>>
  BY DEF Gathered
<1>2. Enters(j, "write")
  BY EntersWrite
<1>3. TypeOK'
  BY <1>1, <1>2 DEF TypeOK, Enters
<1>4. Stays
  BY <1>1, <1>2, EntersStays
<1>5. Counted'
  BY <1>1, <1>2, CountStays DEF Enters
<1>6. Locks'
  BY <1>1, <1>2, LocksStay DEF Enters
<1>7. SavedSettled'
  BY <1>1, <1>2, <1>4 DEF SavedSettled, Enters, Stays, TypeOK
<1>8. HooksHaveJobs'
  BY <1>1 DEF HooksHaveJobs
<1> QED BY <1>1, <1>3, <1>4, <1>5, <1>6, <1>7, <1>8, RowsStay, QueueStays, HooksStay

\* The row that an upsert locks lies before the rest, and belongs to a host
\* that answered or to a device there is.
LEMMA UpsertStep ==
  ASSUME ScanInv, NEW j \in Scans, NEW a \in Addrs, Upsert(j, a)
  PROVE  ScanInv'
<1> USE DEF ScanInv
<1>1. scan[j].pc = "write" /\ UNCHANGED <<dev, host, queue, saved, ui, edits, crashes>>
  BY DEF Upsert
<1>2. Enters(j, "write") /\ scan'[j].rest = scan[j].rest \ {a}
  BY UpsertMoves
<1>3. /\ lock' \in [Addrs -> Scans \cup {NoScan}]
      /\ \A b \in Addrs : lock'[b] = lock[b] \/ (b = a /\ lock'[b] = j /\ Touches(j, a))
  BY DEF Upsert, TypeOK
<1>4. TypeOK'
  BY <1>1, <1>2, <1>3 DEF TypeOK, Enters
<1>5. Stays
  BY <1>1, <1>2, EntersStays
<1>6. Counted'
  BY <1>1, <1>2, CountStays DEF Enters
<1>7. Locks'
  <2> SUFFICES ASSUME NEW b \in Addrs, lock'[b] # NoScan
               PROVE  /\ scan'[lock'[b]].pc = "write"
                      /\ host[lock'[b]][b] = "up" \/ Exists(b)
                      /\ \A c \in scan'[lock'[b]].rest : b < c
    BY <1>1 DEF Locks, Exists
  <2>1. CASE lock'[b] = lock[b]
    <3>1. /\ lock[b] \in Scans /\ scan[lock[b]].pc = "write"
          /\ host[lock[b]][b] = "up" \/ Exists(b)
          /\ \A c \in scan[lock[b]].rest : b < c
      BY <2>1 DEF TypeOK, Locks
    <3>2. scan'[lock[b]].pc = "write" /\ scan'[lock[b]].rest \subseteq scan[lock[b]].rest
      BY <1>2, <3>1 DEF Enters
    <3> QED BY <2>1, <3>1, <3>2
  <2>2. CASE b = a /\ lock'[b] = j /\ Touches(j, a)
    <3>1. \A c \in scan[j].rest : a <= c /\ c \in Nat
      BY AddrAssumption DEF Upsert, NextResult, TypeOK, Scan
    <3>2. \A c \in scan'[j].rest : a < c
      BY <1>2, <3>1, AddrAssumption
    <3> QED BY <1>2, <2>2, <3>2 DEF Enters, Touches
  <2> QED BY <1>3, <2>1, <2>2
<1>8. SavedSettled'
  BY <1>1, <1>2, <1>5 DEF SavedSettled, Enters, Stays, TypeOK
<1>9. HooksHaveJobs'
  BY <1>1 DEF HooksHaveJobs
<1> QED BY <1>1, <1>4, <1>5, <1>6, <1>7, <1>8, <1>9, RowsStay, QueueStays, HooksStay

\* After a transaction its locks are free and its new rows belong to hosts that
\* answered.
LEMMA TransactionEnds ==
  ASSUME ScanInv, NEW j \in Scans, NEW pc \in {"audit", "over"}, Enters(j, pc), scan[j].pc = "write",
         host' = host, lock' = Released(j), dev' = dev \/ dev' = Written(j)
  PROVE  Locks' /\ NoGhosts' /\ InsertedSettled' /\ Counted'
         /\ dev' \in [Addrs -> Row] /\ lock' \in [Addrs -> Scans \cup {NoScan}]
<1> USE DEF ScanInv
<1>1. /\ Released(j) \in [Addrs -> Scans \cup {NoScan}]
      /\ \A a \in Addrs : Released(j)[a] = IF lock[a] = j THEN NoScan ELSE lock[a]
      /\ Written(j) \in [Addrs -> Row]
      /\ \A a \in Addrs :
           /\ lock[a] # j => Written(j)[a] = dev[a]
           /\ lock[a] = j => Written(j)[a].from = IF Exists(a) THEN dev[a].from ELSE j
  BY TransactionRows
<1>2. Stays
  BY EntersStays
<1>3. Counted'
  BY CountStays DEF Enters
<1>4. Locks'
  <2> SUFFICES ASSUME NEW a \in Addrs, lock'[a] # NoScan
               PROVE  /\ scan'[lock'[a]].pc = "write"
                      /\ host[lock'[a]][a] = "up" \/ Exists(a)'
                      /\ \A b \in scan'[lock'[a]].rest : a < b
    BY DEF Locks
  <2>1. lock'[a] = lock[a] /\ lock[a] # j
    BY <1>1
  <2>2. /\ lock[a] \in Scans /\ scan[lock[a]].pc = "write"
        /\ host[lock[a]][a] = "up" \/ Exists(a)
        /\ \A b \in scan[lock[a]].rest : a < b
    BY <2>1 DEF TypeOK, Locks
  <2>3. scan'[lock[a]] = scan[lock[a]] /\ dev'[a] = dev[a]
    BY <1>1, <2>1, <2>2 DEF Enters
  <2> QED BY <2>1, <2>2, <2>3 DEF Exists
<1>5. \A a \in Addrs : dev'[a].from # NoScan =>
        /\ dev'[a].from \in Scans /\ scan'[dev'[a].from].pc \in {"write", "audit", "over"}
        /\ host[dev'[a].from][a] = "up"
  <2> SUFFICES ASSUME NEW a \in Addrs, dev'[a].from # NoScan
               PROVE  /\ dev'[a].from \in Scans
                      /\ scan'[dev'[a].from].pc \in {"write", "audit", "over"}
                      /\ host[dev'[a].from][a] = "up"
    OBVIOUS
  <2>1. CASE dev'[a].from = dev[a].from
    <3>1. /\ dev[a].from \in Scans /\ scan[dev[a].from].pc \in {"write", "audit", "over"}
          /\ host[dev[a].from][a] = "up"
      BY <2>1 DEF TypeOK, Row, NoGhosts, InsertedSettled, Settled
    <3>2. scan'[dev[a].from].pc \in {"write", "audit", "over"}
      BY <3>1 DEF Enters
    <3> QED BY <2>1, <3>1, <3>2
  <2>2. CASE dev'[a].from # dev[a].from
    <3>1. lock[a] = j /\ ~ Exists(a) /\ dev'[a].from = j
      BY <1>1, <2>2
    <3>2. host[j][a] = "up" /\ j # NoScan
      BY <3>1, ScanAssumption DEF Locks
    <3> QED BY <3>1, <3>2 DEF Enters
  <2> QED BY <2>1, <2>2
<1>6. NoGhosts' /\ InsertedSettled'
  BY <1>5 DEF NoGhosts, InsertedSettled, Settled
<1>7. dev' \in [Addrs -> Row] /\ lock' \in [Addrs -> Scans \cup {NoScan}]
  BY <1>1 DEF TypeOK
<1> QED BY <1>3, <1>4, <1>6, <1>7

\* The transaction commits.
LEMMA CommitStep ==
  ASSUME ScanInv, NEW j \in Scans, CommitResults(j)
  PROVE  ScanInv'
<1> USE DEF ScanInv
<1>1. /\ scan[j].pc = "write" /\ dev' = Written(j) /\ saved' = saved \cup {j}
      /\ lock' = Released(j) /\ UNCHANGED <<host, queue, ui, edits, crashes>>
  BY DEF CommitResults, Commit
<1>2. Enters(j, "audit")
  BY EntersAudit
<1>3. /\ Locks' /\ NoGhosts' /\ InsertedSettled' /\ Counted'
      /\ dev' \in [Addrs -> Row] /\ lock' \in [Addrs -> Scans \cup {NoScan}]
  BY <1>1, <1>2, TransactionEnds
<1>4. TypeOK'
  BY <1>1, <1>2, <1>3 DEF TypeOK, Enters
<1>5. Stays
  BY <1>1, <1>2, EntersStays
<1>6. SavedSettled'
  BY <1>1, <1>2, <1>5 DEF SavedSettled, Enters, Stays, TypeOK, Settled
<1>7. HooksHaveJobs'
  BY <1>1 DEF HooksHaveJobs
<1> QED BY <1>1, <1>3, <1>4, <1>5, <1>6, <1>7, QueueStays, HooksStay

\* "complete" is queued by a scan whose transaction has committed.
LEMMA CompleteStep ==
  ASSUME ScanInv, NEW j \in Scans, Complete(j)
  PROVE  ScanInv'
<1> USE DEF ScanInv
<1> DEFINE e == [event |-> "complete", n |-> Cardinality(Ups(j))]
<1>1. scan[j].pc = "audit" /\ UNCHANGED <<dev, host, lock, saved, ui, edits, crashes>>
  BY DEF Complete
<1>2. Enters(j, "over")
  BY EntersOver
<1>3. Ups(j) \in SUBSET Addrs
  BY DEF Ups
<1>4. e \in Event /\ e.n = Cardinality(Ups(j))
  BY <1>3, HostCount DEF Event
<1>5. queue' = [queue EXCEPT ![j] = Append(queue[j], e)]
  BY DEF Complete
<1> HIDE DEF e
<1>6. Queued(j, e)
  BY <1>4, <1>5, QueueSet
<1>7. Stays
  BY <1>1, <1>2, EntersStays
<1>8. QueueTrue'
  <2>1. Ups(j)' = Ups(j)
    BY <1>1 DEF Ups
  <2>2. j \in saved' /\ e.n = Cardinality(Ups(j)')
    BY <1>1, <1>4, <2>1 DEF SavedSettled
  <2> QED BY <1>1, <1>6, <1>7, <2>2, QueueGrows
<1>9. TypeOK'
  BY <1>1, <1>2, <1>6 DEF TypeOK, Enters, Queued
<1>10. Counted'
  BY <1>1, <1>2, CountStays DEF Enters
<1>11. Locks'
  BY <1>1, <1>2, LocksStay DEF Enters
<1>12. SavedSettled'
  BY <1>1, <1>2, <1>7 DEF SavedSettled, Enters, Stays, TypeOK
<1>13. HooksHaveJobs'
  BY <1>1 DEF HooksHaveJobs
<1> QED BY <1>1, <1>7, <1>8, <1>9, <1>10, <1>11, <1>12, <1>13, RowsStay, HooksStay

\* The transaction fails, or its commit is answered by nobody.
LEMMA FailStep ==
  ASSUME ScanInv, NEW j \in Scans, Fail(j)
  PROVE  ScanInv'
<1> USE DEF ScanInv
<1> DEFINE e == [event |-> "error", n |-> 0]
<1>1. /\ scan[j].pc = "write" /\ lock' = Released(j)
      /\ dev' = dev \/ dev' = Written(j)
      /\ saved' = saved \/ saved' = saved \cup {j}
      /\ UNCHANGED <<host, ui, edits, crashes>>
  BY DEF Fail
<1>2. Enters(j, "over")
  BY EntersOver
<1>3. e \in Event /\ e.event # "complete"
  BY HostCount DEF Event
<1>4. queue' = [queue EXCEPT ![j] = Append(queue[j], e)]
  BY DEF Fail, ReportError
<1> HIDE DEF e
<1>5. Queued(j, e)
  BY <1>3, <1>4, QueueSet
<1>6. Stays
  BY <1>1, <1>2, EntersStays
<1>7. QueueTrue'
  BY <1>1, <1>3, <1>5, <1>6, QueueGrows
<1>8. /\ Locks' /\ NoGhosts' /\ InsertedSettled' /\ Counted'
      /\ dev' \in [Addrs -> Row] /\ lock' \in [Addrs -> Scans \cup {NoScan}]
  BY <1>1, <1>2, TransactionEnds
<1>9. TypeOK'
  BY <1>1, <1>2, <1>5, <1>8 DEF TypeOK, Enters, Queued
<1>10. SavedSettled'
  BY <1>1, <1>2, <1>6 DEF SavedSettled, Enters, Stays, TypeOK, Settled
<1>11. HooksHaveJobs'
  BY <1>1 DEF HooksHaveJobs
<1> QED BY <1>1, <1>6, <1>7, <1>8, <1>9, <1>10, <1>11, HooksStay

\* Steps of the browser that read no event: the dialog reports no scan anew.
LEMMA BrowserStep ==
  ASSUME ScanInv, UNCHANGED <<work, dev, lock, edits, crashes>>, ui' \in [Hooks -> Hook],
         \A h \in Hooks : /\ ui'[h].status = "complete" => ui'[h] = ui[h]
                          /\ ui'[h].status = "scanning" => ui'[h].job \in Scans
  PROVE  ScanInv'
<1> USE DEF ScanInv, work
<1>1. Stays
  BY DEF Stays, Settled
<1>2. TypeOK'
  BY DEF TypeOK
<1>3. Counted' /\ Locks'
  BY CountStays, LocksStay
<1>4. SavedSettled'
  BY DEF SavedSettled, Settled
<1>5. HooksHaveJobs'
  BY DEF HooksHaveJobs
<1> QED BY <1>1, <1>2, <1>3, <1>4, <1>5, RowsStay, QueueStays, HooksStay

\* The hook without its stream.
LEMMA HookStep ==
  ASSUME ScanInv, NEW h \in Hooks,
         \/ StartScan(h) \/ Posted(h) \/ StreamFails(h) \/ StreamEnds(h)
         \/ Dismiss(h) \/ LeavePage(h)
  PROVE  ScanInv'
<1> USE DEF ScanInv
<1>1. UNCHANGED <<work, dev, lock, edits, crashes>>
  BY DEF StartScan, Posted, StreamFails, StreamEnds, Dismiss, LeavePage
<1>2. ASSUME NEW r \in Hook, ui' = [ui EXCEPT ![h] = r], r.status # "complete",
             r.status = "scanning" => r.job \in Scans
      PROVE  ScanInv'
  <2>1. /\ ui' \in [Hooks -> Hook]
        /\ \A g \in Hooks : ui'[g] = IF g = h THEN r ELSE ui[g]
    BY <1>2 DEF TypeOK
  <2> QED BY <1>1, <1>2, <2>1, BrowserStep DEF HooksHaveJobs
<1>3. IdleHook \in Hook /\ IdleHook.status = "idle"
  BY HostCount DEF Hook, IdleHook
<1>4. ASSUME NEW s \in {"starting", "error"}, ui' = [ui EXCEPT ![h] = [IdleHook EXCEPT !.status = s]]
      PROVE  ScanInv'
  <2> DEFINE r == [IdleHook EXCEPT !.status = s]
  <2>1. r \in Hook /\ r.status = s
    BY <1>3 DEF Hook
  <2> HIDE DEF r
  <2>2. ui' = [ui EXCEPT ![h] = r]
    BY <1>4 DEF r
  <2> QED BY <1>2, <2>1, <2>2
<1>5. ASSUME NEW s \in {"scanning", "error"}, ui' = [ui EXCEPT ![h].status = s],
             s = "scanning" => ui[h].job # NoScan
      PROVE  ScanInv'
  <2> DEFINE r == [ui[h] EXCEPT !.status = s]
  <2>1. r \in Hook /\ r.status = s /\ r.job = ui[h].job
    BY DEF TypeOK, Hook
  <2> HIDE DEF r
  <2>2. ui' = [ui EXCEPT ![h] = r]
    BY <1>5 DEF r
  <2>3. s = "scanning" => r.job \in Scans
    BY <1>5, <2>1 DEF Hook
  <2> QED BY <1>2, <2>1, <2>2, <2>3
<1>6. CASE StartScan(h)
  BY <1>4, <1>6 DEF StartScan
<1>7. CASE Posted(h)
  BY <1>4, <1>5, <1>7 DEF Posted
<1>8. CASE StreamFails(h)
  BY <1>5, <1>8 DEF StreamFails
<1>9. CASE Dismiss(h) \/ LeavePage(h)
  BY <1>2, <1>3, <1>9 DEF Dismiss, LeavePage
<1>10. CASE StreamEnds(h)
  <2> DEFINE r == [ui[h] EXCEPT !.ended = TRUE]
  <2>1. r \in Hook /\ r.status = "scanning" /\ r.job = ui[h].job
    BY <1>10 DEF StreamEnds, Streaming, TypeOK, Hook
  <2>2. ui' = [ui EXCEPT ![h] = r]
    BY <1>10 DEF StreamEnds
  <2>3. ui[h].job \in Scans
    BY <1>10 DEF StreamEnds, Streaming, HooksHaveJobs
  <2> HIDE DEF r
  <2> QED BY <1>2, <2>1, <2>2, <2>3
<1> QED BY <1>6, <1>7, <1>8, <1>9, <1>10

\* The hook posts, and the server starts the scan.
LEMMA PostStep ==
  ASSUME ScanInv, NEW h \in Hooks, NEW j \in Scans, NEW net \in Subnets, Post(h, j, net)
  PROVE  ScanInv'
<1> DEFINE r == [ui[h] EXCEPT !.job = j]
<1>1. r \in Hook /\ r.status = "starting"
  BY DEF Post, ScanInv, TypeOK, Hook
<1>2. ui' = [ui EXCEPT ![h] = r]
  BY DEF Post
<1> HIDE DEF r
<1>3. /\ ui' \in [Hooks -> Hook]
      /\ \A g \in Hooks : ui'[g].status \in {"scanning", "complete"} => ui'[g] = ui[g]
  BY <1>1, <1>2 DEF ScanInv, TypeOK
<1>4. Begin(j, net, FALSE) /\ UNCHANGED <<dev, queue, lock, saved, edits, crashes>>
  BY DEF Post
<1> QED BY <1>3, <1>4, BeginStep

\* An event is read: what it says of a finished scan is true.
LEMMA DeliverStep ==
  ASSUME ScanInv, NEW h \in Hooks, Deliver(h)
  PROVE  ScanInv'
<1> USE DEF ScanInv
<1> DEFINE j == ui[h].job
           q == queue[j]
           e == Head(q)
<1>1. j \in Scans /\ ui[h] \in Hook
  BY DEF Deliver, FrameReady, Streaming, HooksHaveJobs, TypeOK
<1>2. q \in Seq(Event) /\ q # <<>>
  BY <1>1 DEF Deliver, FrameReady, Streaming, TypeOK
<1>3. ui' = [ui EXCEPT ![h] = Shown(h, e)] /\ queue' = [queue EXCEPT ![j] = Tail(q)]
      /\ UNCHANGED <<dev, scan, host, lock, saved, edits, crashes>>
  BY DEF Deliver
<1>4. e.event = "complete" => Saved(j, e.n)
  <2>1. 1 \in 1..Len(q) /\ e = q[1]
    <3> HIDE DEF q
    <3> QED BY <1>2, EmptySeq
  <2> QED BY <1>1, <2>1 DEF QueueTrue
<1> HIDE DEF q
<1>5. e \in Event /\ Tail(q) \in Seq(Event) /\ Len(Tail(q)) = Len(q) - 1 /\ Len(q) \in Nat
      /\ \A i \in 1..Len(Tail(q)) : Tail(q)[i] = q[i + 1]
  BY <1>2, HeadTailProperties, LenProperties
<1> DEFINE t == Tail(q)
<1> HIDE DEF e, t
<1>6. /\ Shown(h, e) \in Hook /\ Shown(h, e).job = j
      /\ Shown(h, e).status = "complete" => e.event = "complete" /\ Shown(h, e).found = e.n
  <2>0. ui[h].status = "scanning"
    BY DEF Deliver, FrameReady, Streaming
  <2>1. CASE e.event = "progress"
    <3> DEFINE s == [ui[h] EXCEPT !.scanned = e.n]
    <3>1. s \in Hook /\ s.job = j /\ s.status = "scanning"
      BY <1>1, <1>5, <2>0 DEF Hook, Event
    <3>2. Shown(h, e) = s
      BY <2>1 DEF Shown
    <3> HIDE DEF s
    <3> QED BY <3>1, <3>2
  <2>2. CASE e.event = "complete"
    <3> DEFINE s == [ui[h] EXCEPT !.status = "complete", !.found = e.n]
    <3>1. s \in Hook /\ s.job = j /\ s.found = e.n
      BY <1>1, <1>5 DEF Hook, Event
    <3>2. Shown(h, e) = s
      BY <2>2 DEF Shown
    <3> HIDE DEF s
    <3> QED BY <2>2, <3>1, <3>2
  <2>3. CASE e.event = "error"
    <3> DEFINE s == [ui[h] EXCEPT !.status = "error"]
    <3>1. s \in Hook /\ s.job = j /\ s.status = "error"
      BY <1>1 DEF Hook
    <3>2. Shown(h, e) = s
      BY <2>3 DEF Shown
    <3> HIDE DEF s
    <3> QED BY <3>1, <3>2
  <2> QED BY <1>5, <2>1, <2>2, <2>3 DEF Event
<1>7. /\ ui' \in [Hooks -> Hook]
      /\ \A g \in Hooks : ui'[g] = IF g = h THEN Shown(h, e) ELSE ui[g]
  BY <1>3, <1>6 DEF TypeOK
<1>8. /\ queue' \in [Scans -> Seq(Event)]
      /\ \A k \in Scans : queue'[k] = IF k = j THEN t ELSE queue[k]
  BY <1>1, <1>3, <1>5 DEF TypeOK, t
<1>9. TypeOK'
  BY <1>3, <1>7, <1>8 DEF TypeOK
<1>10. Stays
  BY <1>3 DEF Stays, Settled
<1>11. QueueTrue'
  <2> SUFFICES ASSUME NEW k \in Scans, NEW i \in 1..Len(queue'[k]), queue'[k][i].event = "complete"
               PROVE  Saved(k, queue'[k][i].n)
    BY <1>3 DEF QueueTrue, Saved, Ups
  <2>1. CASE k # j
    BY <1>8, <2>1 DEF QueueTrue
  <2>2. CASE k = j
    <3>1. queue'[k] = t /\ i \in 1..Len(t) /\ i + 1 \in 1..Len(q) /\ t[i] = q[i + 1]
      BY <1>5, <1>8, <2>2 DEF t
    <3> QED BY <2>2, <3>1 DEF QueueTrue, q
  <2> QED BY <2>1, <2>2
<1>12. CompleteIsSaved'
  <2> SUFFICES ASSUME NEW g \in Hooks, ui'[g].status = "complete"
               PROVE  Saved(ui'[g].job, ui'[g].found)
    BY <1>3 DEF CompleteIsSaved, Saved, Ups
  <2>1. CASE g = h
    BY <1>4, <1>6, <1>7, <2>1
  <2>2. CASE g # h
    BY <1>7, <2>2 DEF CompleteIsSaved, Saved
  <2> QED BY <2>1, <2>2
<1>13. HooksHaveJobs'
  BY <1>1, <1>6, <1>7 DEF HooksHaveJobs
<1>14. Counted' /\ Locks'
  BY <1>3, CountStays, LocksStay
<1>15. SavedSettled'
  BY <1>3 DEF SavedSettled, Settled
<1> QED BY <1>3, <1>9, <1>10, <1>11, <1>12, <1>13, <1>14, <1>15, RowsStay

\* Administrators touch no row that a scan has locked, and insert none for it.
LEMMA EditStep ==
  ASSUME ScanInv, Administrator
  PROVE  ScanInv'
<1> USE DEF ScanInv
<1>1. PICK a \in Addrs : \/ \E s \in Status : CreateDevice(a, s) \/ UpdateDevice(a, s)
                         \/ DeleteDevice(a)
  BY DEF Administrator
<1>2. Edit(a)
  BY <1>1 DEF CreateDevice, UpdateDevice, DeleteDevice
<1>3. PICK r \in Row : dev' = [dev EXCEPT ![a] = r] /\ r.from \in {NoScan, dev[a].from}
  <2>0. dev[a] \in Row /\ NoRow \in Row /\ NoRow.from = NoScan
    BY DEF TypeOK, Row, NoRow
  <2>1. ASSUME NEW s \in Status, CreateDevice(a, s)
        PROVE  \E r \in Row : dev' = [dev EXCEPT ![a] = r] /\ r.from \in {NoScan, dev[a].from}
    <3> DEFINE r == [NoRow EXCEPT !.st = s]
    <3>1. r \in Row /\ r.from = NoScan
      BY <2>0 DEF Row
    <3>2. dev' = [dev EXCEPT ![a] = r]
      BY <2>1 DEF CreateDevice
    <3> HIDE DEF r
    <3> QED BY <3>1, <3>2
  <2>2. ASSUME NEW s \in Status, UpdateDevice(a, s)
        PROVE  \E r \in Row : dev' = [dev EXCEPT ![a] = r] /\ r.from \in {NoScan, dev[a].from}
    <3> DEFINE r == [dev[a] EXCEPT !.st = s]
    <3>1. r \in Row /\ r.from = dev[a].from
      BY <2>0 DEF Row
    <3>2. dev' = [dev EXCEPT ![a] = r]
      BY <2>2 DEF UpdateDevice
    <3> HIDE DEF r
    <3> QED BY <3>1, <3>2
  <2>3. ASSUME DeleteDevice(a)
        PROVE  \E r \in Row : dev' = [dev EXCEPT ![a] = r] /\ r.from \in {NoScan, dev[a].from}
    BY <2>0, <2>3 DEF DeleteDevice
  <2> QED BY <1>1, <2>1, <2>2, <2>3
<1>4. /\ lock[a] = NoScan /\ edits' \in 0..MaxEdits
      /\ UNCHANGED <<scan, host, queue, saved, lock, ui, crashes>>
  BY <1>2, LimitAssumption DEF Edit, work, TypeOK
<1>5. /\ dev' \in [Addrs -> Row]
      /\ \A b \in Addrs : dev'[b] = IF b = a THEN r ELSE dev[b]
  BY <1>3 DEF TypeOK
<1>6. TypeOK'
  BY <1>4, <1>5 DEF TypeOK
<1>7. Stays
  BY <1>4 DEF Stays, Settled
<1>8. Counted' /\ Locks'
  BY <1>4, <1>5, CountStays, LocksStay
<1>9. NoGhosts' /\ InsertedSettled'
  BY <1>3, <1>4, <1>5 DEF NoGhosts, InsertedSettled, Settled
<1>10. SavedSettled' /\ HooksHaveJobs'
  BY <1>4 DEF SavedSettled, Settled, HooksHaveJobs
<1> QED BY <1>4, <1>6, <1>7, <1>8, <1>9, <1>10, QueueStays, HooksStay

\* A restart empties queues, frees locks and forgets jobs, not rows.
LEMMA CrashStep ==
  ASSUME ScanInv, Crash
  PROVE  ScanInv'
<1> USE DEF ScanInv
<1>1. /\ queue' = [j \in Scans |-> <<>>] /\ lock' = [a \in Addrs |-> NoScan]
      /\ crashes' \in 0..MaxCrashes
      /\ UNCHANGED <<dev, host, saved, ui, edits>>
  <2>0. crashes \in 0..MaxCrashes /\ MaxCrashes \in Nat
    BY LimitAssumption DEF TypeOK
  <2>1. crashes < MaxCrashes /\ crashes' = crashes + 1
    BY DEF Crash
  <2>2. crashes' \in 0..MaxCrashes
    BY <2>0, <2>1
  <2> QED BY <2>2 DEF Crash
<1>2. /\ scan' \in [Scans -> Scan]
      /\ \A k \in Scans : scan'[k].pc = IF scan[k].pc = "none" THEN "none" ELSE "over"
  BY CrashEnds
<1>3. \A k \in Scans : queue'[k] = <<>> /\ Len(queue'[k]) = 0 /\ queue'[k] \in Seq(Event)
  BY <1>1, EmptySeq
<1>4. TypeOK'
  BY <1>1, <1>2, <1>3 DEF TypeOK
<1>5. Stays
  BY <1>1, <1>2 DEF Stays, Settled
<1>6. Counted' /\ Locks' /\ QueueTrue'
  BY <1>1, <1>2, <1>3 DEF Counted, Locks, QueueTrue
<1>7. SavedSettled'
  BY <1>1, <1>2 DEF SavedSettled, Settled, TypeOK
<1>8. HooksHaveJobs'
  BY <1>1 DEF HooksHaveJobs
<1> QED BY <1>1, <1>4, <1>5, <1>6, <1>7, <1>8, RowsStay, HooksStay

-----------------------------------------------------------------------------
(***************************************************************************)
(* The theorems.                                                           *)
(***************************************************************************)
\* Nothing is scanned, locked, saved or shown at the start.
LEMMA InitInv == Init => ScanInv
<1> SUFFICES ASSUME Init PROVE ScanInv
  OBVIOUS
<1>1. NoRow \in Row /\ NoRow.from = NoScan
  BY DEF NoRow, Row
<1>2. NoScanYet \in Scan /\ NoScanYet.pc = "none"
  BY HostCount DEF NoScanYet, Scan
<1>3. IdleHook \in Hook /\ IdleHook.status = "idle"
  BY HostCount DEF IdleHook, Hook
<1>4. \A j \in Scans : queue[j] = <<>> /\ Len(queue[j]) = 0 /\ queue[j] \in Seq(Event)
  BY EmptySeq DEF Init
<1>5. TypeOK
  BY <1>1, <1>2, <1>3, <1>4, LimitAssumption DEF Init, TypeOK, HostState
<1>6. Counted /\ Locks /\ QueueTrue
  BY <1>2, <1>4 DEF Init, Counted, Locks, QueueTrue
<1>7. NoGhosts /\ InsertedSettled /\ SavedSettled
  BY <1>1, <1>2 DEF Init, NoGhosts, InsertedSettled, SavedSettled
<1>8. HooksHaveJobs /\ CompleteIsSaved
  BY <1>3 DEF Init, HooksHaveJobs, CompleteIsSaved
<1> QED BY <1>5, <1>6, <1>7, <1>8 DEF ScanInv

\* Every step of the task of a scan.
LEMMA RunScanStep ==
  ASSUME ScanInv, NEW j \in Scans, RunScan(j)
  PROVE  ScanInv'
BY HostStep, UpsertStep, GatheredStep, CommitStep, CompleteStep, FailStep DEF RunScan

\* Scans that no hook of this page started.
LEMMA StartedStep ==
  ASSUME ScanInv, NEW j \in Scans, NEW net \in Subnets, Scheduled(j, net) \/ Elsewhere(j, net)
  PROVE  ScanInv'
<1>1. \/ Begin(j, net, TRUE)
      \/ Begin(j, net, FALSE)
  BY DEF Scheduled, Elsewhere
<1>2. UNCHANGED <<dev, queue, lock, saved, ui, edits, crashes>>
  BY DEF Scheduled, Elsewhere
<1>3. ui' \in [Hooks -> Hook] /\ \A h \in Hooks : ui'[h] = ui[h]
  BY <1>2 DEF ScanInv, TypeOK
<1> QED BY <1>1, <1>2, <1>3, BeginStep

\* Stuttering.
LEMMA IdleStep ==
  ASSUME ScanInv, UNCHANGED vars
  PROVE  ScanInv'
<1> USE DEF vars, ScanInv
<1>1. TypeOK' /\ Counted' /\ Locks'
  BY DEF TypeOK, Counted, Answered, Locks, Exists
<1>2. NoGhosts' /\ InsertedSettled' /\ SavedSettled'
  BY DEF NoGhosts, InsertedSettled, SavedSettled, Settled
<1>3. QueueTrue' /\ HooksHaveJobs' /\ CompleteIsSaved'
  BY DEF QueueTrue, Saved, Ups, HooksHaveJobs, CompleteIsSaved
<1> QED BY <1>1, <1>2, <1>3

\* ScanInv is inductive.
THEOREM ScanInvariant == Spec => []ScanInv
<1>1. ASSUME ScanInv, [Next]_vars PROVE ScanInv'
  <2>1. CASE \E j \in Scans : RunScan(j)
    BY <1>1, <2>1, RunScanStep
  <2>2. CASE \E j \in Scans, net \in Subnets : Scheduled(j, net) \/ Elsewhere(j, net)
    BY <1>1, <2>2, StartedStep
  <2>3. CASE \E h \in Hooks : Browser(h)
    BY <1>1, <2>3, HookStep, DeliverStep, PostStep DEF Browser
  <2>4. CASE Administrator
    BY <1>1, <2>4, EditStep
  <2>5. CASE Crash
    BY <1>1, <2>5, CrashStep
  <2>6. CASE UNCHANGED vars
    BY <1>1, <2>6, IdleStep
  <2> QED BY <1>1, <2>1, <2>2, <2>3, <2>4, <2>5, <2>6 DEF Next
<1> QED BY <1>1, InitInv, PTL DEF Spec

\* Every state has the declared types: the counts stay within the number of
\* addresses, however many hosts finish at once.
THEOREM ScanTypes == Spec => []TypeOK
<1>1. ScanInv => TypeOK
  BY DEF ScanInv
<1> QED BY <1>1, ScanInvariant, PTL

\* A row that a scan inserted belongs to a host that answered that scan,
\* whatever scans overlap and whatever administrators delete meanwhile.
THEOREM InsertedAnswered == Spec => []NoGhosts
<1>1. ScanInv => NoGhosts
  BY DEF ScanInv
<1> QED BY <1>1, ScanInvariant, PTL

\* A scan that is shown as finished is committed, with the number of hosts it
\* found, for any number of scans, watchers, failures and restarts.
THEOREM CompleteSaved == Spec => []CompleteIsSaved
<1>1. ScanInv => CompleteIsSaved
  BY DEF ScanInv
<1> QED BY <1>1, ScanInvariant, PTL

\* Some member of a set of addresses is the greatest.
LEMMA Greatest ==
  ASSUME NEW T \in SUBSET Addrs, T # {}
  PROVE  \E m \in T : \A b \in T : b <= m
<1> DEFINE Above(a) == {b \in Addrs : b > a}
           U == {Above(a) : a \in T}
<1>1. U \subseteq FiniteSubsetsOf(Addrs) /\ U # {}
  BY HostCount DEF FiniteSubsetsOf
<1>2. PICK x \in U : \A y \in U : <<y, x>> \notin StrictSubsetOrdering(Addrs)
  <2>1. IsWellFoundedOn(StrictSubsetOrdering(Addrs), FiniteSubsetsOf(Addrs))
    BY FS_StrictSubsetOrderingWellFounded
  <2> HIDE DEF U
  <2> QED BY <1>1, <2>1, WFMin
<1>3. PICK m \in T : x = Above(m)
  OBVIOUS
<1>4. ASSUME NEW b \in T, b > m PROVE FALSE
  <2>1. b \in Addrs /\ m \in Addrs /\ Addrs \subseteq Nat
    BY AddrAssumption
  <2>2. b \in Above(m) /\ b \notin Above(b) /\ Above(b) \subseteq Above(m)
    BY <1>4, <2>1
  <2>3. <<Above(b), x>> \in StrictSubsetOrdering(Addrs)
    BY <1>3, <2>2 DEF StrictSubsetOrdering
  <2> QED BY <1>2, <2>3
<1>5. \A b \in T : b <= m
  BY <1>4, AddrAssumption
<1> QED BY <1>5

\* A scan that waits does so at an address before all those at which the scan
\* it waits for may wait.
LEMMA WaitsBefore ==
  ASSUME ScanInv, NEW j \in Scans, NEW k \in Scans, WaitsFor(j, k)
  PROVE  \E a \in NextResult(j) : \A b \in NextResult(k) : a < b
<1>1. PICK a \in NextResult(j) : Waits(j, a) /\ lock[a] = k
  BY DEF WaitsFor
<1>2. a \in Addrs
  BY DEF NextResult, ScanInv, TypeOK, Scan
<1>3. \A b \in scan[k].rest : a < b
  BY <1>1, <1>2, ScanAssumption DEF ScanInv, Locks
<1> QED BY <1>3 DEF NextResult

\* No number of scans wait for each other in a circle: all upsert in ascending
\* order, so that the one that waits at the greatest address waits for none
\* of them.
THEOREM NoDeadlock == Spec => []NoLockCycle
<1>1. ASSUME ScanInv PROVE NoLockCycle
  <2> SUFFICES ASSUME NEW S \in (SUBSET Scans) \ {{}}
               PROVE  \E j \in S : \A k \in S : ~ WaitsFor(j, k)
    BY DEF NoLockCycle
  <2> SUFFICES ASSUME \A j \in S : \E k \in S : WaitsFor(j, k)
               PROVE  FALSE
    OBVIOUS
  <2> DEFINE T == UNION {NextResult(j) : j \in S}
  <2>1. \A j \in S : NextResult(j) \subseteq Addrs /\ NextResult(j) # {}
    BY <1>1 DEF WaitsFor, NextResult, ScanInv, TypeOK, Scan
  <2>2. T \in SUBSET Addrs /\ T # {}
    <3>1. T \subseteq Addrs
      BY <2>1
    <3>2. PICK j \in S : j \in S
      <4>1. S # {}
        OBVIOUS
      <4> QED BY <4>1
    <3>3. PICK a \in NextResult(j) : TRUE
      BY <2>1, <3>2
    <3>4. a \in T
      BY <3>2, <3>3
    <3> QED BY <3>1, <3>4
  <2>3. PICK m \in T : \A b \in T : b <= m
    BY <2>2, Greatest
  <2>4. PICK j \in S : m \in NextResult(j)
    OBVIOUS
  <2>5. PICK k \in S : WaitsFor(j, k)
    OBVIOUS
  <2>6. PICK a \in NextResult(j) : \A b \in NextResult(k) : a < b
    BY <1>1, <2>5, WaitsBefore
  <2>7. a = m
    <3>1. a \in Nat /\ m \in Nat
      BY <2>1, <2>4, AddrAssumption
    <3>2. a <= m /\ m <= a
      BY <2>4 DEF NextResult
    <3> QED BY <3>1, <3>2
  <2>8. PICK b \in NextResult(k) : TRUE
    BY <2>1
  <2>9. b <= m /\ m < b /\ b \in Nat /\ m \in Nat
    BY <2>1, <2>2, <2>3, <2>6, <2>7, <2>8, AddrAssumption
  <2> QED BY <2>9
<1> QED BY <1>1, ScanInvariant, PTL

-----------------------------------------------------------------------------
(***************************************************************************)
(* The counter of the dialog.                                              *)
(***************************************************************************)
\* The counts that a queue reports do not fall, and lie between two numbers.
Rising(q, lo, hi) ==
  \A i \in 1..Len(q) : q[i].event = "progress" =>
    /\ lo <= q[i].n /\ q[i].n <= hi
    /\ \A m \in i..Len(q) : q[m].event = "progress" => q[i].n <= q[m].n

\* A hook that watches a scan shows no more than what is still to be read.
Watches(h) == ui[h].status \in {"starting", "scanning"} /\ ui[h].job \in Scans
Follows(h) ==
  LET j == ui[h].job IN
    /\ scan[j].pc # "none" /\ ui[h].scanned <= scan[j].count
    /\ Rising(queue[j], ui[h].scanned, scan[j].count)
Quiet(j) == Rising(queue[j], 0, scan[j].count) /\ (scan[j].pc = "none" => queue[j] = <<>>)
Fresh(h) == ui[h].status = "starting" => ui[h].scanned = 0

ProgressInv ==
  /\ \A j \in Scans : Quiet(j)
  /\ \A h \in Hooks : Fresh(h) /\ (Watches(h) => Follows(h))

\* Nothing is out of order in an empty queue.
LEMMA RisingEmpty ==
  ASSUME NEW lo, NEW hi
  PROVE  Rising(<<>>, lo, hi)
<1>1. Len(<<>>) = 0
  BY EmptySeq
<1> QED BY <1>1 DEF Rising

\* One more event: the latest count, or the end of the scan.
LEMMA RisingAppend ==
  ASSUME NEW q \in Seq(Event), NEW e \in Event, NEW lo \in Nat, NEW hi \in Nat, NEW top \in Nat,
         Rising(q, lo, hi), lo <= hi, hi <= top, e.event = "progress" => e.n = top
  PROVE  Rising(Append(q, e), lo, top)
<1> DEFINE s == Append(q, e)
<1>1. /\ s \in Seq(Event) /\ Len(s) = Len(q) + 1 /\ Len(q) \in Nat
      /\ \A i \in 1..Len(q) : s[i] = q[i]
      /\ s[Len(q) + 1] = e
  BY AppendProperties, LenProperties
<1>2. \A i \in 1..Len(q) : q[i] \in Event /\ q[i].n \in Nat
  <2>1. \A i \in 1..Len(q) : q[i] \in Event
    BY ElementOfSeq
  <2>2. \A x \in Event : x.n \in Nat
    BY DEF Event
  <2> QED BY <2>1, <2>2
<1> HIDE DEF s
<1> SUFFICES ASSUME NEW i \in 1..Len(s), s[i].event = "progress"
             PROVE  /\ lo <= s[i].n /\ s[i].n <= top
                    /\ \A m \in i..Len(s) : s[m].event = "progress" => s[i].n <= s[m].n
  BY DEF Rising, s
<1>3. CASE i = Len(q) + 1
  <2>1. s[i] = e /\ e.n = top
    BY <1>1, <1>3
  <2>2. \A m \in i..Len(s) : m = i
    BY <1>1, <1>3
  <2> QED BY <2>1, <2>2
<1>4. CASE i # Len(q) + 1
  <2>1. i \in 1..Len(q) /\ s[i] = q[i] /\ q[i].event = "progress"
    BY <1>1, <1>4
  <2>2. lo <= q[i].n /\ q[i].n <= hi /\ q[i].n \in Nat
    BY <1>2, <2>1 DEF Rising
  <2>3. ASSUME NEW m \in i..Len(s), s[m].event = "progress"
        PROVE  s[i].n <= s[m].n
    <3>1. CASE m = Len(q) + 1
      <4>1. s[m] = e /\ e.n = top
        BY <1>1, <2>3, <3>1
      <4> QED BY <2>1, <2>2, <4>1
    <3>2. CASE m # Len(q) + 1
      <4>1. m \in i..Len(q) /\ m \in 1..Len(q)
        BY <1>1, <3>2
      <4>2. s[m] = q[m]
        BY <1>1, <4>1
      <4> QED BY <2>1, <2>3, <4>1, <4>2 DEF Rising
    <3> QED BY <3>1, <3>2
  <2> QED BY <2>1, <2>2, <2>3
<1> QED BY <1>3, <1>4

\* The first event is read: a count is not above those that follow.
LEMMA RisingTail ==
  ASSUME NEW q \in Seq(Event), q # <<>>, NEW lo, NEW hi, Rising(q, lo, hi)
  PROVE  /\ Rising(Tail(q), lo, hi)
         /\ Head(q).event = "progress" =>
              lo <= Head(q).n /\ Head(q).n <= hi /\ Rising(Tail(q), Head(q).n, hi)
<1> DEFINE t == Tail(q)
<1>1. /\ Len(t) = Len(q) - 1 /\ Len(q) \in Nat /\ Len(q) > 0 /\ Head(q) = q[1]
      /\ \A i \in 1..Len(t) : t[i] = q[i + 1]
  BY HeadTailProperties, LenProperties, EmptySeq
<1> HIDE DEF t
<1>2. \A i \in 1..Len(t) : i + 1 \in 1..Len(q) /\ t[i] = q[i + 1]
  BY <1>1
<1>3. ASSUME NEW i \in 1..Len(t), t[i].event = "progress"
      PROVE  /\ lo <= t[i].n /\ t[i].n <= hi
             /\ \A m \in i..Len(t) : t[m].event = "progress" => t[i].n <= t[m].n
  <2>1. \A m \in i..Len(t) : m \in 1..Len(t) /\ m + 1 \in (i + 1)..Len(q)
    BY <1>1
  <2> QED BY <1>2, <1>3, <2>1 DEF Rising
<1>4. ASSUME Head(q).event = "progress"
      PROVE  /\ lo <= Head(q).n /\ Head(q).n <= hi
             /\ \A i \in 1..Len(t) : t[i].event = "progress" => Head(q).n <= t[i].n
  <2>1. 1 \in 1..Len(q) /\ \A i \in 1..Len(t) : i + 1 \in 1..Len(q)
    BY <1>1
  <2> QED BY <1>1, <1>2, <1>4, <2>1 DEF Rising
<1> QED BY <1>3, <1>4 DEF Rising, t

\* A step leaves the order of a queue as it is, for whoever follows it.
Keeps(j) ==
  /\ Quiet(j)'
  /\ scan[j].pc # "none" =>
       /\ scan'[j].pc # "none" /\ scan[j].count <= scan'[j].count
       /\ \A lo \in Nat : lo <= scan[j].count /\ Rising(queue[j], lo, scan[j].count) =>
            Rising(queue'[j], lo, scan'[j].count)

\* A hook that the step does not touch goes on following its scan.
LEMMA KeepsProgress ==
  ASSUME TypeOK, TypeOK', ProgressInv, \A j \in Scans : Keeps(j),
         \A h \in Hooks : ui'[h] = ui[h] \/ (Fresh(h)' /\ (Watches(h)' => Follows(h)'))
  PROVE  ProgressInv'
<1>1. ASSUME NEW h \in Hooks, ui'[h] = ui[h]
      PROVE  Fresh(h)' /\ (Watches(h)' => Follows(h)')
  <2>1. Fresh(h)'
    BY <1>1 DEF ProgressInv, Fresh
  <2>2. ASSUME Watches(h) PROVE Follows(h)'
    <3> DEFINE j == ui[h].job
    <3>1. /\ j \in Scans /\ scan[j].pc # "none" /\ ui[h].scanned <= scan[j].count
          /\ Rising(queue[j], ui[h].scanned, scan[j].count)
      BY <2>2 DEF ProgressInv, Follows, Watches
    <3>2. ui[h].scanned \in Nat /\ scan[j].count \in Nat /\ scan'[j].count \in Nat
      BY <3>1, HostCount DEF TypeOK, Hook, Scan
    <3>3. scan'[j].pc # "none" /\ scan[j].count <= scan'[j].count
          /\ Rising(queue'[j], ui[h].scanned, scan'[j].count)
      BY <3>1, <3>2 DEF Keeps
    <3>4. ui[h].scanned <= scan'[j].count
      BY <3>1, <3>2, <3>3
    <3> QED BY <1>1, <3>3, <3>4 DEF Follows
  <2> QED BY <1>1, <2>1, <2>2 DEF Watches
<1>2. \A h \in Hooks : Fresh(h)' /\ (Watches(h)' => Follows(h)')
  BY <1>1
<1> QED BY <1>2 DEF ProgressInv, Keeps

\* A scan without a step.
LEMMA UnmovedKeeps ==
  ASSUME TypeOK, ProgressInv, NEW j \in Scans, scan'[j].pc = scan[j].pc \/ scan[j].pc # "none",
         scan'[j].pc = "none" => scan[j].pc = "none",
         scan'[j].count = scan[j].count, queue'[j] = queue[j]
  PROVE  Keeps(j)
<1>1. scan[j].count \in Nat
  BY HostCount DEF TypeOK, Scan
<1> QED BY <1>1 DEF ProgressInv, Keeps, Quiet

\* A scan that has begun queues an event: its count, or its end.
LEMMA AppendKeeps ==
  ASSUME TypeOK, TypeOK', ProgressInv, NEW j \in Scans, scan[j].pc # "none", scan'[j].pc # "none",
         scan[j].count <= scan'[j].count, NEW e \in Event, queue'[j] = Append(queue[j], e),
         e.event = "progress" => e.n = scan'[j].count
  PROVE  Keeps(j)
<1>1. queue[j] \in Seq(Event) /\ scan[j].count \in Nat /\ scan'[j].count \in Nat
  BY HostCount DEF TypeOK, Scan
<1>2. \A lo \in Nat : lo <= scan[j].count /\ Rising(queue[j], lo, scan[j].count) =>
        Rising(queue'[j], lo, scan'[j].count)
  BY <1>1, RisingAppend
<1>3. Rising(queue'[j], 0, scan'[j].count)
  BY <1>1, <1>2 DEF ProgressInv, Quiet
<1> QED BY <1>2, <1>3 DEF Keeps, Quiet

\* A host that counts without an event.
LEMMA CountKeeps ==
  ASSUME TypeOK, TypeOK', ProgressInv, NEW j \in Scans, scan[j].pc # "none", scan'[j].pc # "none",
         scan[j].count <= scan'[j].count, queue'[j] = queue[j]
  PROVE  Keeps(j)
<1>1. scan[j].count \in Nat /\ scan'[j].count \in Nat /\ queue[j] \in Seq(Event)
  BY HostCount DEF TypeOK, Scan
<1>2. \A i \in 1..Len(queue[j]) : queue[j][i].n \in Nat
  <2>1. \A i \in 1..Len(queue[j]) : queue[j][i] \in Event
    BY <1>1, ElementOfSeq
  <2> QED BY <2>1, HostCount DEF Event
<1>3. \A lo \in Nat : Rising(queue[j], lo, scan[j].count) => Rising(queue'[j], lo, scan'[j].count)
  BY <1>1, <1>2 DEF Rising
<1>4. Rising(queue'[j], 0, scan'[j].count)
  BY <1>3 DEF ProgressInv, Quiet
<1> QED BY <1>3, <1>4 DEF Keeps, Quiet

\* The task of a scan counts upwards and reports what it has counted.
LEMMA RunScanKeeps ==
  ASSUME ScanInv, ScanInv', ProgressInv, NEW j \in Scans, RunScan(j)
  PROVE  (\A k \in Scans : Keeps(k)) /\ ui' = ui
<1> USE DEF ScanInv
<1>1. ASSUME \A k \in Scans : k # j => scan'[k] = scan[k] /\ queue'[k] = queue[k], Keeps(j)
      PROVE  \A k \in Scans : Keeps(k)
  <2>1. ASSUME NEW k \in Scans, k # j PROVE Keeps(k)
    BY <1>1, <2>1, UnmovedKeeps
  <2> QED BY <1>1, <2>1
<1>2. ASSUME NEW a \in Addrs, HostStart(j, a) \/ PingDone(j, a) \/ OsDone(j, a)
      PROVE  (\A k \in Scans : Keeps(k)) /\ ui' = ui
  <2> DEFINE r == [scan[j] EXCEPT !.count = scan[j].count + 1]
             e == [event |-> "progress", n |-> scan[j].count + 1]
  <2>1. /\ scan[j].pc = "hosts" /\ ui' = ui
        /\ scan' = scan \/ ScanBecomes(j, r)
        /\ queue' = queue \/ Queued(j, e)
    BY <1>2, HostMoves
  <2>2. r.pc = "hosts" /\ r.count = scan[j].count + 1 /\ scan[j].count \in Nat
    BY <2>1, HostCount DEF TypeOK, Scan
  <2>3. e.event = "progress" /\ e.n = scan[j].count + 1
    OBVIOUS
  <2>4. Queued(j, e) => scan' # scan
    <3>1. ASSUME scan' = scan, Queued(j, e) PROVE FALSE
      <4>1. ~ \E x \in {"up", "down", "lost"} : HostDone(j, a, x)
        <5>1. scan'[j].count = scan[j].count
          BY <3>1
        <5>2. ASSUME NEW x \in {"up", "down", "lost"}, HostDone(j, a, x)
              PROVE  scan'[j].count = scan[j].count + 1
          <6>1. scan' = [scan EXCEPT ![j] = r]
            BY <5>2 DEF HostDone
          <6> HIDE DEF r
          <6> QED BY <2>2, <6>1 DEF TypeOK
        <5> QED BY <2>2, <5>1, <5>2
      <4>2. queue' = queue
        BY <1>2, <4>1 DEF HostStart, PingDone, OsDone
      <4>3. Len(Append(queue[j], e)) = Len(queue[j]) + 1 /\ Len(queue[j]) \in Nat
        BY AppendProperties, LenProperties DEF TypeOK
      <4> QED BY <3>1, <4>2, <4>3 DEF Queued
    <3> QED BY <3>1
  <2> HIDE DEF r, e
  <2>5. /\ scan'[j].pc # "none"
        /\ scan'[j].count = scan[j].count \/ scan'[j].count = scan[j].count + 1
        /\ Queued(j, e) => scan'[j].count = scan[j].count + 1
        /\ \A k \in Scans : k # j => scan'[k] = scan[k] /\ queue'[k] = queue[k]
    BY <2>1, <2>2, <2>4 DEF ScanBecomes, Queued
  <2>6. scan[j].count <= scan'[j].count
    BY <2>2, <2>5
  <2>7. Keeps(j)
    <3>1. CASE queue' = queue
      BY <2>1, <2>5, <2>6, <3>1, CountKeeps
    <3>2. CASE Queued(j, e)
      <4>1. e \in Event
        BY <2>2, <2>3, <2>5, <3>2 DEF TypeOK, Scan, Event, e
      <4>2. queue'[j] = Append(queue[j], e) /\ e.n = scan'[j].count
        BY <2>3, <2>5, <3>2 DEF Queued
      <4> QED BY <2>1, <2>5, <2>6, <4>1, <4>2, AppendKeeps
    <3> QED BY <2>1, <3>1, <3>2
  <2> QED BY <1>1, <2>1, <2>5, <2>7
<1>3. ASSUME NEW pc \in {"write", "audit", "over"}, Enters(j, pc), scan[j].pc # "none", queue' = queue
      PROVE  \A k \in Scans : Keeps(k)
  <2>1. Keeps(j)
    BY <1>3, UnmovedKeeps DEF Enters
  <2> QED BY <1>1, <1>3, <2>1 DEF Enters
<1>4. ASSUME Enters(j, "over"), scan[j].pc # "none", NEW e \in Event, e.event # "progress",
             queue' = [queue EXCEPT ![j] = Append(queue[j], e)]
      PROVE  \A k \in Scans : Keeps(k)
  <2>1. Queued(j, e)
    BY <1>4, QueueSet
  <2>2. scan'[j].count = scan[j].count /\ scan[j].count \in Nat
    BY <1>4, HostCount DEF Enters, TypeOK, Scan
  <2>3. Keeps(j)
    BY <1>4, <2>1, <2>2, AppendKeeps DEF Enters, Queued
  <2> QED BY <1>1, <1>4, <2>1, <2>3 DEF Enters, Queued
<1>5. CASE \E a \in Addrs : Upsert(j, a)
  <2>1. PICK a \in Addrs : Upsert(j, a)
    BY <1>5
  <2>2. scan[j].pc # "none" /\ queue' = queue /\ ui' = ui
    BY <2>1 DEF Upsert
  <2> QED BY <1>3, <2>1, <2>2, UpsertMoves
<1>6. CASE Gathered(j)
  <2>1. scan[j].pc # "none" /\ queue' = queue /\ ui' = ui
    BY <1>6 DEF Gathered
  <2> QED BY <1>3, <1>6, <2>1, EntersWrite
<1>7. CASE CommitResults(j)
  <2>1. scan[j].pc # "none" /\ queue' = queue /\ ui' = ui
    BY <1>7 DEF CommitResults, Commit
  <2> QED BY <1>3, <1>7, <2>1, EntersAudit
<1>8. CASE Complete(j)
  <2> DEFINE e == [event |-> "complete", n |-> Cardinality(Ups(j))]
  <2>1. Ups(j) \in SUBSET Addrs
    BY DEF Ups
  <2>2. e \in Event /\ e.event # "progress"
    BY <2>1, HostCount DEF Event
  <2>3. queue' = [queue EXCEPT ![j] = Append(queue[j], e)] /\ scan[j].pc # "none" /\ ui' = ui
    BY <1>8 DEF Complete
  <2> HIDE DEF e
  <2> QED BY <1>4, <1>8, <2>2, <2>3, EntersOver
<1>9. CASE Fail(j)
  <2> DEFINE e == [event |-> "error", n |-> 0]
  <2>1. e \in Event /\ e.event # "progress"
    BY HostCount DEF Event
  <2>2. queue' = [queue EXCEPT ![j] = Append(queue[j], e)] /\ scan[j].pc # "none" /\ ui' = ui
    BY <1>9 DEF Fail, ReportError
  <2> HIDE DEF e
  <2> QED BY <1>4, <1>9, <2>1, <2>2, EntersOver
<1> QED BY <1>2, <1>5, <1>6, <1>7, <1>8, <1>9 DEF RunScan

\* A new scan has counted nothing, and its queue is empty.
LEMMA BeginKeeps ==
  ASSUME ScanInv, ProgressInv, NEW j \in Scans, NEW net \in Subnets, NEW sched \in BOOLEAN,
         Begin(j, net, sched), queue' = queue
  PROVE  /\ \A k \in Scans : Keeps(k)
         /\ scan'[j].pc # "none" /\ scan'[j].count = 0 /\ queue'[j] = <<>>
<1> DEFINE r == [pc |-> "hosts", status |-> "running", sched |-> sched, count |-> 0, rest |-> {}]
<1>1. ScanBecomes(j, r) /\ scan[j].pc = "none"
  BY BeginScan DEF ScanInv
<1>2. r.pc = "hosts" /\ r.count = 0
  OBVIOUS
<1> HIDE DEF r
<1>3. scan'[j].pc # "none" /\ scan'[j].count = 0 /\ queue'[j] = <<>>
  BY <1>1, <1>2 DEF ScanBecomes, ProgressInv, Quiet
<1>4. Keeps(j)
  BY <1>1, <1>3, RisingEmpty DEF Keeps, Quiet
<1>5. ASSUME NEW k \in Scans, k # j PROVE Keeps(k)
  <2>1. scan'[k] = scan[k] /\ queue'[k] = queue[k]
    BY <1>1, <1>5 DEF ScanBecomes
  <2> QED BY <2>1, UnmovedKeeps DEF ScanInv
<1> QED BY <1>3, <1>4, <1>5

\* A restart empties all queues.
LEMMA CrashKeeps ==
  ASSUME ScanInv, ProgressInv, Crash
  PROVE  (\A k \in Scans : Keeps(k)) /\ ui' = ui
<1>1. TypeOK
  BY DEF ScanInv
<1>2. \A k \in Scans : /\ scan'[k].pc = IF scan[k].pc = "none" THEN "none" ELSE "over"
                       /\ scan'[k].count = scan[k].count /\ scan[k].count \in Nat
                       /\ queue'[k] = <<>>
  <2>1. \A k \in Scans : scan[k].count \in Nat
    BY <1>1, HostCount DEF TypeOK, Scan
  <2>2. \A k \in Scans : queue'[k] = <<>>
    BY DEF Crash
  <2> QED BY <1>1, <2>1, <2>2, CrashEnds
<1>3. ui' = ui
  BY DEF Crash
<1> QED BY <1>2, <1>3, RisingEmpty DEF Keeps, Quiet

\* An event is read: the count it brings is not below the one shown, and those
\* that are still queued are not below it.
LEMMA ReadForward ==
  ASSUME ScanInv, ScanInv', ProgressInv, NEW h \in Hooks, Deliver(h)
  PROVE  /\ \A k \in Scans : Keeps(k)
         /\ \A g \in Hooks : g # h => ui'[g] = ui[g]
         /\ ui'[h].status # "starting"
         /\ ui'[h].status = "scanning" => Follows(h)' /\ ui'[h].scanned >= ui[h].scanned
<1> USE DEF ScanInv
<1>0. PICK j \in Scans : j = ui[h].job
  BY DEF Deliver, FrameReady, Streaming, HooksHaveJobs
<1> DEFINE q == queue[j]
           e == Head(q)
<1>1. /\ ui[h] \in Hook /\ ui[h].status = "scanning"
      /\ q \in Seq(Event) /\ q # <<>>
      /\ scan[j].count \in Nat
  BY <1>0, HostCount DEF Deliver, FrameReady, Streaming, TypeOK, Scan
<1>2. /\ ui' = [ui EXCEPT ![h] = Shown(h, e)] /\ queue' = [queue EXCEPT ![j] = Tail(q)]
      /\ scan' = scan
  BY <1>0 DEF Deliver
<1>3. /\ \A k \in Scans : queue'[k] = IF k = j THEN Tail(q) ELSE queue[k]
      /\ \A g \in Hooks : ui'[g] = IF g = h THEN Shown(h, e) ELSE ui[g]
  BY <1>1, <1>2 DEF TypeOK
<1>4. Follows(h) /\ Quiet(j)
  BY <1>0, <1>1 DEF ProgressInv, Watches
<1>5. Keeps(j)
  <2>1. \A lo \in Nat : Rising(q, lo, scan[j].count) => Rising(Tail(q), lo, scan[j].count)
    <3> HIDE DEF q
    <3> QED BY <1>1, RisingTail
  <2>2. queue'[j] = Tail(q) /\ scan'[j] = scan[j] /\ scan[j].pc # "none"
    BY <1>0, <1>1, <1>2, <1>3, <1>4 DEF Follows
  <2>3. Rising(Tail(q), 0, scan[j].count)
    BY <1>4, <2>1 DEF Quiet
  <2> QED BY <1>1, <2>1, <2>2, <2>3 DEF Keeps, Quiet
<1>6. \A k \in Scans : Keeps(k)
  <2>1. ASSUME NEW k \in Scans, k # j PROVE Keeps(k)
    BY <1>2, <1>3, <2>1, UnmovedKeeps
  <2> QED BY <1>5, <2>1
<1>7. e \in Event
  <2> HIDE DEF q
  <2> QED BY <1>1, HeadTailProperties
<1>8. CASE e.event = "progress"
  <2>1. /\ ui[h].scanned <= e.n /\ e.n <= scan[j].count
        /\ Rising(Tail(q), e.n, scan[j].count)
    <3>1. Rising(q, ui[h].scanned, scan[j].count)
      BY <1>0, <1>4 DEF Follows
    <3> HIDE DEF q
    <3> QED BY <1>1, <1>8, <3>1, RisingTail
  <2> DEFINE s == [ui[h] EXCEPT !.scanned = e.n]
  <2>2. s.job = j /\ s.status = "scanning" /\ s.scanned = e.n
    BY <1>0, <1>1 DEF Hook
  <2>3. ui'[h] = s
    BY <1>3, <1>8 DEF Shown
  <2> HIDE DEF s
  <2>4. Follows(h)'
    <3>1. /\ ui'[h].job = j /\ ui'[h].scanned = e.n /\ scan' = scan /\ queue'[j] = Tail(q)
          /\ scan[j].pc # "none"
      BY <1>0, <1>1, <1>2, <1>3, <1>4, <2>2, <2>3 DEF Follows
    <3> QED BY <2>1, <3>1 DEF Follows
  <2>5. ui'[h].scanned >= ui[h].scanned
    <3>1. e.n \in Nat /\ ui[h].scanned \in Nat
      BY <1>1, <1>7, HostCount DEF Event, Hook
    <3> QED BY <2>1, <2>2, <2>3, <3>1
  <2> QED BY <1>3, <1>6, <2>2, <2>3, <2>4, <2>5
<1>9. CASE e.event = "complete" \/ e.event = "error"
  <2>1. ui'[h].status \in {"complete", "error"}
    BY <1>1, <1>3, <1>9 DEF Shown, Hook
  <2> QED BY <1>3, <1>6, <2>1
<1> QED BY <1>7, <1>8, <1>9 DEF Event

\* A hook that posts shows nothing yet of the scan that begins.
LEMMA PostForward ==
  ASSUME ScanInv, ScanInv', ProgressInv, NEW h \in Hooks, NEW j \in Scans, NEW net \in Subnets,
         Post(h, j, net)
  PROVE  ProgressInv' /\ ui'[h].status = "starting" /\ \A g \in Hooks : g # h => ui'[g] = ui[g]
<1> DEFINE r == [ui[h] EXCEPT !.job = j]
<1>1. r.status = "starting" /\ r.scanned = 0 /\ r.job = j
  BY DEF Post, ScanInv, TypeOK, Hook, ProgressInv, Fresh
<1>2. ui' = [ui EXCEPT ![h] = r]
  BY DEF Post
<1> HIDE DEF r
<1>3. \A g \in Hooks : ui'[g] = IF g = h THEN r ELSE ui[g]
  BY <1>2 DEF ScanInv, TypeOK
<1>4. /\ \A k \in Scans : Keeps(k)
      /\ scan'[j].pc # "none" /\ scan'[j].count = 0 /\ queue'[j] = <<>>
  BY BeginKeeps DEF Post
<1>5. Fresh(h)' /\ Follows(h)'
  BY <1>1, <1>3, <1>4, RisingEmpty DEF Fresh, Follows
<1>6. ProgressInv'
  BY <1>3, <1>4, <1>5, KeepsProgress DEF ScanInv
<1> QED BY <1>1, <1>3, <1>6

\* The hook without its stream begins to watch the scan it has posted, with
\* nothing shown, or ceases to watch.
LEMMA HookForward ==
  ASSUME ScanInv, ScanInv', ProgressInv, NEW h \in Hooks,
         \/ StartScan(h) \/ Posted(h) \/ StreamFails(h) \/ StreamEnds(h)
         \/ Dismiss(h) \/ LeavePage(h)
  PROVE  /\ ProgressInv'
         /\ \A g \in Hooks : g # h => ui'[g] = ui[g]
         /\ ui[h].status = "scanning" /\ ui'[h].status = "scanning" =>
              ui'[h].scanned = ui[h].scanned
<1> USE DEF ScanInv
<1>1. UNCHANGED <<scan, queue>>
  BY DEF StartScan, Posted, StreamFails, StreamEnds, Dismiss, LeavePage, work
<1>2. \A k \in Scans : Keeps(k)
  BY <1>1, UnmovedKeeps
<1>3. IdleHook \in Hook /\ IdleHook.status = "idle" /\ IdleHook.job = NoScan /\ IdleHook.scanned = 0
  BY HostCount DEF Hook, IdleHook
<1>4. ASSUME NEW r, ui' = [ui EXCEPT ![h] = r]
      PROVE  ui'[h] = r /\ \A g \in Hooks : g # h => ui'[g] = ui[g]
  BY <1>4 DEF TypeOK
<1>5. \A g \in Hooks : g # h => ui'[g] = ui[g]
  BY <1>4 DEF StartScan, Posted, StreamFails, StreamEnds, Dismiss, LeavePage
<1>6. Fresh(h)' /\ (Watches(h)' => Follows(h)')
      /\ (ui[h].status = "scanning" /\ ui'[h].status = "scanning" =>
            ui'[h].scanned = ui[h].scanned)
  <2>1. ASSUME NEW s \in {"starting", "error"}, ui' = [ui EXCEPT ![h] = [IdleHook EXCEPT !.status = s]]
        PROVE  ui'[h].status = s /\ ui'[h].scanned = 0 /\ ui'[h].job = NoScan
    <3> DEFINE r == [IdleHook EXCEPT !.status = s]
    <3>1. r.status = s /\ r.scanned = 0 /\ r.job = NoScan
      BY <1>3 DEF Hook
    <3> HIDE DEF r
    <3> QED BY <1>4, <2>1, <3>1 DEF r
  <2>2. ASSUME NEW s \in {"scanning", "error"}, ui' = [ui EXCEPT ![h].status = s]
        PROVE  ui'[h].status = s /\ ui'[h].scanned = ui[h].scanned /\ ui'[h].job = ui[h].job
    <3> DEFINE r == [ui[h] EXCEPT !.status = s]
    <3>1. r.status = s /\ r.scanned = ui[h].scanned /\ r.job = ui[h].job
      BY DEF TypeOK, Hook
    <3> HIDE DEF r
    <3> QED BY <1>4, <2>2, <3>1 DEF r
  <2>3. CASE StartScan(h)
    <3>1. ui[h].status # "scanning" /\ ui'[h].scanned = 0 /\ ui'[h].job = NoScan
      BY <2>1, <2>3 DEF StartScan
    <3> QED BY <3>1, ScanAssumption DEF Fresh, Watches
  <2>4. CASE Posted(h)
    <3>1. CASE ui[h].job # NoScan /\ ui' = [ui EXCEPT ![h].status = "scanning"]
      <4>1. ui'[h].status = "scanning" /\ ui'[h].scanned = ui[h].scanned /\ ui'[h].job = ui[h].job
        BY <2>2, <3>1
      <4>2. Watches(h) /\ ui[h].status = "starting"
        BY <2>4, <3>1 DEF Posted, Watches, TypeOK, Hook
      <4>3. Follows(h)'
        BY <1>1, <4>1, <4>2 DEF ProgressInv, Follows
      <4> QED BY <4>1, <4>2, <4>3 DEF Fresh
    <3>2. CASE ui' = [ui EXCEPT ![h] = [IdleHook EXCEPT !.status = "error"]]
      BY <2>1, <3>2 DEF Fresh, Watches
    <3> QED BY <2>4, <3>1, <3>2 DEF Posted
  <2>5. CASE StreamFails(h)
    BY <2>2, <2>5 DEF StreamFails, Streaming, Fresh, Watches
  <2>6. CASE Dismiss(h) \/ LeavePage(h)
    <3>1. ui'[h] = IdleHook
      BY <1>4, <2>6 DEF Dismiss, LeavePage
    <3> QED BY <1>3, <3>1 DEF Fresh, Watches
  <2>7. CASE StreamEnds(h)
    <3> DEFINE r == [ui[h] EXCEPT !.ended = TRUE]
    <3>1. r.status = ui[h].status /\ r.scanned = ui[h].scanned /\ r.job = ui[h].job
      BY DEF TypeOK, Hook
    <3>2. ui' = [ui EXCEPT ![h] = r] /\ ui[h].status = "scanning"
      BY <2>7 DEF StreamEnds, Streaming
    <3> HIDE DEF r
    <3>3. ui'[h].status = "scanning" /\ ui'[h].scanned = ui[h].scanned
          /\ ui'[h].job = ui[h].job
      BY <1>4, <3>1, <3>2
    <3>4. Watches(h)
      BY <3>2 DEF Watches, HooksHaveJobs
    <3>5. Follows(h)'
      BY <1>1, <3>3, <3>4 DEF ProgressInv, Follows
    <3> QED BY <3>3, <3>5 DEF Fresh
  <2> QED BY <2>3, <2>4, <2>5, <2>6, <2>7
<1>7. \A g \in Hooks : ui'[g] = ui[g] \/ (Fresh(g)' /\ (Watches(g)' => Follows(g)'))
  BY <1>5, <1>6
<1>8. ProgressInv'
  BY <1>2, <1>7, KeepsProgress
<1> QED BY <1>5, <1>6, <1>8

\* At the start nobody watches and the queues are empty.
LEMMA InitProgress == Init => ProgressInv
<1> SUFFICES ASSUME Init PROVE ProgressInv
  OBVIOUS
<1>1. IdleHook.status = "idle"
  BY DEF IdleHook
<1>2. \A h \in Hooks : Fresh(h) /\ ~ Watches(h)
  BY <1>1 DEF Init, Fresh, Watches
<1>3. \A j \in Scans : Quiet(j)
  BY RisingEmpty DEF Init, Quiet
<1> QED BY <1>2, <1>3 DEF ProgressInv

\* Every step keeps the order, and no counter that is watched moves back.
LEMMA StepForward ==
  ASSUME ScanInv, ScanInv', ProgressInv, [Next]_vars
  PROVE  /\ ProgressInv'
         /\ \A h \in Hooks : ui[h].status = "scanning" /\ ui'[h].status = "scanning" =>
              ui'[h].scanned >= ui[h].scanned
<1> USE DEF ScanInv
<1>1. \A h \in Hooks : ui[h].scanned \in Nat
  BY HostCount DEF TypeOK, Hook
<1>2. ASSUME \A k \in Scans : Keeps(k), ui' = ui
      PROVE  /\ ProgressInv'
             /\ \A h \in Hooks : ui'[h].scanned >= ui[h].scanned
  BY <1>1, <1>2, KeepsProgress
<1>3. CASE \E j \in Scans : RunScan(j)
  BY <1>2, <1>3, RunScanKeeps
<1>4. CASE \E j \in Scans, net \in Subnets : Scheduled(j, net) \/ Elsewhere(j, net)
  <2>1. PICK j \in Scans, net \in Subnets : Scheduled(j, net) \/ Elsewhere(j, net)
    BY <1>4
  <2>2. queue' = queue /\ ui' = ui /\ (Begin(j, net, TRUE) \/ Begin(j, net, FALSE))
    BY <2>1 DEF Scheduled, Elsewhere
  <2>3. \A k \in Scans : Keeps(k)
    BY <2>2, BeginKeeps
  <2> QED BY <1>2, <2>2, <2>3
<1>5. CASE \E h \in Hooks : Browser(h)
  <2>1. PICK g \in Hooks : Browser(g)
    BY <1>5
  <2>2. CASE \/ StartScan(g) \/ Posted(g) \/ StreamFails(g) \/ StreamEnds(g)
           \/ Dismiss(g) \/ LeavePage(g)
    BY <1>1, <2>2, HookForward
  <2>3. CASE Deliver(g)
    <3>1. /\ \A k \in Scans : Keeps(k)
          /\ \A h \in Hooks : h # g => ui'[h] = ui[h]
          /\ ui'[g].status # "starting"
          /\ ui'[g].status = "scanning" => Follows(g)' /\ ui'[g].scanned >= ui[g].scanned
      BY <2>3, ReadForward
    <3>2. \A h \in Hooks : ui'[h] = ui[h] \/ (Fresh(h)' /\ (Watches(h)' => Follows(h)'))
      BY <3>1 DEF Fresh, Watches
    <3>3. ProgressInv'
      BY <3>1, <3>2, KeepsProgress
    <3> QED BY <1>1, <3>1, <3>3
  <2>4. CASE \E j \in Scans, net \in Subnets : Post(g, j, net)
    BY <1>1, <2>4, PostForward
  <2> QED BY <2>1, <2>2, <2>3, <2>4 DEF Browser
<1>6. CASE Administrator
  <2>1. UNCHANGED <<scan, queue, ui>>
    BY <1>6 DEF Administrator, CreateDevice, UpdateDevice, DeleteDevice, Edit, work
  <2>2. \A k \in Scans : Keeps(k)
    BY <2>1, UnmovedKeeps
  <2> QED BY <1>2, <2>1, <2>2
<1>7. CASE Crash
  BY <1>2, <1>7, CrashKeeps
<1>8. CASE UNCHANGED vars
  <2>1. UNCHANGED <<scan, queue, ui>>
    BY <1>8 DEF vars
  <2>2. \A k \in Scans : Keeps(k)
    BY <2>1, UnmovedKeeps
  <2> QED BY <1>2, <2>1, <2>2
<1> QED BY <1>3, <1>4, <1>5, <1>6, <1>7, <1>8 DEF Next

\* The counter of a watched scan never moves back, in whatever order its hosts
\* finish and however far its reader is behind.
THEOREM CounterForward == Spec => ProgressForward
<1>1. Spec => []ProgressInv
  <2>1. ScanInv /\ ScanInv' /\ ProgressInv /\ [Next]_vars => ProgressInv'
    BY StepForward
  <2> QED BY <2>1, InitProgress, ScanInvariant, PTL DEF Spec
<1>2. ScanInv /\ ScanInv' /\ ProgressInv /\ [Next]_vars =>
        [\A h \in Hooks : ui[h].status = "scanning" /\ ui'[h].status = "scanning" =>
           ui'[h].scanned >= ui[h].scanned]_vars
  BY StepForward
<1> QED BY <1>1, <1>2, ScanInvariant, PTL DEF Spec, ProgressForward
=============================================================================
