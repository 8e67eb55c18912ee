--------------------------- MODULE DashboardProofs ---------------------------
(***************************************************************************)
(* Proofs about Dashboard, for any number of devices, hires, weeks and     *)
(* entries and any commits between the statements of a snapshot.           *)
(***************************************************************************)
EXTENDS Dashboard, FiniteSetTheorems, WellFoundedInduction, TLAPS

-----------------------------------------------------------------------------
(***************************************************************************)
(* Sums and counts.                                                        *)
(***************************************************************************)

\* A nonempty set of subsets of a finite set has a smallest one.
LEMMA SmallestSubset ==
  ASSUME NEW S, IsFiniteSet(S), NEW T, T \subseteq SUBSET S, T # {}
  PROVE  \E s \in T : \A r \in T : r \subseteq s => r = s
<1>1. T \subseteq FiniteSubsetsOf(S)
  BY FS_FiniteSubsetsOfFinite
<1>2. \E s \in T : \A r \in T : <<r, s>> \notin StrictSubsetOrdering(S)
  BY <1>1, FS_StrictSubsetOrderingWellFounded, WFMin
<1> QED BY <1>2 DEF StrictSubsetOrdering

\* The function g on the subsets of S adds up one field of F, one element at a
\* time.
AddsUp(g, F, field, S) ==
  /\ g \in [SUBSET S -> Nat] /\ g[{}] = 0
  /\ \A s \in SUBSET S : \A x \in s : g[s] = F[x][field] + g[s \ {x}]

\* A sum over S is what any such function says.
LEMMA TotalIs ==
  ASSUME NEW S, IsFiniteSet(S), NEW F, NEW field, NEW g, AddsUp(g, F, field, S)
  PROVE  Total(F, field, S) = g[S]
<1> USE DEF AddsUp
<1> DEFINE some(s) == CHOOSE x \in s : TRUE
           Sums(h) == h = [s \in SUBSET S |-> IF s = {} THEN 0
                                              ELSE F[some(s)][field] + h[s \ {some(s)}]]
           iter == CHOOSE h : Sums(h)
<1>1. Total(F, field, S) = iter[S]
  BY DEF Total, MapThenSumSet, MapThenFoldSet
<1>2. \A s \in SUBSET S : s # {} => some(s) \in s
  OBVIOUS
<1> HIDE DEF some
<1>3. Sums(g)
  BY <1>2
<1>4. Sums(iter)
  <2> HIDE DEF Sums
  <2> QED BY <1>3
<1> HIDE DEF iter
<1> DEFINE Wrong == {s \in SUBSET S : iter[s] # g[s]}
<1>5. Wrong = {}
  <2> SUFFICES ASSUME Wrong # {} PROVE FALSE
    OBVIOUS
  <2>1. PICK s \in Wrong : \A r \in Wrong : r \subseteq s => r = s
    <3>1. Wrong \subseteq SUBSET S
      OBVIOUS
    <3> HIDE DEF Wrong
    <3> QED BY <3>1, SmallestSubset
  <2>2. s # {}
    BY <1>4, <2>1
  <2> DEFINE r == s \ {some(s)}
  <2>3. r \in SUBSET S /\ r \subseteq s /\ r # s
    BY <1>2, <2>1, <2>2
  <2>4. iter[r] = g[r]
    BY <2>1, <2>3
  <2>5. iter[s] = F[some(s)][field] + iter[r]
    BY <1>4, <2>1, <2>2
  <2>6. g[s] = F[some(s)][field] + g[r]
    BY <1>2, <2>1, <2>2
  <2> QED BY <2>1, <2>4, <2>5, <2>6
<1> QED BY <1>1, <1>5

\* A sum of naturals is one: it counts pairs of an element and one of its units.
LEMMA TotalType ==
  ASSUME NEW S, IsFiniteSet(S), NEW F, NEW field, \A x \in S : F[x][field] \in Nat
  PROVE  Total(F, field, S) \in Nat
<1> DEFINE Units(x) == {x} \X (1..F[x][field])
           Pairs(s) == {p \in S \X Nat : p[1] \in s /\ p[2] \in 1..F[p[1]][field]}
           g == [s \in SUBSET S |-> Cardinality(Pairs(s))]
<1>1. ASSUME NEW x \in S
      PROVE  IsFiniteSet(Units(x)) /\ Cardinality(Units(x)) = F[x][field]
  <2>1. IsFiniteSet({x}) /\ Cardinality({x}) = 1
    BY FS_Singleton
  <2>2. IsFiniteSet(1..F[x][field]) /\ Cardinality(1..F[x][field]) = F[x][field]
    <3>1. ASSUME NEW n \in Nat PROVE IsFiniteSet(1..n) /\ Cardinality(1..n) = n
      BY FS_Interval
    <3> QED BY <3>1
  <2>3. Cardinality(Units(x)) = 1 * F[x][field] /\ IsFiniteSet(Units(x))
    BY <2>1, <2>2, FS_Product
  <2> QED BY <2>3
<1>2. ASSUME NEW s \in SUBSET S, NEW x \in s
      PROVE  Pairs(s) = Pairs(s \ {x}) \cup Units(x) /\ Pairs(s \ {x}) \cap Units(x) = {}
  OBVIOUS
<1>3. Pairs({}) = {}
  OBVIOUS
<1> HIDE DEF Units, Pairs
<1> DEFINE Endless == {s \in SUBSET S : ~ IsFiniteSet(Pairs(s))}
<1>4. Endless = {}
  <2> SUFFICES ASSUME Endless # {} PROVE FALSE
    OBVIOUS
  <2>1. PICK s \in Endless : \A r \in Endless : r \subseteq s => r = s
    <3>1. Endless \subseteq SUBSET S
      OBVIOUS
    <3> HIDE DEF Endless
    <3> QED BY <3>1, SmallestSubset
  <2>2. PICK x \in s : TRUE
    BY <1>3, <2>1, FS_EmptySet
  <2>3. IsFiniteSet(Pairs(s \ {x}))
    BY <2>1, <2>2
  <2>4. IsFiniteSet(Units(x)) /\ Pairs(s) = Pairs(s \ {x}) \cup Units(x)
    BY <1>1, <1>2, <2>1, <2>2
  <2>5. IsFiniteSet(Pairs(s))
    BY <2>3, <2>4, FS_Union
  <2> QED BY <2>1, <2>5
<1>5. ASSUME NEW s \in SUBSET S, NEW x \in s
      PROVE  g[s] = F[x][field] + g[s \ {x}]
  <2>1. IsFiniteSet(Pairs(s \ {x})) /\ Cardinality(Pairs(s \ {x})) \in Nat
    BY <1>4, FS_CardinalityType
  <2>2. Cardinality(Pairs(s)) = Cardinality(Pairs(s \ {x})) + Cardinality(Units(x))
                                - Cardinality({})
    BY <1>1, <1>2, <2>1, FS_Union
  <2> QED BY <1>1, <2>1, <2>2, FS_EmptySet
<1>6. g \in [SUBSET S -> Nat] /\ g[{}] = 0
  BY <1>3, <1>4, FS_CardinalityType, FS_EmptySet
<1> HIDE DEF g
<1>7. \A s \in SUBSET S : \A x \in s : g[s] = F[x][field] + g[s \ {x}]
  BY <1>5
<1>8. AddsUp(g, F, field, S)
  BY <1>6, <1>7 DEF AddsUp
<1>9. Total(F, field, S) = g[S]
  BY <1>8, TotalIs
<1> QED BY <1>6, <1>9

\* Some member of a nonempty set of naturals is the least.
LEMMA Least ==
  ASSUME NEW T \in SUBSET Nat, T # {}
  PROVE  \E m \in T : \A b \in T : m <= b
<1>1. \E m \in T : \A b \in T : <<b, m>> \notin OpToRel(<, Nat)
  BY NatLessThanWellFounded, WFMin
<1>2. OpToRel(<, Nat) = {p \in Nat \X Nat : p[1] < p[2]}
  BY DEF OpToRel
<1>3. PICK m \in T : \A b \in T : <<b, m>> \notin {p \in Nat \X Nat : p[1] < p[2]}
  BY <1>1, <1>2
<1>4. ASSUME NEW b \in T, b < m PROVE FALSE
  <2>1. <<b, m>> \in {p \in Nat \X Nat : p[1] < p[2]}
    <3>1. <<b, m>> \in Nat \X Nat
      OBVIOUS
    <3> DEFINE q == <<b, m>>
    <3>2. q[1] < q[2] /\ q \in Nat \X Nat
      BY <1>4, <3>1
    <3> HIDE DEF q
    <3>3. q \in {p \in Nat \X Nat : p[1] < p[2]}
      BY <3>2
    <3> QED BY <3>3 DEF q
  <2> QED BY <1>3, <2>1
<1>5. \A b \in T : m <= b
  BY <1>4
<1> QED BY <1>5

-----------------------------------------------------------------------------
(***************************************************************************)
(* The invariant: what the page shows, and what a request has read so far, *)
(* is a count of devices and of hires as they once were.                   *)
(***************************************************************************)
Hirings == [Hires -> [week : Weeks, st : JobStatus]]
Counted(h, w, s) == Cardinality({u \in Hires : h[u].week = w /\ h[u].st = s})
VolumeOf(h) == [w \in Weeks |-> [completed |-> Counted(h, w, "COMPLETED"),
                                 inProgress |-> Counted(h, w, "open"),
                                 failed |-> Counted(h, w, "FAILED")]]
Honest(s) ==
  /\ s.online + s.offline <= s.total
  /\ \E h \in Hirings : s.volume = VolumeOf(h)
  /\ Cardinality(s.feed) <= FeedSize
DashboardInv == TypeOK /\ Honest(data) /\ Honest(req.snap)

-----------------------------------------------------------------------------
(***************************************************************************)
(* Counting devices, hires and entries.                                    *)
(***************************************************************************)

\* Two parts of a set without a common element have at most its elements.
LEMMA Apart ==
  ASSUME NEW S, IsFiniteSet(S), NEW A \in SUBSET S, NEW B \in SUBSET S, A \cap B = {}
  PROVE  /\ Cardinality(A) \in Nat /\ Cardinality(B) \in Nat /\ Cardinality(S) \in Nat
         /\ IsFiniteSet(A \cup B) /\ Cardinality(A \cup B) = Cardinality(A) + Cardinality(B)
         /\ Cardinality(A) + Cardinality(B) <= Cardinality(S)
<1>1. IsFiniteSet(A) /\ IsFiniteSet(B)
  BY FS_Subset
<1>2. Cardinality(A) \in Nat /\ Cardinality(B) \in Nat /\ Cardinality(S) \in Nat
  BY <1>1, FS_CardinalityType
<1>3. IsFiniteSet(A \cup B) /\ Cardinality(A \cup B) = Cardinality(A) + Cardinality(B) - 0
  BY <1>1, FS_Union, FS_EmptySet
<1>4. Cardinality(A \cup B) <= Cardinality(S)
  BY FS_Subset
<1> QED BY <1>2, <1>3, <1>4

\* What get_device_counts reads at one moment adds up.
LEMMA StatesAddUp ==
  /\ Cardinality(Existing) \in Nat
  /\ Cardinality(Here({"online"})) \in Nat /\ Cardinality(Here({"offline"})) \in Nat
  /\ Cardinality(Here({"online"})) + Cardinality(Here({"offline"})) <= Cardinality(Existing)
<1>1. IsFiniteSet(Existing)
  BY FiniteAssumption, FS_Subset DEF Existing, Here
<1>2. /\ Here({"online"}) \in SUBSET Existing /\ Here({"offline"}) \in SUBSET Existing
      /\ Here({"online"}) \cap Here({"offline"}) = {}
  BY DEF Existing, Here, DevStatus
<1> QED BY <1>1, <1>2, Apart

\* The hires of one state, counted week by week, are those of that state.
LEMMA WeekByWeek ==
  ASSUME NEW h \in Hirings, NEW v, NEW field, NEW s,
         \A w \in Weeks : v[w][field] = Counted(h, w, s)
  PROVE  Total(v, field, Weeks) = Cardinality({u \in Hires : h[u].st = s})
<1> DEFINE In(W) == {u \in Hires : h[u].week \in W /\ h[u].st = s}
           g == [W \in SUBSET Weeks |-> Cardinality(In(W))]
<1>1. ASSUME NEW W \in SUBSET Weeks PROVE IsFiniteSet(In(W)) /\ Cardinality(In(W)) \in Nat
  BY FiniteAssumption, FS_Subset, FS_CardinalityType
<1>2. In({}) = {} /\ In(Weeks) = {u \in Hires : h[u].st = s}
  BY DEF Hirings
<1>3. ASSUME NEW W \in SUBSET Weeks, NEW w \in W
      PROVE  Cardinality(In(W)) = v[w][field] + Cardinality(In(W \ {w}))
  <2> DEFINE A == {u \in Hires : h[u].week = w /\ h[u].st = s}
             B == In(W \ {w})
  <2>1. A \in SUBSET In(W) /\ B \in SUBSET In(W) /\ A \cap B = {} /\ A \cup B = In(W)
    OBVIOUS
  <2>2. v[w][field] = Cardinality(A)
    BY DEF Counted
  <2>3. IsFiniteSet(In(W))
    BY <1>1
  <2> HIDE DEF A, B, In
  <2>4. Cardinality(A \cup B) = Cardinality(A) + Cardinality(B)
    BY <2>1, <2>3, Apart
  <2> QED BY <2>1, <2>2, <2>4 DEF B
<1>4. g[{}] = 0 /\ g[Weeks] = Cardinality({u \in Hires : h[u].st = s})
  BY <1>2, FS_EmptySet
<1> HIDE DEF In
<1>5. AddsUp(g, v, field, Weeks)
  BY <1>1, <1>3, <1>4 DEF AddsUp
<1> HIDE DEF g
<1>6. Total(v, field, Weeks) = g[Weeks]
  BY <1>5, FiniteAssumption, TotalIs
<1> QED BY <1>4, <1>6

\* The volume chart shows at most as many hires as there are.
LEMMA SummaryAddsUp ==
  ASSUME NEW s, Honest(s)
  PROVE  Summary(s).completed + Summary(s).inProgress + Summary(s).failed <= Cardinality(Hires)
<1>1. PICK h \in Hirings : s.volume = VolumeOf(h)
  BY DEF Honest
<1> DEFINE Of(st) == {u \in Hires : h[u].st = st}
<1>2. /\ Total(s.volume, "completed", Weeks) = Cardinality(Of("COMPLETED"))
      /\ Total(s.volume, "inProgress", Weeks) = Cardinality(Of("open"))
      /\ Total(s.volume, "failed", Weeks) = Cardinality(Of("FAILED"))
  <2>1. \A w \in Weeks : /\ s.volume[w]["completed"] = Counted(h, w, "COMPLETED")
                         /\ s.volume[w]["inProgress"] = Counted(h, w, "open")
                         /\ s.volume[w]["failed"] = Counted(h, w, "FAILED")
    BY <1>1 DEF VolumeOf
  <2> HIDE DEF Of
  <2>2. ASSUME NEW st, NEW field, \A w \in Weeks : s.volume[w][field] = Counted(h, w, st)
        PROVE  Total(s.volume, field, Weeks) = Cardinality({u \in Hires : h[u].st = st})
    BY <2>2, WeekByWeek
  <2>3. Total(s.volume, "completed", Weeks) = Cardinality(Of("COMPLETED"))
    BY <2>1, <2>2 DEF Of
  <2>4. Total(s.volume, "inProgress", Weeks) = Cardinality(Of("open"))
    BY <2>1, <2>2 DEF Of
  <2>5. Total(s.volume, "failed", Weeks) = Cardinality(Of("FAILED"))
    BY <2>1, <2>2 DEF Of
  <2> QED BY <2>3, <2>4, <2>5
<1>3. /\ Of("COMPLETED") \in SUBSET Hires /\ Of("open") \in SUBSET Hires
      /\ Of("FAILED") \in SUBSET Hires
      /\ Of("COMPLETED") \cap Of("open") = {}
      /\ (Of("COMPLETED") \cup Of("open")) \cap Of("FAILED") = {}
  OBVIOUS
<1> HIDE DEF Of
<1>4. Cardinality(Of("COMPLETED") \cup Of("open"))
        = Cardinality(Of("COMPLETED")) + Cardinality(Of("open"))
  BY <1>3, FiniteAssumption, Apart
<1>5. Cardinality(Of("COMPLETED") \cup Of("open")) + Cardinality(Of("FAILED")) <= Cardinality(Hires)
  BY <1>3, FiniteAssumption, Apart
<1> QED BY <1>2, <1>4, <1>5 DEF Summary

\* LIMIT: the feed has at most FeedSize entries.
LEMMA NewestSize ==
  ASSUME log \subseteq Entries
  PROVE  Newest \subseteq Entries /\ Cardinality(Newest) <= FeedSize
<1> DEFINE After(e) == {f \in log : f > e}
<1>1. IsFiniteSet(Newest) /\ Newest \subseteq Entries /\ Newest \in SUBSET Nat
  BY EntryAssumption, FS_Subset DEF Newest
<1>2. CASE Newest = {}
  BY <1>1, <1>2, FS_EmptySet, BoundAssumption
<1>3. CASE Newest # {}
  <2>1. PICK m \in Newest : \A e \in Newest : m <= e
    BY <1>1, <1>3, Least
  <2>2. Newest \ {m} \in SUBSET After(m)
    <3>1. ASSUME NEW e \in Newest, e # m PROVE e > m
      BY <1>1, <2>1, <3>1
    <3>2. Newest \subseteq log
      BY DEF Newest
    <3> QED BY <3>1, <3>2
  <2>3. IsFiniteSet(After(m)) /\ Cardinality(After(m)) < FeedSize
    BY <2>1, EntryAssumption, FS_Subset DEF Newest
  <2> HIDE DEF After
  <2>4. Cardinality(Newest \ {m}) <= Cardinality(After(m)) /\ Cardinality(After(m)) \in Nat
    BY <2>2, <2>3, FS_Subset, FS_CardinalityType
  <2>5. Cardinality(Newest \ {m}) = Cardinality(Newest) - 1 /\ Cardinality(Newest) \in Nat
    BY <1>1, <2>1, FS_RemoveElement, FS_CardinalityType
  <2> QED BY <1>1, <2>3, <2>4, <2>5, BoundAssumption
<1> QED BY <1>2, <1>3

\* GROUP BY day: the sums of the scores are sums of naturals.
LEMMA MeasuredType ==
  ASSUME scores \in [Devices -> Scores]
  PROVE  Measured \in Scores
<1>1. \A d \in Devices : scores[d]["all"] \in Nat /\ scores[d]["low"] \in Nat
  BY DEF Scores
<1>2. Total(scores, "all", Devices) \in Nat /\ Total(scores, "low", Devices) \in Nat
  BY <1>1, FiniteAssumption, TotalType
<1> QED BY <1>2 DEF Measured, Scores

\* The volume of any assignment of hires has the type of one.
LEMMA VolumeType ==
  ASSUME NEW h \in Hirings
  PROVE  VolumeOf(h) \in Volume
<1>1. \A w \in Weeks, s \in JobStatus : Counted(h, w, s) \in Nat
  BY FiniteAssumption, FS_Subset, FS_CardinalityType DEF Counted
<1> QED BY <1>1 DEF VolumeOf, Volume, JobStatus

-----------------------------------------------------------------------------
(***************************************************************************)
(* The invariant holds.                                                    *)
(***************************************************************************)

\* Nothing was read yet: no device is counted, and no hire has a job.
LEMMA NoneRead == NoSnapshot \in Snapshot /\ (Hirings # {} => Honest(NoSnapshot))
<1>1. NoVolume \in Volume /\ NoScores \in Scores
  BY DEF NoVolume, NoScores, Volume, Scores
<1>2. NoSnapshot \in Snapshot
  BY <1>1 DEF NoSnapshot, Snapshot
<1>3. ASSUME NEW h0 \in Hirings PROVE Honest(NoSnapshot)
  <2> DEFINE h == [u \in Hires |-> [week |-> h0[u].week, st |-> "none"]]
  <2>1. h \in Hirings
    BY DEF Hirings, JobStatus
  <2>2. \A w \in Weeks : /\ Counted(h, w, "COMPLETED") = 0
                         /\ Counted(h, w, "open") = 0 /\ Counted(h, w, "FAILED") = 0
    BY FS_EmptySet DEF Counted
  <2> HIDE DEF h
  <2>3. VolumeOf(h) = NoVolume
    BY <2>2 DEF VolumeOf, NoVolume
  <2> QED BY <2>1, <2>3, BoundAssumption, FS_EmptySet DEF Honest, NoSnapshot
<1> QED BY <1>2, <1>3

\* Holds of the state in which the page was never opened.
LEMMA InitInv == Init => DashboardInv
<1> SUFFICES ASSUME Init PROVE DashboardInv
  OBVIOUS
<1>1. hire \in Hirings
  BY DEF Init, Hirings
<1>2. NoSnapshot \in Snapshot /\ Honest(NoSnapshot)
  BY <1>1, NoneRead
<1>3. scores \in [Devices -> Scores]
  BY DEF Init, NoScores, Scores
<1>4. Cardinality(NoSnapshot.feed) <= FeedSize
  BY BoundAssumption, FS_EmptySet DEF NoSnapshot
<1>5. TypeOK
  <2>1. req \in Request
    BY <1>2 DEF Init, Request, NoRequest
  <2>2. changes \in 0..MaxChanges /\ faults \in 0..MaxFaults
    BY BoundAssumption DEF Init
  <2>3. data \in Snapshot /\ Cardinality(data.feed) <= FeedSize
    BY <1>2, <1>4 DEF Init
  <2>4. open \in BOOLEAN /\ failed \in BOOLEAN
    BY DEF Init
  <2>5. strained \subseteq Existing /\ log \subseteq Entries
    BY DEF Init
  <2> QED BY <1>3, <2>1, <2>2, <2>3, <2>4, <2>5 DEF Init, TypeOK
<1> QED BY <1>2, <1>5 DEF Init, DashboardInv, NoRequest

\* What commits meanwhile changes the database only.
LEMMA CommitInv ==
  ASSUME DashboardInv,
         \/ \E up, low \in SUBSET Devices : Scan(up, low)
         \/ \E d \in Devices, s \in DevStatus : Edit(d, s)
         \/ \E u \in Hires, s \in JobStatus : HireMoves(u, s)
         \/ \E e \in Entries : Logged(e)
  PROVE  DashboardInv'
<1> USE DEF DashboardInv, TypeOK
<1>1. /\ UNCHANGED <<open, data, failed, req, faults>>
      /\ changes' \in 0..MaxChanges
  BY BoundAssumption DEF Scan, Edit, HireMoves, Logged, Commit
<1>2. /\ dev' \in [Devices -> DevStatus] /\ strained' \subseteq Existing'
      /\ scores' \in [Devices -> Scores]
      /\ hire' \in [Hires -> [week : Weeks, st : JobStatus]] /\ log' \subseteq Entries
  <2>1. CASE \E up, low \in SUBSET Devices : Scan(up, low)
    <3>1. PICK up, low \in SUBSET Devices : Scan(up, low)
      BY <2>1
    <3>2. dev' \in [Devices -> DevStatus] /\ strained' \subseteq Existing'
      BY <3>1 DEF Scan, Existing, Here, DevStatus
    <3>3. scores' \in [Devices -> Scores]
      BY <3>1 DEF Scan, Scores
    <3> QED BY <3>1, <3>2, <3>3 DEF Scan
  <2>2. CASE \E d \in Devices, s \in DevStatus : Edit(d, s)
    <3>1. PICK d \in Devices, s \in DevStatus : Edit(d, s)
      BY <2>2
    <3>2. dev' \in [Devices -> DevStatus] /\ strained' \subseteq Existing'
      BY <3>1 DEF Edit, Existing, Here
    <3>3. scores' \in [Devices -> Scores]
      BY <3>1 DEF Edit, Scores, NoScores
    <3> QED BY <3>1, <3>2, <3>3 DEF Edit
  <2>3. CASE \E u \in Hires, s \in JobStatus : HireMoves(u, s)
    BY <2>3 DEF HireMoves, Existing, Here
  <2>4. CASE \E e \in Entries : Logged(e)
    BY <2>4 DEF Logged, Existing, Here
  <2> QED BY <2>1, <2>2, <2>3, <2>4
<1>3. TypeOK'
  BY <1>1, <1>2
<1> QED BY <1>1, <1>3 DEF Honest, VolumeOf, Counted

\* Each statement of get_snapshot adds what it counts to the answer.
LEMMA ReadInv ==
  ASSUME DashboardInv,
         ReadCounts \/ ReadAlerts \/ ReadTrend \/ ReadOs \/ ReadVolume \/ ReadFeed
  PROVE  DashboardInv'
<1> USE DEF DashboardInv
<1>1. ASSUME NEW next \in {"alerts", "trend", "os", "volume", "feed", "answered"},
             NEW now, NEW snap \in Snapshot, Honest(snap), Read(now, next, snap)
      PROVE  DashboardInv'
  <2>1. UNCHANGED <<dev, strained, scores, hire, log, open, data, failed, changes, faults>>
    BY <1>1 DEF Read, database
  <2>2. req' = [at |-> next, snap |-> snap] /\ req' \in Request
    BY <1>1 DEF Read, Request
  <2>3. TypeOK'
    BY <2>1, <2>2 DEF TypeOK, Existing, Here
  <2>4. Honest(data)' /\ Honest(req.snap)'
    BY <1>1, <2>1, <2>2 DEF Honest, VolumeOf, Counted
  <2> QED BY <2>3, <2>4
<1> DEFINE s == req.snap
<1>2. s \in Snapshot /\ Honest(s)
  BY DEF TypeOK, Request
<1>3. CASE ReadCounts
  <2> DEFINE t == [s EXCEPT !.total = Cardinality(Existing),
                            !.online = Cardinality(Here({"online"})),
                            !.offline = Cardinality(Here({"offline"}))]
  <2>1. t \in Snapshot
    BY <1>2, StatesAddUp DEF Snapshot
  <2>2. Honest(t)
    BY <1>2, StatesAddUp DEF Honest, Snapshot
  <2> QED BY <1>1, <1>3, <2>1, <2>2 DEF ReadCounts
<1>4. CASE ReadAlerts
  <2>1. Cardinality(strained) \in Nat
    BY FiniteAssumption, FS_Subset, FS_CardinalityType DEF TypeOK, Existing, Here
  <2> DEFINE t == [s EXCEPT !.alerts = Cardinality(strained)]
  <2>2. t \in Snapshot /\ Honest(t)
    BY <1>2, <2>1 DEF Snapshot, Honest
  <2> QED BY <1>1, <1>4, <2>2 DEF ReadAlerts
<1>5. CASE ReadTrend
  <2> DEFINE t == [s EXCEPT !.trend = Measured]
  <2>1. t \in Snapshot /\ Honest(t)
    BY <1>2, MeasuredType DEF Snapshot, Honest, TypeOK
  <2> QED BY <1>1, <1>5, <2>1 DEF ReadTrend
<1>6. CASE ReadOs
  <2> DEFINE t == [s EXCEPT !.os = Cardinality(Existing)]
  <2>1. t \in Snapshot /\ Honest(t)
    BY <1>2, StatesAddUp DEF Snapshot, Honest
  <2> QED BY <1>1, <1>6, <2>1 DEF ReadOs
<1>7. CASE ReadVolume
  <2> DEFINE t == [s EXCEPT !.volume = VolumeOf(hire)]
  <2>1. hire \in Hirings
    BY DEF TypeOK, Hirings
  <2>2. t \in Snapshot /\ Honest(t)
    BY <1>2, <2>1, VolumeType DEF Snapshot, Honest
  <2>3. Read("volume", "feed", t)
    BY <1>7 DEF ReadVolume, VolumeOf, Counted, InWeek
  <2> QED BY <1>1, <2>2, <2>3
<1>8. CASE ReadFeed
  <2> DEFINE t == [s EXCEPT !.feed = Newest, !.loaded = TRUE]
  <2>1. Newest \in SUBSET Entries /\ Cardinality(Newest) <= FeedSize
    BY NewestSize DEF TypeOK
  <2>2. t \in Snapshot /\ Honest(t)
    BY <1>2, <2>1 DEF Snapshot, Honest
  <2> QED BY <1>1, <1>8, <2>2 DEF ReadFeed
<1> QED BY <1>3, <1>4, <1>5, <1>6, <1>7, <1>8

\* The page stores a whole answer, or starts a new request with nothing read.
LEMMA PageInv ==
  ASSUME DashboardInv, Open \/ Leave \/ Poll \/ Stored \/ Fails \/ Retry
  PROVE  DashboardInv'
<1> USE DEF DashboardInv
<1>1. /\ UNCHANGED <<dev, strained, scores, hire, log, changes>>
      /\ open' \in BOOLEAN /\ failed' \in BOOLEAN /\ faults' \in 0..MaxFaults
  <2>1. UNCHANGED <<dev, strained, scores, hire, log, changes>>
    BY DEF Open, Leave, Poll, Stored, Fails, Retry, database
  <2>2. open' \in BOOLEAN /\ failed' \in BOOLEAN
    BY DEF TypeOK, Open, Leave, Poll, Stored, Fails, Retry
  <2>3. faults' = faults \/ (faults < MaxFaults /\ faults' = faults + 1)
    BY DEF Open, Leave, Poll, Stored, Fails, Retry
  <2>4. faults' \in 0..MaxFaults
    BY <2>3, BoundAssumption DEF TypeOK
  <2> QED BY <2>1, <2>2, <2>4
<1>2. data' = data \/ data' = req.snap
  BY DEF Open, Leave, Poll, Stored, Fails, Retry
<1>3. req' = req \/ req' = NoRequest \/ req' = SentRequest
  BY DEF Open, Leave, Poll, Stored, Fails, Retry
<1>4. hire \in Hirings
  BY DEF TypeOK, Hirings
<1>5. NoSnapshot \in Snapshot /\ Honest(NoSnapshot)
  BY <1>4, NoneRead
<1>6. data' \in Snapshot /\ Honest(data')
  BY <1>2 DEF TypeOK, Request
<1>7. req' \in Request /\ Honest(req'.snap)
  BY <1>3, <1>5 DEF TypeOK, Request, NoRequest, SentRequest
<1>8. TypeOK'
  BY <1>1, <1>6, <1>7 DEF TypeOK, Existing, Here, Honest
<1> QED BY <1>1, <1>6, <1>7, <1>8 DEF Honest, VolumeOf, Counted

\* The invariant, whatever commits between two statements and whatever fails.
THEOREM DashboardInvariance == Spec => []DashboardInv
<1>1. DashboardInv /\ [Next]_vars => DashboardInv'
  <2> SUFFICES ASSUME DashboardInv, [Next]_vars PROVE DashboardInv'
    OBVIOUS
  <2>1. CASE UNCHANGED vars
    BY <2>1 DEF DashboardInv, TypeOK, Honest, VolumeOf, Counted, vars, database, Existing, Here
  <2>2. CASE Next
    BY <2>2, CommitInv, ReadInv, PageInv DEF Next
  <2> QED BY <2>1, <2>2
<1> QED BY <1>1, InitInv, PTL DEF Spec

\* The variables keep their types, and the feed its length.
THEOREM DashboardTypes == Spec => []TypeOK
<1>1. DashboardInv => TypeOK
  BY DEF DashboardInv
<1> QED BY <1>1, DashboardInvariance, PTL

\* The cards never show more devices up and down than there are, and the volume
\* chart counts no hire twice, for any fleet and any commits between the
\* statements of a snapshot.
THEOREM CardsAddUp == Spec => []CountsAddUp
<1>1. DashboardInv => CountsAddUp
  <2> SUFFICES ASSUME DashboardInv PROVE CountsAddUp
    OBVIOUS
  <2>1. Honest(data)
    BY DEF DashboardInv
  <2>2. data.online + data.offline <= data.total
    BY <2>1 DEF Honest
  <2>3. Summary(data).completed + Summary(data).inProgress + Summary(data).failed
          <= Cardinality(Hires)
    BY <2>1, SummaryAddsUp
  <2> QED BY <2>2, <2>3 DEF CountsAddUp, Cards
<1> QED BY <1>1, DashboardInvariance, PTL
=============================================================================
