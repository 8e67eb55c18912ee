-------------------------- MODULE AuditTrailProofs --------------------------
(***************************************************************************)
(* Proofs about AuditTrail, for any log, filter, page size and order of    *)
(* answers.                                                                *)
(***************************************************************************)
EXTENDS AuditTrail, FiniteSetTheorems, SequenceTheorems, TLAPS

-----------------------------------------------------------------------------
(***************************************************************************)
(* The log, newest first.                                                  *)
(***************************************************************************)

\* The smaller of two numbers.
LEMMA MinOfTwo ==
  ASSUME NEW a \in Nat, NEW b \in Nat
  PROVE  Min({a, b}) = IF a <= b THEN a ELSE b
<1>1. \E x \in {a, b} : \A y \in {a, b} : x <= y
  OBVIOUS
<1>2. Min({a, b}) \in {a, b} /\ \A y \in {a, b} : Min({a, b}) <= y
  BY <1>1 DEF Min
<1> QED BY <1>2

\* Of two entries the older one has more newer ones.
LEMMA NewerOrder ==
  ASSUME NEW S \in SUBSET Nat, IsFiniteSet(S), NEW a \in S, NEW b \in S
  PROVE  /\ Newer(a, S) \in 0..(Cardinality(S) - 1)
         /\ a < b <=> Newer(b, S) < Newer(a, S)
<1> DEFINE After(e) == {f \in S : f > e}
<1>1. ASSUME NEW e \in S
      PROVE  /\ IsFiniteSet(After(e)) /\ Newer(e, S) = Cardinality(After(e))
             /\ Newer(e, S) \in Nat
  BY FS_Subset, FS_CardinalityType DEF Newer
<1>2. ASSUME NEW e \in S, NEW f \in S, e < f
      PROVE  Newer(f, S) < Newer(e, S)
  <2>1. After(f) \subseteq After(e) /\ f \in After(e) /\ f \notin After(f)
    <3>1. S \subseteq Nat /\ e \in Nat /\ f \in Nat
      OBVIOUS
    <3>2. \A x \in S : x > f => x > e
      BY <1>2, <3>1
    <3>3. ~ (f > f) /\ f > e
      BY <1>2, <3>1
    <3> QED BY <3>2, <3>3
  <2> HIDE DEF After
  <2>2. /\ Cardinality(After(f)) <= Cardinality(After(e))
        /\ Cardinality(After(e)) = Cardinality(After(f)) => After(e) = After(f)
    BY <1>1, <2>1, FS_Subset
  <2> QED BY <1>1, <2>1, <2>2
<1>3. a < b \/ b < a \/ a = b
  OBVIOUS
<1>4. Cardinality(After(a)) <= Cardinality(S) - 1 /\ Cardinality(S) \in Nat
  <2>1. After(a) \in SUBSET (S \ {a})
    OBVIOUS
  <2>2. IsFiniteSet(S \ {a}) /\ Cardinality(S \ {a}) = Cardinality(S) - 1
    BY FS_RemoveElement
  <2> HIDE DEF After
  <2> QED BY <2>1, <2>2, FS_Subset, FS_CardinalityType
<1> HIDE DEF After
<1>5. Newer(a, S) \in 0..(Cardinality(S) - 1)
  BY <1>1, <1>4
<1>6. Newer(a, S) \in Nat /\ Newer(b, S) \in Nat
  BY <1>1
<1>7. a < b => Newer(b, S) < Newer(a, S)
  BY <1>2
<1>8. b < a => Newer(a, S) < Newer(b, S)
  BY <1>2
<1> QED BY <1>3, <1>5, <1>6, <1>7, <1>8

\* Every number of newer entries below the size of the log is that of one entry.
LEMMA EveryRank ==
  ASSUME NEW S \in SUBSET Nat, IsFiniteSet(S), NEW i \in 1..Cardinality(S)
  PROVE  \E e \in S : Newer(e, S) = i - 1
<1> DEFINE n == Cardinality(S)
           f == [e \in S |-> Newer(e, S) + 1]
<1>1. n \in Nat /\ IsFiniteSet(1..n) /\ Cardinality(1..n) = n
  <2>1. n \in Nat
    BY FS_CardinalityType
  <2> HIDE DEF n
  <2>2. Cardinality(1..n) = IF 1 > n THEN 0 ELSE n - 1 + 1
    BY <2>1, FS_Interval
  <2> QED BY <2>1, <2>2, FS_Interval
<1>2. \A a, b \in S : /\ Newer(a, S) \in 0..(n - 1)
                      /\ a < b <=> Newer(b, S) < Newer(a, S)
  BY NewerOrder
<1> HIDE DEF n
<1>3. f \in [S -> 1..n]
  BY <1>1, <1>2
<1>4. \A a, b \in S : f[a] = f[b] => a = b
  <2> SUFFICES ASSUME NEW a \in S, NEW b \in S, f[a] = f[b] PROVE a = b
    OBVIOUS
  <2>1. Newer(a, S) = Newer(b, S)
    BY <1>2
  <2>2. ~ (a < b) /\ ~ (b < a)
    BY <1>2, <2>1
  <2> QED BY <2>2
<1> HIDE DEF f
<1>5. f \in Injection(S, 1..n)
  BY <1>3, <1>4 DEF Injection, IsInjective
<1>6. f \in Surjection(S, 1..n)
  BY <1>1, <1>5, FS_Injection DEF n
<1>7. PICK e \in S : f[e] = i
  BY <1>6 DEF Surjection, n
<1>8. Newer(e, S) = i - 1
  BY <1>1, <1>2, <1>7 DEF f
<1> QED BY <1>8

\* The i-th row of the log is the entry that has i - 1 newer ones.
LEMMA RowRank ==
  ASSUME NEW S \in SUBSET Nat, IsFiniteSet(S)
  PROVE  /\ Cardinality(S) \in Nat /\ Len(NewestFirst(S)) = Cardinality(S)
         /\ NewestFirst(S) \in Seq(S)
         /\ \A i \in 1..Cardinality(S) : /\ NewestFirst(S)[i] \in S
                                        /\ Newer(NewestFirst(S)[i], S) = i - 1
<1>1. Cardinality(S) \in Nat
  BY FS_CardinalityType
<1>2. \A i \in 1..Cardinality(S) : /\ NewestFirst(S)[i] \in S
                                   /\ Newer(NewestFirst(S)[i], S) = i - 1
  BY EveryRank DEF NewestFirst
<1>3. NewestFirst(S) \in [1..Cardinality(S) -> S]
  BY <1>2 DEF NewestFirst
<1> QED BY <1>1, <1>2, <1>3

\* A page: the rows of the log from the offset on, at most Limit of them.
LEMMA PageRows ==
  ASSUME NEW S \in SUBSET Nat, IsFiniteSet(S), NEW offset \in Nat
  PROVE  LET rows == Slice(NewestFirst(S), offset)
         IN  /\ rows \in Seq(S) /\ Len(rows) \in Nat /\ Len(rows) <= Limit
             /\ offset + Len(rows) <= Cardinality(S) \/ rows = <<>>
             /\ Len(rows) = Limit \/ Cardinality(S) <= offset + Len(rows)
             /\ \A i \in 1..Len(rows) : rows[i] \in S /\ Newer(rows[i], S) = offset + i - 1
<1> DEFINE s == NewestFirst(S)
           c == Cardinality(S)
           n == IF offset + Limit <= c THEN offset + Limit ELSE c
           rows == Slice(s, offset)
<1>1. c \in Nat /\ Len(s) = c /\ s \in Seq(S)
  BY RowRank
<1>2. \A i \in 1..c : s[i] \in S /\ Newer(s[i], S) = i - 1
  BY RowRank
<1> HIDE DEF s, c
<1>3. n \in Nat /\ n <= c /\ offset + Limit \in Nat
  BY <1>1, BoundAssumption
<1>4. rows = SubSeq(s, offset + 1, n)
  BY <1>1, <1>3, MinOfTwo DEF Slice, Between
<1> HIDE DEF rows
<1>5. \A i \in (offset + 1)..n : s[i] \in S
  BY <1>1, <1>2, <1>3
<1> HIDE DEF n
<1>6. /\ rows \in Seq(S)
      /\ Len(rows) = IF offset + 1 <= n THEN n - (offset + 1) + 1 ELSE 0
      /\ \A i \in 1..(n - (offset + 1) + 1) : rows[i] = s[offset + 1 + i - 1]
  BY <1>3, <1>4, <1>5, SubSeqProperties
<1>7. CASE offset + 1 <= n
  <2>1. Len(rows) = n - offset
    BY <1>3, <1>6, <1>7
  <2>2. ASSUME NEW i \in 1..Len(rows)
        PROVE  rows[i] \in S /\ Newer(rows[i], S) = offset + i - 1
    <3>1. rows[i] = s[offset + i] /\ offset + i \in 1..c
      BY <1>1, <1>3, <1>6, <2>1
    <3> QED BY <1>2, <3>1
  <2>3. offset + Len(rows) <= c /\ Len(rows) <= Limit /\ Len(rows) \in Nat
    BY <1>1, <1>3, <1>7, <2>1, BoundAssumption DEF n
  <2>4. Len(rows) = Limit \/ c <= offset + Len(rows)
    BY <1>1, <1>3, <1>7, <2>1, BoundAssumption DEF n
  <2> QED BY <1>6, <2>2, <2>3, <2>4 DEF rows, s, c
<1>8. CASE ~ (offset + 1 <= n)
  <2>1. Len(rows) = 0 /\ rows = <<>>
    BY <1>6, <1>8
  <2>2. c <= offset + Len(rows) /\ Len(rows) <= Limit
    BY <1>1, <1>3, <1>8, <2>1, BoundAssumption DEF n
  <2> QED BY <1>6, <2>1, <2>2 DEF rows, s, c
<1> QED BY <1>7, <1>8

\* Between two pages of a growing log, the second asked for no earlier, there is
\* no entry that the log had when the first was asked for.
LEMMA PagesMeet ==
  ASSUME NEW S \in SUBSET Nat, NEW T \in SUBSET Nat, IsFiniteSet(T), S \subseteq T,
         NEW offset \in Nat, NEW e \in S
  PROVE  LET rows == Slice(NewestFirst(S), offset)
             next == Slice(NewestFirst(T), offset + Limit)
         IN  \/ rows = <<>> \/ e >= rows[Len(rows)]
             \/ next # <<>> /\ e <= next[1]
<1> DEFINE rows == Slice(NewestFirst(S), offset)
           next == Slice(NewestFirst(T), offset + Limit)
<1> SUFFICES ASSUME rows # <<>>, ~ (e >= rows[Len(rows)])
             PROVE  next # <<>> /\ e <= next[1]
  OBVIOUS
<1>1. IsFiniteSet(S) /\ Cardinality(S) \in Nat /\ Cardinality(T) \in Nat
  BY FS_Subset, FS_CardinalityType
<1>2. /\ rows \in Seq(S) /\ Len(rows) \in Nat
      /\ Len(rows) = Limit \/ Cardinality(S) <= offset + Len(rows)
      /\ \A i \in 1..Len(rows) : rows[i] \in S /\ Newer(rows[i], S) = offset + i - 1
  BY <1>1, PageRows
<1>3. /\ next \in Seq(T) /\ Len(next) \in Nat
      /\ Len(next) = Limit \/ Cardinality(T) <= offset + Limit + Len(next)
      /\ \A i \in 1..Len(next) : next[i] \in T /\ Newer(next[i], T) = offset + Limit + i - 1
  <2> DEFINE o == offset + Limit
  <2>1. o \in Nat
    BY BoundAssumption
  <2> HIDE DEF o
  <2>2. LET r == Slice(NewestFirst(T), o)
        IN  /\ r \in Seq(T) /\ Len(r) \in Nat
            /\ Len(r) = Limit \/ Cardinality(T) <= o + Len(r)
            /\ \A i \in 1..Len(r) : r[i] \in T /\ Newer(r[i], T) = o + i - 1
    BY <2>1, PageRows
  <2> QED BY <2>2 DEF o
<1> HIDE DEF rows, next
<1> DEFINE end == rows[Len(rows)]
<1>4. Len(rows) \in 1..Len(rows)
  BY <1>2
<1>5. end \in S /\ Newer(end, S) = offset + Len(rows) - 1 /\ e < end
  <2>1. end \in S /\ Newer(end, S) = offset + Len(rows) - 1
    BY <1>2, <1>4
  <2>2. ~ (e >= end) /\ e \in Nat /\ end \in Nat
    BY <2>1
  <2> HIDE DEF end
  <2> QED BY <2>1, <2>2
<1> HIDE DEF end
\* More than Limit rows of the log that the first page saw are as new as e.
<1>6. Newer(e, S) \in 0..(Cardinality(S) - 1) /\ Newer(end, S) < Newer(e, S)
  BY <1>1, <1>5, NewerOrder
<1>7. Len(rows) = Limit /\ Newer(e, S) >= offset + Limit
  BY <1>1, <1>2, <1>5, <1>6, BoundAssumption
<1>8. Newer(e, T) \in 0..(Cardinality(T) - 1) /\ Newer(e, S) <= Newer(e, T)
  <2>1. Newer(e, T) \in 0..(Cardinality(T) - 1)
    BY NewerOrder
  <2>2. {f \in S : f > e} \in SUBSET {f \in T : f > e} /\ IsFiniteSet({f \in T : f > e})
    BY FS_Subset
  <2> QED BY <2>1, <2>2, FS_Subset DEF Newer
<1>9. Len(next) > 0
  BY <1>1, <1>3, <1>6, <1>7, <1>8, BoundAssumption
<1>10. next # <<>> /\ next[1] \in T /\ Newer(next[1], T) = offset + Limit
  BY <1>3, <1>9, BoundAssumption
<1>11. ~ (Newer(e, T) < Newer(next[1], T))
  BY <1>6, <1>7, <1>8, <1>10, BoundAssumption
<1>12. ~ (next[1] < e)
  BY <1>10, <1>11, NewerOrder
<1>13. e \in Nat /\ next[1] \in Nat
  BY <1>10
<1> QED BY <1>10, <1>12, <1>13

-----------------------------------------------------------------------------
(***************************************************************************)
(* The invariant: an answer, stored or on its way, is the page of its key  *)
(* of a log that was, and the offset grows by a page at a time.            *)
(***************************************************************************)
PageOf(k, S) == Slice(NewestFirst(Matching(k.filter, S)), k.offset)
Answer(k, d) == IF d.loaded THEN d.seen \subseteq log /\ d.rows = PageOf(k, d.seen)
                ELSE d.rows = <<>>
TrailInv ==
  /\ TypeOK
  /\ \E n \in 0..views : view.offset = n * Limit
  /\ \A k \in Key : Answer(k, cache[k]) /\ Answer(k, fetch[k].data)

\* What a filter selects is a finite set of timestamps.
LEMMA MatchingType ==
  ASSUME NEW f, NEW S \in SUBSET Entries
  PROVE  /\ Matching(f, S) \in SUBSET S /\ Matching(f, S) \in SUBSET Nat
         /\ IsFiniteSet(Matching(f, S))
<1>1. Matching(f, S) \in SUBSET S
  BY DEF Matching
<1> QED BY <1>1, EntryAssumption, FS_Subset

\* Multiples of Limit.
LEMMA OffsetType ==
  /\ \A n \in Nat : n * Limit \in Nat /\ (n + 1) * Limit = n * Limit + Limit
  /\ \A n \in 0..Views : n * Limit \in Offsets
  /\ Offsets \subseteq Nat /\ Default \in Key
<1>1. \A n \in Nat : n * Limit \in Nat /\ (n + 1) * Limit = n * Limit + Limit
  BY BoundAssumption
<1>2. \A n \in 0..Views : n * Limit \in Offsets
  BY DEF Offsets
<1>3. Offsets \subseteq Nat
  BY <1>1, BoundAssumption DEF Offsets
<1>4. 0 * Limit = 0 /\ 0 \in 0..Views
  BY BoundAssumption
<1>5. Default \in Key
  BY <1>2, <1>4 DEF Default, Key, Filter
<1> QED BY <1>1, <1>2, <1>3, <1>5

\* An answer's rows are entries that its filter selects, at most Limit of them.
LEMMA PageType ==
  ASSUME NEW k \in Key, NEW S \in SUBSET Entries
  PROVE  /\ PageOf(k, S) \in Seq(Entries) /\ Len(PageOf(k, S)) <= Limit
         /\ \A i \in 1..Len(PageOf(k, S)) : PageOf(k, S)[i] \in Matching(k.filter, S)
<1> DEFINE M == Matching(k.filter, S)
<1>1. M \in SUBSET Nat /\ IsFiniteSet(M) /\ M \in SUBSET Entries /\ k.offset \in Nat
  BY MatchingType, OffsetType DEF Key
<1> HIDE DEF M
<1>2. LET rows == Slice(NewestFirst(M), k.offset)
      IN  /\ rows \in Seq(M) /\ Len(rows) <= Limit
          /\ \A i \in 1..Len(rows) : rows[i] \in M
  BY <1>1, PageRows
<1>3. PageOf(k, S) = Slice(NewestFirst(M), k.offset)
  BY DEF PageOf, M
<1>4. PageOf(k, S) \in Seq(Entries)
  <2> DEFINE rows == Slice(NewestFirst(M), k.offset)
  <2>1. rows \in Seq(M)
    BY <1>2
  <2> HIDE DEF rows
  <2>2. Len(rows) \in Nat /\ rows \in [1..Len(rows) -> M]
    BY <2>1
  <2>3. rows \in [1..Len(rows) -> Entries]
    BY <1>1, <2>2
  <2>4. rows \in Seq(Entries)
    BY <2>2, <2>3, SeqDef
  <2> QED BY <1>3, <2>4 DEF rows
<1> QED BY <1>2, <1>3, <1>4 DEF M

\* Nothing was answered yet.
LEMMA NothingYet ==
  /\ NoEntry \in Entry /\ NoFetch \in Fetch
  /\ \A k \in Key : Answer(k, NoEntry) /\ Answer(k, NoFetch.data)
<1>1. NoEntry \in Entry
  BY DEF NoEntry, Entry
<1> QED BY <1>1 DEF NoEntry, NoFetch, Fetch, Answer

\* Holds of a page that was never opened, whatever the log.
LEMMA InitInv == Init => TrailInv
<1> SUFFICES ASSUME Init PROVE TrailInv
  OBVIOUS
<1>1. Default \in Key /\ Default.offset = 0 * Limit /\ 0 \in 0..0
  BY OffsetType, BoundAssumption DEF Default
<1>2. cache \in [Key -> Entry] /\ fetch \in [Key -> Fetch]
  BY NothingYet DEF Init
<1>3. \A k \in Key : cache[k] = NoEntry /\ fetch[k] = NoFetch
  BY DEF Init
<1>4. \A k \in Key : Len(cache[k].rows) <= Limit
  BY <1>3, BoundAssumption DEF NoEntry
<1>5. open \in BOOLEAN /\ views \in 0..Views /\ faults \in 0..Faults
  <2>1. open \in BOOLEAN
    BY DEF Init
  <2>2. views \in 0..Views /\ faults \in 0..Faults
    BY BoundAssumption DEF Init
  <2> QED BY <2>1, <2>2
<1>6. TypeOK
  BY <1>1, <1>2, <1>4, <1>5 DEF Init, TypeOK
<1>7. \E n \in 0..views : view.offset = n * Limit
  BY <1>1 DEF Init
<1> QED BY <1>3, <1>6, <1>7, NothingYet DEF TrailInv

\* The answers stay answers when the log grows and no entry and no request gets
\* other data.
LEMMA AnswersKept ==
  ASSUME TrailInv, log \subseteq log', cache' = cache,
         \A k \in Key : fetch'[k].data = fetch[k].data
  PROVE  \A k \in Key : (Answer(k, cache[k]) /\ Answer(k, fetch[k].data))'
<1> SUFFICES ASSUME NEW k \in Key
             PROVE  Answer(k, cache[k])' /\ Answer(k, fetch[k].data)'
  OBVIOUS
<1>1. Answer(k, cache[k]) /\ Answer(k, fetch[k].data)
  BY DEF TrailInv
<1> QED BY <1>1 DEF Answer

\* Mounting an observer, and showing a view, send a request at most.
LEMMA MountedEffect ==
  ASSUME TrailInv, NEW k \in Key, Mounted(k)
  PROVE  fetch' \in [Key -> Fetch] /\ \A q \in Key : fetch'[q].data = fetch[q].data
<1>1. fetch \in [Key -> Fetch]
  BY DEF TrailInv, TypeOK
<1>2. CASE UNCHANGED fetch
  BY <1>1, <1>2
<1>3. CASE fetch' = [fetch EXCEPT ![k].on = IF @ = "no" THEN "sent" ELSE @]
  <2>1. \A q \in Key : fetch'[q] = IF q = k
                                   THEN [fetch[q] EXCEPT !.on = IF @ = "no" THEN "sent" ELSE @]
                                   ELSE fetch[q]
    BY <1>1, <1>3
  <2>2. \A q \in Key : fetch'[q] \in Fetch /\ fetch'[q].data = fetch[q].data
    BY <1>1, <2>1 DEF Fetch
  <2>3. fetch' = [q \in Key |-> fetch'[q]]
    BY <1>1, <1>3
  <2> QED BY <2>2, <2>3
<1> QED BY <1>2, <1>3 DEF Mounted

\* A view shown lies at most a page further on.
LEMMA ShowInv ==
  ASSUME TrailInv, NEW v \in Key, \E n \in 0..(views + 1) : v.offset = n * Limit, Show(v)
  PROVE  TrailInv'
<1>1. fetch' \in [Key -> Fetch] /\ \A q \in Key : fetch'[q].data = fetch[q].data
  BY MountedEffect DEF Show, KeyOf
<1>2. \A k \in Key : (Answer(k, cache[k]) /\ Answer(k, fetch[k].data))'
  BY <1>1, AnswersKept DEF Show
<1>3. \E n \in 0..views' : view'.offset = n * Limit
  BY DEF Show
<1>4. view' \in Key /\ last' \in Key /\ views' \in 0..Views
  BY BoundAssumption DEF Show, LastShown, KeyOf, TrailInv, TypeOK
<1>5. TypeOK'
  BY <1>1, <1>4 DEF Show, TrailInv, TypeOK
<1> QED BY <1>2, <1>3, <1>5 DEF TrailInv

\* The administrator opens the page, leaves it, filters and turns pages.
LEMMA PageInv ==
  ASSUME TrailInv, Open \/ Leave \/ Reset \/ NextPage \/ PreviousPage \/ \E f \in Filter : Choose(f)
  PROVE  TrailInv'
<1> DEFINE At(n, v) == v \in Key /\ v.offset = n * Limit
<1>0. views \in Nat /\ Limit \in Nat /\ view \in Key /\ Default \in Key /\ 0 * Limit = 0
  BY OffsetType, BoundAssumption DEF TrailInv, TypeOK
<1>1. CASE Open
  <2>1. fetch' \in [Key -> Fetch] /\ \A q \in Key : fetch'[q].data = fetch[q].data
    BY <1>0, <1>1, MountedEffect DEF Open, KeyOf
  <2>2. \A k \in Key : (Answer(k, cache[k]) /\ Answer(k, fetch[k].data))'
    BY <1>1, <2>1, AnswersKept DEF Open
  <2>3. TypeOK'
    BY <1>0, <1>1, <2>1 DEF Open, KeyOf, TrailInv, TypeOK
  <2> QED BY <1>1, <2>2, <2>3 DEF Open, TrailInv
<1>2. CASE Leave
  <2>1. \A k \in Key : (Answer(k, cache[k]) /\ Answer(k, fetch[k].data))'
    BY <1>2, AnswersKept DEF Leave
  <2>2. TypeOK'
    BY <1>0, <1>2 DEF Leave, TrailInv, TypeOK
  <2>3. view'.offset = 0 * Limit /\ 0 \in 0..views'
    BY <1>0, <1>2 DEF Leave, Default
  <2> QED BY <2>1, <2>2, <2>3 DEF TrailInv
<1>3. ASSUME NEW v \in Key, v.offset = 0, Show(v) PROVE TrailInv'
  <2>1. v.offset = 0 * Limit /\ 0 \in 0..(views + 1)
    BY <1>0, <1>3
  <2> QED BY <1>3, <2>1, ShowInv
<1>4. CASE Reset
  BY <1>0, <1>3, <1>4 DEF Reset, Default
<1>5. CASE \E f \in Filter : Choose(f)
  <2>1. PICK f \in Filter : Choose(f)
    BY <1>5
  <2>2. [filter |-> f, offset |-> 0] \in Key
    BY <1>0 DEF Key, Default
  <2> QED BY <1>3, <2>1, <2>2 DEF Choose
<1>6. PICK n \in 0..views : view.offset = n * Limit
  BY DEF TrailInv
<1>7. CASE NextPage
  <2>1. n + 1 \in 0..(views + 1) /\ n + 1 \in 0..Views /\ view.offset + Limit = (n + 1) * Limit
    BY <1>0, <1>6, <1>7, OffsetType, BoundAssumption DEF NextPage, Show
  <2>2. [view EXCEPT !.offset = @ + Limit] \in Key
    BY <1>0, <2>1, OffsetType DEF Key
  <2>3. [view EXCEPT !.offset = @ + Limit].offset = (n + 1) * Limit
    BY <1>0, <2>1 DEF Key
  <2> QED BY <1>7, <2>1, <2>2, <2>3, ShowInv DEF NextPage
<1>8. CASE PreviousPage
  <2> DEFINE o == IF view.offset > Limit THEN view.offset - Limit ELSE 0
  <2>1. \E m \in 0..(views + 1) : m \in 0..Views /\ o = m * Limit
    <3>1. CASE view.offset > Limit
      <4>1. n # 0 /\ n - 1 \in Nat
        BY <1>0, <1>6, <3>1
      <4>2. n * Limit = (n - 1) * Limit + Limit /\ (n - 1) * Limit \in Nat
        <5>1. (n - 1 + 1) * Limit = (n - 1) * Limit + Limit /\ (n - 1) * Limit \in Nat
          BY <4>1, OffsetType
        <5>2. n - 1 + 1 = n
          BY <1>6
        <5> QED BY <5>1, <5>2
      <4>3. o = (n - 1) * Limit
        BY <1>0, <1>6, <3>1, <4>2
      <4>4. n - 1 \in 0..(views + 1) /\ n - 1 \in 0..Views
        BY <1>0, <4>1, BoundAssumption DEF TrailInv, TypeOK
      <4> QED BY <4>3, <4>4
    <3>2. CASE ~ (view.offset > Limit)
      BY <1>0, <3>2, BoundAssumption
    <3> QED BY <3>1, <3>2
  <2>2. [view EXCEPT !.offset = o] \in Key /\ [view EXCEPT !.offset = o].offset = o
    BY <1>0, <2>1, OffsetType DEF Key
  <2>3. Show([view EXCEPT !.offset = o])
    BY <1>8 DEF PreviousPage
  <2> QED BY <2>1, <2>2, <2>3, ShowInv
<1> QED BY <1>1, <1>2, <1>4, <1>5, <1>7, <1>8

\* An entry is written: the log grows.
LEMMA WriteInv ==
  ASSUME TrailInv, NEW e \in Entries, Write(e)
  PROVE  TrailInv'
<1>1. \A k \in Key : (Answer(k, cache[k]) /\ Answer(k, fetch[k].data))'
  BY AnswersKept DEF Write
<1>2. TypeOK'
  BY DEF Write, page, TrailInv, TypeOK
<1> QED BY <1>1, <1>2 DEF Write, page, TrailInv

\* A request is answered from the log as it is, stored, or given up.
LEMMA RequestInv ==
  ASSUME TrailInv, NEW k \in Key, Served(k) \/ Stored(k) \/ Fails(k)
  PROVE  TrailInv'
<1>1. CASE Served(k)
  <2> DEFINE d == [loaded |-> TRUE, seen |-> log, rows |-> PageOf(k, log)]
  <2>1. fetch' = [fetch EXCEPT ![k] = [on |-> "answered", data |-> d]]
    BY <1>1 DEF Served, PageOf
  <2>2. d \in Entry
    BY PageType DEF Entry, TrailInv, TypeOK
  <2>3. d.loaded /\ d.seen \subseteq log' /\ d.rows = PageOf(k, d.seen)
    BY <1>1 DEF Served
  <2> HIDE DEF d
  <2>4. TypeOK'
    <3>1. [on |-> "answered", data |-> d] \in Fetch
      BY <2>2 DEF Fetch
    <3>2. fetch' \in [Key -> Fetch]
      BY <2>1, <3>1 DEF TrailInv, TypeOK
    <3> QED BY <1>1, <3>2 DEF Served, page, TrailInv, TypeOK
  <2>5. \A q \in Key : (Answer(q, cache[q]) /\ Answer(q, fetch[q].data))'
    <3> SUFFICES ASSUME NEW q \in Key
                 PROVE  Answer(q, cache[q])' /\ Answer(q, fetch[q].data)'
      OBVIOUS
    <3>1. Answer(q, cache[q])'
      BY <1>1 DEF Answer, Served, TrailInv
    <3>2. fetch'[q].data = IF q = k THEN d ELSE fetch[q].data
      BY <2>1 DEF TrailInv, TypeOK
    <3>3. Answer(q, fetch[q].data)'
      BY <1>1, <2>3, <3>2 DEF Answer, Served, TrailInv
    <3> QED BY <3>1, <3>3
  <2> QED BY <1>1, <2>4, <2>5 DEF Served, page, TrailInv
<1>2. CASE Stored(k)
  <2> DEFINE d == fetch[k].data
  <2>1. d \in Entry /\ Answer(k, d)
    BY DEF TrailInv, TypeOK, Fetch
  <2>2. Len(d.rows) <= Limit
    BY <2>1, PageType, BoundAssumption DEF Answer, TrailInv, TypeOK, Entry
  <2>3. cache' = [cache EXCEPT ![k] = d] /\ fetch' = [fetch EXCEPT ![k] = NoFetch]
    BY <1>2 DEF Stored
  <2> HIDE DEF d
  <2>4. TypeOK'
    <3>1. cache' \in [Key -> Entry] /\ fetch' \in [Key -> Fetch]
      BY <2>1, <2>3, NothingYet DEF TrailInv, TypeOK
    <3>2. \A q \in Key : Len(cache'[q].rows) <= Limit
      BY <2>2, <2>3 DEF TrailInv, TypeOK
    <3>3. last' \in Key
      BY <1>2 DEF Stored, TrailInv, TypeOK
    <3> QED BY <1>2, <3>1, <3>2, <3>3 DEF Stored, TrailInv, TypeOK
  <2>5. \A q \in Key : (Answer(q, cache[q]) /\ Answer(q, fetch[q].data))'
    <3> SUFFICES ASSUME NEW q \in Key
                 PROVE  Answer(q, cache[q])' /\ Answer(q, fetch[q].data)'
      OBVIOUS
    <3>1. /\ cache'[q] = IF q = k THEN d ELSE cache[q]
          /\ fetch'[q] = IF q = k THEN NoFetch ELSE fetch[q]
      BY <2>3 DEF TrailInv, TypeOK
    <3>2. log' = log
      BY <1>2 DEF Stored
    <3>3. Answer(q, cache[q])'
      BY <2>1, <3>1, <3>2 DEF Answer, TrailInv
    <3>4. Answer(q, fetch[q].data)'
      BY <3>1, <3>2, NothingYet DEF Answer, TrailInv
    <3> QED BY <3>3, <3>4
  <2> QED BY <1>2, <2>4, <2>5 DEF Stored, TrailInv
<1>3. CASE Fails(k)
  <2>1. fetch' = [fetch EXCEPT ![k] = NoFetch] /\ log' = log /\ cache' = cache
    BY <1>3 DEF Fails
  <2>2. fetch' \in [Key -> Fetch] /\ faults' \in 0..Faults
    BY <1>3, <2>1, NothingYet, BoundAssumption DEF Fails, TrailInv, TypeOK
  <2>3. TypeOK'
    BY <1>3, <2>2 DEF Fails, page, TrailInv, TypeOK
  <2>4. \A q \in Key : (Answer(q, cache[q]) /\ Answer(q, fetch[q].data))'
    <3> SUFFICES ASSUME NEW q \in Key
                 PROVE  Answer(q, cache[q])' /\ Answer(q, fetch[q].data)'
      OBVIOUS
    <3>1. fetch'[q] = IF q = k THEN NoFetch ELSE fetch[q]
      BY <2>1 DEF TrailInv, TypeOK
    <3>2. Answer(q, cache[q])'
      BY <2>1 DEF Answer, TrailInv
    <3>3. Answer(q, fetch[q].data)'
      BY <2>1, <3>1, NothingYet DEF Answer, TrailInv
    <3> QED BY <3>2, <3>3
  <2> QED BY <1>3, <2>3, <2>4 DEF Fails, page, TrailInv
<1> QED BY <1>1, <1>2, <1>3

-----------------------------------------------------------------------------
(***************************************************************************)
(* The theorems.                                                           *)
(***************************************************************************)

\* The invariant, whatever is logged meanwhile and in whatever order answers come.
THEOREM TrailInvariance == Spec => []TrailInv
<1>1. TrailInv /\ [Next]_vars => TrailInv'
  <2> SUFFICES ASSUME TrailInv, [Next]_vars PROVE TrailInv'
    OBVIOUS
  <2>1. CASE UNCHANGED vars
    BY <2>1 DEF TrailInv, TypeOK, Answer, vars, page
  <2>2. CASE Next
    BY <2>2, WriteInv, PageInv, RequestInv DEF Next
  <2> QED BY <2>1, <2>2
<1> QED BY <1>1, InitInv, PTL DEF Spec

\* The variables keep their types, and a page its length.
THEOREM TrailTypes == Spec => []TypeOK
<1>1. TrailInv => TypeOK
  BY DEF TrailInv
<1> QED BY <1>1, TrailInvariance, PTL

\* Between a page and the next one that was asked for no earlier lies no entry
\* which the log had by then, for any log, page size and filter.
THEOREM PagesHaveNoGap == Spec => []NoGap
<1>1. TrailInv => NoGap
  <2> SUFFICES ASSUME TrailInv, NEW k \in Key,
                      [k EXCEPT !.offset = @ + Limit] \in Key,
                      cache[k].loaded, cache[[k EXCEPT !.offset = @ + Limit]].loaded,
                      cache[k].seen \subseteq cache[[k EXCEPT !.offset = @ + Limit]].seen,
                      NEW e \in Matching(k.filter, cache[k].seen)
               PROVE  \/ cache[k].rows = <<>> \/ e >= cache[k].rows[Len(cache[k].rows)]
                      \/ /\ cache[[k EXCEPT !.offset = @ + Limit]].rows # <<>>
                         /\ e <= cache[[k EXCEPT !.offset = @ + Limit]].rows[1]
    BY DEF NoGap
  <2> DEFINE n == [k EXCEPT !.offset = @ + Limit]
             S == Matching(k.filter, cache[k].seen)
             T == Matching(k.filter, cache[n].seen)
  <2>1. n.filter = k.filter /\ n.offset = k.offset + Limit /\ k.offset \in Nat
    BY OffsetType DEF Key
  <2>2. cache[k].seen \in SUBSET Entries /\ cache[n].seen \in SUBSET Entries
    BY DEF TrailInv, TypeOK, Entry
  <2>3. S \in SUBSET Nat /\ T \in SUBSET Nat /\ IsFiniteSet(T) /\ S \subseteq T
    <3>1. S \subseteq T
      BY DEF Matching
    <3> QED BY <2>2, <3>1, MatchingType
  <2>4. /\ cache[k].rows = Slice(NewestFirst(S), k.offset)
        /\ cache[n].rows = Slice(NewestFirst(T), k.offset + Limit)
    BY <2>1 DEF TrailInv, Answer, PageOf
  <2>5. e \in S
    OBVIOUS
  <2> HIDE DEF n, S, T
  <2>6. \/ cache[k].rows = <<>> \/ e >= cache[k].rows[Len(cache[k].rows)]
        \/ cache[n].rows # <<>> /\ e <= cache[n].rows[1]
    BY <2>1, <2>3, <2>4, <2>5, PagesMeet
  <2> QED BY <2>6 DEF n
<1> QED BY <1>1, TrailInvariance, PTL

\* With no request on its way, every row shown passes the chosen filter.
THEOREM RowsMatch == Spec => []ShownMatches
<1>1. TrailInv => ShownMatches
  <2> SUFFICES ASSUME TrailInv, ~ Fetching, NEW i \in DOMAIN Rows
               PROVE  Rows[i] \in Matching(view.filter, log)
    BY DEF ShownMatches
  <2>1. view \in Key /\ Cur = view
    BY DEF TrailInv, TypeOK, Cur, KeyOf
  <2>2. CASE cache[view].loaded
    <3>1. /\ cache[view].seen \subseteq log /\ Rows = PageOf(view, cache[view].seen)
          /\ log \subseteq Entries
      BY <2>1, <2>2 DEF TrailInv, TypeOK, Answer, Rows
    <3>2. Rows \in Seq(Entries) /\ i \in 1..Len(Rows)
      BY <2>1, <3>1, PageType
    <3>3. Rows[i] \in Matching(view.filter, cache[view].seen)
      BY <2>1, <3>1, <3>2, PageType
    <3> QED BY <3>1, <3>3 DEF Matching
  <2>3. CASE ~ cache[view].loaded
    <3>1. Rows = <<>>
      BY <2>1, <2>3 DEF Rows
    <3> QED BY <3>1
  <2> QED BY <2>2, <2>3
<1> QED BY <1>1, TrailInvariance, PTL
=============================================================================
