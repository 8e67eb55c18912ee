----------------------------- MODULE AuditTrail -----------------------------
(***************************************************************************)
(* The audit page of one administrator over the append-only audit log:     *)
(* pages of Limit entries by offset, one cache entry per filter and        *)
(* offset, the rows of the page before as placeholder, and the filter.     *)
(*                                                                         *)
(* An entry is its timestamp.  The timestamp is taken when a transaction   *)
(* begins, so that entries become visible in another order than theirs.    *)
(* The five filters are one that selects the entries of Own.               *)
(***************************************************************************)
EXTENDS Naturals, Sequences, FiniteSets, FiniteSetsExt

CONSTANTS
  Entries,   \* what is ever logged, each entry by its timestamp
  Own,       \* the entries that the filter "own" selects
  Limit,     \* entries on a page
  Views,     \* bound on changes of filter and offset
  Faults     \* bound on requests that fail for good

ASSUME EntryAssumption == Entries \subseteq Nat /\ IsFiniteSet(Entries) /\ Own \subseteq Entries
ASSUME BoundAssumption == Limit \in Nat \ {0} /\ Views \in Nat /\ Faults \in Nat

VARIABLES
  log,     \* the committed entries
  open,    \* the page is mounted
  view,    \* its filter and offset
  last,    \* the key whose data the page showed last
  cache,   \* cache[k]: the entry of query key k
  fetch,   \* fetch[k]: the request of query key k
  views, faults

page == <<open, view, last>>
vars == <<log, page, cache, fetch, views, faults>>

-----------------------------------------------------------------------------
Filter == {"all", "own"}
Offsets == {n * Limit : n \in 0..Views}
Key == [filter : Filter, offset : Offsets]
Default == [filter |-> "all", offset |-> 0]

\* A variant that leaves the filters out of the query key.
KeyByOffset(v) == [Default EXCEPT !.offset = v.offset]
KeyOf(v) == v
Cur == KeyOf(view)

\* seen: the log when the answer was made.
Entry == [loaded : BOOLEAN, rows : Seq(Entries), seen : SUBSET Entries]
NoEntry == [loaded |-> FALSE, rows |-> <<>>, seen |-> {}]
Fetch == [on : {"no", "sent", "answered"}, data : Entry]
NoFetch == [on |-> "no", data |-> NoEntry]

TypeOK ==
  /\ log \subseteq Entries
  /\ open \in BOOLEAN
  /\ view \in Key /\ last \in Key
  /\ cache \in [Key -> Entry] /\ \A k \in Key : Len(cache[k].rows) <= Limit
  /\ fetch \in [Key -> Fetch]
  /\ views \in 0..Views /\ faults \in 0..Faults

Init ==
  /\ log \in SUBSET Entries
  /\ open = FALSE
  /\ view = Default /\ last = Default
  /\ cache = [k \in Key |-> NoEntry]
  /\ fetch = [k \in Key |-> NoFetch]
  /\ views = 0 /\ faults = 0

-----------------------------------------------------------------------------
(***************************************************************************)
(* The log and GET /audit-logs.                                            *)
(***************************************************************************)
\* write_audit_log. Nothing takes an entry away again.
Write(e) ==
  /\ e \notin log /\ log' = log \cup {e}
  /\ UNCHANGED <<page, cache, fetch, views, faults>>

Matching(f, S) == IF f = "own" THEN S \cap Own ELSE S
Between(s, m, n) == SubSeq(s, m, Min({n, Len(s)}))
\* Variants: the offset taken for the number of a page, and no LIMIT.
SliceOfPage(s, offset) == Between(s, offset * Limit + 1, offset * Limit + Limit)
SliceToEnd(s, offset) == Between(s, offset + 1, Len(s))
Slice(s, offset) == Between(s, offset + 1, offset + Limit)
\* ORDER BY timestamp DESC: the i-th row is the entry with i - 1 newer ones.
Newer(e, S) == Cardinality({f \in S : f > e})
NewestFirst(S) == [i \in 1..Cardinality(S) |-> CHOOSE e \in S : Newer(e, S) = i - 1]

Served(k) ==
  /\ fetch[k].on = "sent"
  /\ fetch' = [fetch EXCEPT ![k] =
       [on |-> "answered",
        data |-> [loaded |-> TRUE, seen |-> log,
                  rows |-> Slice(NewestFirst(Matching(k.filter, log)), k.offset)]]]
  /\ UNCHANGED <<log, page, cache, views, faults>>

-----------------------------------------------------------------------------
(***************************************************************************)
(* The page.                                                               *)
(***************************************************************************)
Fetching == fetch[Cur].on # "no"
\* The rows of the key, or while they are asked for those shown before; without
\* either the table says that there are no entries.
Rows == IF cache[Cur].loaded THEN cache[Cur].rows
        ELSE IF Fetching THEN cache[last].rows ELSE <<>>
Skeleton == Fetching /\ ~ cache[Cur].loaded /\ ~ cache[last].loaded
Empty == open /\ ~ Skeleton /\ Rows = <<>>
HasMore == Len(Rows) = Limit

\* A key that gets an observer is fetched unless its data is fresh; when data
\* stops being fresh is left open.
Mounted(k) ==
  \/ fetch' = [fetch EXCEPT ![k].on = IF @ = "no" THEN "sent" ELSE @]
  \/ cache[k].loaded /\ UNCHANGED fetch
LastShown(k) == IF cache[k].loaded THEN k ELSE last

Open ==
  /\ ~ open /\ open' = TRUE
  /\ Mounted(KeyOf(Default)) /\ last' = KeyOf(Default)
  /\ UNCHANGED <<log, view, cache, views, faults>>
Leave ==
  /\ open /\ open' = FALSE /\ view' = Default
  /\ UNCHANGED <<log, last, cache, fetch, views, faults>>

Show(v) ==
  /\ open /\ views < Views /\ views' = views + 1
  /\ view' = v
  /\ Mounted(KeyOf(v)) /\ last' = LastShown(KeyOf(v))
  /\ UNCHANGED <<log, open, cache, faults>>

\* handleFiltersChange and handleReset.
Choose(f) == f # view.filter /\ Show([filter |-> f, offset |-> 0])
Reset == view # Default /\ Show(Default)
\* The buttons of AuditLogPagination, which an empty page does not have.
NextPage == /\ Rows # <<>> /\ ~ Fetching /\ HasMore
            /\ Show([view EXCEPT !.offset = @ + Limit])
PreviousPage == /\ Rows # <<>> /\ ~ Fetching /\ view.offset > 0
                /\ Show([view EXCEPT !.offset = IF @ > Limit THEN @ - Limit ELSE 0])

Stored(k) ==
  /\ fetch[k].on = "answered"
  /\ cache' = [cache EXCEPT ![k] = fetch[k].data]
  /\ fetch' = [fetch EXCEPT ![k] = NoFetch]
  /\ last' = IF open /\ k = Cur THEN k ELSE last
  /\ UNCHANGED <<log, open, view, views, faults>>
Fails(k) ==
  /\ fetch[k].on # "no"
  /\ faults < Faults /\ faults' = faults + 1
  /\ fetch' = [fetch EXCEPT ![k] = NoFetch]
  /\ UNCHANGED <<log, page, cache, views>>

Next ==
  \/ \E e \in Entries : Write(e)
  \/ Open \/ Leave \/ Reset \/ NextPage \/ PreviousPage
  \/ \E f \in Filter : Choose(f)
  \/ \E k \in Key : Served(k) \/ Stored(k) \/ Fails(k)

Spec == Init /\ [][Next]_vars

-----------------------------------------------------------------------------
(***************************************************************************)
(* Properties.                                                             *)
(***************************************************************************)

\* Between a page and the next one that was asked for no earlier lies no entry
\* which the log had by then: entries that come in while the administrator
\* reads on push the others towards pages still to come.  Timestamps are taken
\* to differ: the query orders by nothing else.
NoGap ==
  \A k \in Key :
    LET n == [k EXCEPT !.offset = @ + Limit]
        rows == cache[k].rows
    IN n \in Key /\ cache[k].loaded /\ cache[n].loaded /\ cache[k].seen \subseteq cache[n].seen =>
         \A e \in Matching(k.filter, cache[k].seen) :
           \/ rows = <<>> \/ e >= rows[Len(rows)]
           \/ cache[n].rows # <<>> /\ e <= cache[n].rows[1]

\* With no request on its way, every row shown passes the chosen filter: an
\* answer to an earlier choice that comes late is not shown under the new one.
ShownMatches ==
  open /\ ~ Fetching => \A i \in DOMAIN Rows : Rows[i] \in Matching(view.filter, log)
=============================================================================
