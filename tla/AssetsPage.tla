----------------------------- MODULE AssetsPage -----------------------------
(***************************************************************************)
(* The assets page of one administrator: filters, paging and page size,    *)
(* the query cache with one entry per combination of them, the ticked      *)
(* rows, the delete dialog of a row and the deletion of all ticked rows,   *)
(* with the device endpoints they call.                                    *)
(*                                                                         *)
(* A device is present or not, and up or down: down stands for the status  *)
(* offline and for the health derived from it.  Sorting happens within a   *)
(* page and is left out, as are hidden columns.  A request stands for its  *)
(* attempt and up to three retries.                                        *)
(***************************************************************************)
EXTENDS Naturals, Sequences, FiniteSets

CONSTANTS
  Devices,     \* device ids, numbered in the order of their host names
  Nameless,    \* devices without a host name: they come last, in any order
  Found,       \* devices that match the search term "some"
  NoDevice,
  Searches,    \* what is typed: "" or "some"
  Picks,       \* chosen filters: "all", status "offline", health "critical"
  Sizes,       \* page sizes
  Size,        \* the page size at first
  Presses,     \* deletions that can be under way at once
  MaxEvents    \* bound on changes of the view, confirmed deletions, changes of
               \* devices by scans and other people, and failed requests

ASSUME DeviceAssumption ==
  /\ Devices \subseteq Nat /\ IsFiniteSet(Devices) /\ NoDevice \notin Devices
  /\ Nameless \subseteq Devices /\ Found \subseteq Devices
ASSUME ViewAssumption ==
  /\ Searches \subseteq {"", "some"} /\ "" \in Searches
  /\ Picks \subseteq {"all", "offline", "critical"} /\ "all" \in Picks
  /\ Sizes \subseteq Nat \ {0} /\ Size \in Sizes
ASSUME BoundAssumption == MaxEvents \in Nat

VARIABLES
  db, down,    \* the devices there are, and those of them that are offline
  gone,        \* deleted devices: one that is found again gets a new id
  open,        \* the page is mounted
  view,        \* its filters, page and page size
  cache,       \* cache[k]: the entry of query key k
  fetch,       \* fetch[k]: the request of query key k
  ticked,      \* rowSelection: ids of rows
  dialog,      \* the row whose delete dialog is open
  press,       \* press[p]: the requests of one confirmed deletion
  said,        \* devices a toast called deleted in bulk
  removed,     \* devices a DELETE of this page was answered 204 for
  chosen,      \* devices whose rows were ticked, and not unticked since
  meant,       \* the device whose dialog was opened
  events

devices == <<db, down, gone>>
screen == <<open, view>>
choice == <<ticked, dialog, chosen, meant>>
words == <<said, removed>>
vars == <<devices, screen, cache, fetch, choice, press, words, events>>

-----------------------------------------------------------------------------
View == [typed : Searches, search : Searches, pick : Picks, page : Nat \ {0}, size : Sizes]
DefaultView == [typed |-> "", search |-> "", pick |-> "all", page |-> 1, size |-> Size]

\* Pages up to one beyond the last: rows may go while a page is looked at.
Pages == 1..(Cardinality(Devices) + 1)
\* The key of the table's query: the search term is the debounced one.
Keys == [search : Searches, pick : Picks, page : Pages, size : Sizes]
KeyOf(v) == [search |-> v.search, pick |-> v.pick, page |-> v.page, size |-> v.size]
Cur == KeyOf(view)

\* The key that has an observer.
Active(k) == open /\ k = Cur

\* loaded: there is data. inv: isInvalidated. late: the data was asked for
\* before an invalidation that did not replace its request.
Entry == [loaded : BOOLEAN, rows : Seq(Devices), total : Nat,
          inv : BOOLEAN, failed : BOOLEAN, late : BOOLEAN]
NoEntry == [loaded |-> FALSE, rows |-> <<>>, total |-> 0,
            inv |-> FALSE, failed |-> FALSE, late |-> FALSE]
Fetch == [on : {"no", "sent", "answered"}, total : Nat, rows : Seq(Devices),
          late : BOOLEAN]
NoFetch == [on |-> "no", total |-> 0, rows |-> <<>>, late |-> FALSE]
SentFetch == [NoFetch EXCEPT !.on = "sent"]

\* all: what was asked for; the rest is where each of them stands.
Press == [kind : {"none", "row", "bulk"}, all : SUBSET Devices, sent : SUBSET Devices,
          ok : SUBSET Devices, bad : SUBSET Devices, done : SUBSET Devices]
NoPress == [kind |-> "none", all |-> {}, sent |-> {}, ok |-> {}, bad |-> {}, done |-> {}]

TypeOK ==
  /\ db \subseteq Devices /\ down \subseteq db /\ gone \subseteq Devices
  /\ open \in BOOLEAN
  /\ view \in View /\ view.page \in Pages
  /\ cache \in [Keys -> Entry]
  /\ fetch \in [Keys -> Fetch]
  /\ ticked \subseteq Devices /\ chosen \subseteq Devices
  /\ {dialog, meant} \subseteq Devices \cup {NoDevice}
  /\ press \in [Presses -> Press]
  /\ said \subseteq Devices /\ removed \subseteq Devices
  /\ events \in 0..MaxEvents

Init ==
  /\ db \in SUBSET Devices /\ down = {} /\ gone = {}
  /\ open = FALSE
  /\ view = DefaultView
  /\ cache = [k \in Keys |-> NoEntry]
  /\ fetch = [k \in Keys |-> NoFetch]
  /\ ticked = {} /\ chosen = {} /\ dialog = NoDevice /\ meant = NoDevice
  /\ press = [p \in Presses |-> NoPress]
  /\ said = {} /\ removed = {}
  /\ events = 0

Event == events < MaxEvents /\ events' = events + 1

-----------------------------------------------------------------------------
(***************************************************************************)
(* GET /devices.                                                           *)
(***************************************************************************)
\* The WHERE clause: status and search, never the health.
Matching(k) == {d \in db : /\ k.pick = "offline" => d \in down
                           /\ k.search = "some" => d \in Found}
\* deriveAssetHealth, applied to the page that arrived.
Healthy(k, d) == k.pick = "critical" => d \in down
OfHealth(k, s) ==
  LET upTo[n \in 0..Len(s)] ==
        IF n = 0 THEN <<>>
        ELSE IF Healthy(k, s[n]) THEN Append(upTo[n - 1], s[n]) ELSE upTo[n - 1]
  IN upTo[Len(s)]

\* ORDER BY hostname ASC NULLS LAST leaves open how the nameless are ordered.
Ordered(S) ==
  {s \in [1..Cardinality(S) -> S] :
     \A i, j \in 1..Cardinality(S) : i < j =>
        /\ s[i] # s[j]
        /\ s[i] \in Nameless => s[j] \in Nameless
        /\ s[j] \notin Nameless => s[i] < s[j]}
Least(m, n) == IF m < n THEN m ELSE n
PageOf(s, k) == SubSeq(s, (k.page - 1) * k.size + 1, Least(k.page * k.size, Len(s)))

TotalPages(k, total) == (total + k.size - 1) \div k.size

-----------------------------------------------------------------------------
(***************************************************************************)
(* What is on the screen.                                                  *)
(***************************************************************************)
Rows == cache[Cur].rows
InTable(d) == open /\ \E i \in DOMAIN Rows : Rows[i] = d
\* The three states of the table; a request that failed without data has none.
Skeleton == open /\ ~ cache[Cur].loaded /\ fetch[Cur].on # "no"
Empty == open /\ ~ Skeleton /\ Rows = <<>>
Table == open /\ ~ Skeleton /\ Rows # <<>>

\* A variant that names a row by its place on the page.
RowIndex(rows, i) == i
\* getRowId.
RowId(rows, i) == rows[i]
\* getSelectedRowModel looks for the ticked among the rows of this page.
Selected == IF Table THEN {Rows[i] : i \in {j \in DOMAIN Rows : RowId(Rows, j) \in ticked}}
            ELSE {}
DialogFor(rows) == {rows[i] : i \in {j \in DOMAIN rows : RowId(rows, j) = dialog}}

\* The dialog is a part of its row.
NoDialog == dialog' = NoDevice /\ meant' = NoDevice
DialogKept(rows) ==
  IF DialogFor(rows) = {} THEN NoDialog ELSE UNCHANGED <<dialog, meant>>

-----------------------------------------------------------------------------
(***************************************************************************)
(* The queries.                                                            *)
(***************************************************************************)
\* A key that gets an observer is fetched unless its data is fresh; when data
\* stops being fresh is left open.
Mounted(k) ==
  \/ fetch' = [fetch EXCEPT ![k] = IF @.on = "no" THEN SentFetch ELSE @]
  \/ cache[k].loaded /\ ~ cache[k].inv /\ UNCHANGED fetch

\* A variant that fetches the table on the screen and forgets the other entries.
CurRefetched ==
  /\ fetch' = IF open THEN [fetch EXCEPT ![Cur] = SentFetch] ELSE fetch
  /\ UNCHANGED cache
\* invalidateQueries(["assets"]): every entry is marked, and every observed one
\* fetched anew. A request on its way is replaced when it is observed and its
\* entry has data; any other goes on and its answer counts as fresh.
Invalidated ==
  /\ cache' = [k \in Keys |-> IF cache[k].loaded THEN [cache[k] EXCEPT !.inv = TRUE] ELSE cache[k]]
  /\ fetch' = [k \in Keys |->
                 IF Active(k) /\ (cache[k].loaded \/ fetch[k].on = "no") THEN SentFetch
                 ELSE IF fetch[k].on # "no" THEN [fetch[k] EXCEPT !.late = TRUE] ELSE fetch[k]]

\* list_devices_paginated; its two statements count as one.
Served(k) ==
  /\ fetch[k].on = "sent"
  /\ \E s \in Ordered(Matching(k)) :
        fetch' = [fetch EXCEPT ![k].on = "answered", ![k].total = Len(s),
                               ![k].rows = OfHealth(k, PageOf(s, k))]
  /\ UNCHANGED <<devices, screen, cache, choice, press, words, events>>

Stored(k) ==
  /\ fetch[k].on = "answered"
  /\ cache' = [cache EXCEPT ![k] = [loaded |-> TRUE, rows |-> fetch[k].rows, total |-> fetch[k].total,
                                    inv |-> FALSE, failed |-> FALSE, late |-> fetch[k].late]]
  /\ fetch' = [fetch EXCEPT ![k] = NoFetch]
  /\ IF Active(k) THEN DialogKept(fetch[k].rows) ELSE UNCHANGED <<dialog, meant>>
  /\ UNCHANGED <<devices, screen, ticked, chosen, press, words, events>>
FetchFails(k) ==
  /\ fetch[k].on # "no" /\ Event
  /\ cache' = [cache EXCEPT ![k].failed = TRUE]
  /\ fetch' = [fetch EXCEPT ![k] = NoFetch]
  /\ UNCHANGED <<devices, screen, choice, press, words>>

-----------------------------------------------------------------------------
(***************************************************************************)
(* The page.                                                               *)
(***************************************************************************)
Open ==
  /\ ~ open /\ open' = TRUE
  /\ Mounted(KeyOf(DefaultView))
  /\ UNCHANGED <<devices, view, cache, choice, press, words, events>>
\* Its state goes with the page; the cache and what is on its way stay.
Leave ==
  /\ open /\ open' = FALSE
  /\ view' = DefaultView
  /\ ticked' = {} /\ chosen' = {} /\ NoDialog
  /\ UNCHANGED <<devices, cache, fetch, press, words, events>>

\* The dialog is modal: what lies behind it waits.
Free == open /\ dialog = NoDevice
ShowView(v) ==
  /\ Event /\ view' = v
  /\ Mounted(KeyOf(v))
  /\ UNCHANGED <<devices, open, cache, choice, press, words>>

\* handleFiltersChange of the toolbar, handleReset of the empty table.
Type(s) == Free /\ s # view.typed /\ ShowView([view EXCEPT !.typed = s, !.page = 1])
Pick(f) == Free /\ f # view.pick /\ ShowView([view EXCEPT !.pick = f, !.page = 1])
Reset == /\ Free /\ Empty
         /\ ShowView([view EXCEPT !.typed = "", !.pick = "all", !.page = 1])
\* The timer of useDebouncedValue.
Debounced ==
  /\ open /\ view.search # view.typed
  /\ view' = [view EXCEPT !.search = view.typed]
  /\ Mounted(KeyOf(view'))
  /\ LET rows == cache[KeyOf(view')].rows IN DialogKept(rows)
  /\ UNCHANGED <<devices, open, cache, ticked, chosen, press, words, events>>
\* AssetPagination.
GoTo(n) ==
  LET last == TotalPages(Cur, cache[Cur].total)
  IN /\ Free /\ Table
     /\ \/ n \in {1, view.page - 1} /\ view.page > 1
        \/ n \in {view.page + 1, last} /\ view.page < last
     /\ ShowView([view EXCEPT !.page = n])
Resize(n) == Free /\ Table /\ n # view.size /\ ShowView([view EXCEPT !.size = n, !.page = 1])

Focus ==
  /\ open /\ Mounted(Cur)
  /\ UNCHANGED <<devices, screen, cache, choice, press, words, events>>
\* handleScanComplete; what the scan wrote is among the changes from outside.
ScanComplete ==
  /\ open /\ Invalidated /\ Event
  /\ UNCHANGED <<devices, screen, choice, press, words>>

\* The check boxes: one row, or all rows of the page.
Tick(i) ==
  /\ Table /\ dialog = NoDevice /\ i \in DOMAIN Rows
  /\ LET id == RowId(Rows, i)
     IN IF id \in ticked
        THEN ticked' = ticked \ {id} /\ chosen' = chosen \ {Rows[i]}
        ELSE ticked' = ticked \cup {id} /\ chosen' = chosen \cup {Rows[i]}
  /\ UNCHANGED <<devices, screen, cache, fetch, dialog, meant, press, words, events>>
TickAll ==
  LET ids == {RowId(Rows, i) : i \in DOMAIN Rows}
      here == {Rows[i] : i \in DOMAIN Rows}
  IN /\ Table /\ dialog = NoDevice
     /\ IF ids \subseteq ticked
        THEN ticked' = ticked \ ids /\ chosen' = chosen \ here
        ELSE ticked' = ticked \cup ids /\ chosen' = chosen \cup here
     /\ UNCHANGED <<devices, screen, cache, fetch, dialog, meant, press, words, events>>

-----------------------------------------------------------------------------
(***************************************************************************)
(* Deleting.                                                               *)
(***************************************************************************)
Fresh(p) == press[p].kind = "none"
Send(p, kind, S) == press' = [press EXCEPT ![p] = [NoPress EXCEPT !.kind = kind, !.all = S, !.sent = S]]

\* The entry of the row's menu that opens its dialog.
AskRow(i) ==
  /\ Table /\ dialog = NoDevice /\ i \in DOMAIN Rows
  /\ \E p \in Presses : Fresh(p)
  /\ dialog' = RowId(Rows, i) /\ meant' = Rows[i]
  /\ UNCHANGED <<devices, screen, cache, fetch, ticked, chosen, press, words, events>>
Cancel ==
  /\ dialog # NoDevice /\ NoDialog
  /\ UNCHANGED <<devices, screen, cache, fetch, ticked, chosen, press, words, events>>
\* handleDelete; its toast says "deleted" before the request is answered.
ConfirmRow(p) ==
  /\ dialog # NoDevice /\ Fresh(p) /\ Event
  /\ \E d \in DialogFor(Rows) : Send(p, "row", {d})
  /\ NoDialog
  /\ UNCHANGED <<devices, screen, cache, fetch, ticked, chosen, words>>
\* handleBulkDelete; its button stays usable while requests are on their way.
BulkDelete(p) ==
  /\ Selected # {} /\ dialog = NoDevice /\ Fresh(p) /\ Event
  /\ Send(p, "bulk", Selected)
  /\ UNCHANGED <<devices, screen, cache, fetch, choice, words>>

\* A variant that leaves the status of the device behind.
DeletedInPart(p, d) ==
  /\ d \in press[p].sent
  /\ db' = db \ {d} /\ gone' = gone \cup {d}
  /\ press' = [press EXCEPT ![p].sent = @ \ {d}, ![p].ok = @ \cup {d}]
  /\ UNCHANGED <<down, screen, cache, fetch, choice, words, events>>
\* delete_device, its entry in the audit log left out.
Deleted(p, d) ==
  /\ d \in press[p].sent
  /\ db' = db \ {d} /\ down' = down \ {d} /\ gone' = gone \cup {d}
  /\ press' = [press EXCEPT ![p].sent = @ \ {d},
                            ![p].ok = IF d \in db THEN @ \cup {d} ELSE @,
                            ![p].bad = IF d \in db THEN @ ELSE @ \cup {d}]
  /\ UNCHANGED <<screen, cache, fetch, choice, words, events>>
\* Refused, broken off on the server, or the answer is lost.
DeleteFails(p, d) ==
  /\ d \in press[p].sent \cup press[p].ok /\ Event
  /\ press' = [press EXCEPT ![p].sent = @ \ {d}, ![p].ok = @ \ {d}, ![p].bad = @ \cup {d}]
  /\ UNCHANGED <<devices, screen, cache, fetch, choice, words>>

\* A variant after the manner of Promise.any.
AnyDone(q, d) == q.kind = "bulk"
\* Promise.all: the last success clears the ticks and says so.
AllDone(q, d) == q.kind = "bulk" /\ q.done \cup {d} = q.all

\* All answers are in.
Settled(q) == IF q.sent \cup q.ok \cup q.bad = {} THEN NoPress ELSE q

DeleteAnswered(p, d) ==
  /\ d \in press[p].ok
  /\ Invalidated
  /\ press' = [press EXCEPT ![p] = Settled(
      [press[p] EXCEPT !.ok = press[p].ok \ {d}, !.done = press[p].done \cup {d}])]
  /\ removed' = removed \cup {d}
  /\ IF AllDone(press[p], d)
     THEN ticked' = {} /\ chosen' = {} /\ said' = said \cup press[p].all
     ELSE UNCHANGED <<ticked, chosen, said>>
  /\ UNCHANGED <<devices, screen, dialog, meant, events>>
DeleteRejected(p, d) ==
  /\ d \in press[p].bad
  /\ press' = [press EXCEPT ![p] = Settled([press[p] EXCEPT !.bad = press[p].bad \ {d}])]
  /\ UNCHANGED <<devices, screen, cache, fetch, choice, words, events>>

-----------------------------------------------------------------------------
\* Scans and other administrators.
Changed(d) ==
  /\ Event
  /\ \/ d \notin db \cup gone /\ db' = db \cup {d} /\ UNCHANGED <<down, gone>>
     \/ d \in db /\ db' = db \ {d} /\ down' = down \ {d} /\ gone' = gone \cup {d}
     \/ d \in db \ down /\ down' = down \cup {d} /\ UNCHANGED <<db, gone>>
     \/ d \in down /\ down' = down \ {d} /\ UNCHANGED <<db, gone>>
  /\ UNCHANGED <<screen, cache, fetch, choice, press, words>>

Next ==
  \/ Open \/ Leave \/ Reset \/ Debounced \/ Focus \/ ScanComplete \/ TickAll \/ Cancel
  \/ \E s \in Searches : Type(s)
  \/ \E f \in Picks : Pick(f)
  \/ \E n \in Pages : GoTo(n) \/ Tick(n) \/ AskRow(n)
  \/ \E n \in Sizes : Resize(n)
  \/ \E k \in Keys : Served(k) \/ Stored(k) \/ FetchFails(k)
  \/ \E p \in Presses :
       \/ ConfirmRow(p) \/ BulkDelete(p)
       \/ \E d \in Devices : \/ Deleted(p, d) \/ DeleteFails(p, d)
                             \/ DeleteAnswered(p, d) \/ DeleteRejected(p, d)
  \/ \E d \in Devices : Changed(d)

Spec == Init /\ [][Next]_vars

-----------------------------------------------------------------------------
(***************************************************************************)
(* Properties.                                                             *)
(***************************************************************************)

\* The devices of a deletion that is sent in this step are on the screen and chosen.
SendsChosen ==
  \A p \in Presses : press[p].kind = "none" =>
    \A d \in press'[p].all :
       InTable(d) /\ IF press'[p].kind = "row" THEN d = meant ELSE d \in chosen

\* A DELETE names a device on the screen that the administrator ticked, or
\* whose own dialog was confirmed: not what took its place when the page, the
\* filter or the rows changed in between.
DeletesChosen == [][SendsChosen]_vars

\* "n Asset(s) deleted" is said only when all n are gone.
BulkToastTrue == said \cap db = {}

\* A device whose deletion was answered stays on the screen only while a
\* request is on its way that takes it off, or when that request failed; the
\* one exception is data that was asked for before the deletion by a request
\* no invalidation replaced.
DeletedLeaves ==
  \A d \in removed : InTable(d) =>
     fetch[Cur].on # "no" \/ cache[Cur].failed \/ cache[Cur].late
=============================================================================
