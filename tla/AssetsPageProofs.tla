-------------------------- MODULE AssetsPageProofs --------------------------
(***************************************************************************)
(* What the assets page deletes and what it says about it, for any         *)
(* devices, page sizes, filters and number of overlapping presses.         *)
(***************************************************************************)
EXTENDS AssetsPage, FiniteSetTheorems, SequenceTheorems, WellFoundedInduction, TLAPS

\* The ticked ids are the ticked devices, and the open dialog is the one that
\* was asked for: ids of rows are ids of devices.
ChoiceInv ==
  /\ ticked = chosen
  /\ dialog = meant
  /\ dialog # NoDevice => open

\* Presses as records, whatever they hold; one that is free is empty.
Whole(q) == q = [kind |-> q.kind, all |-> q.all, sent |-> q.sent,
                 ok |-> q.ok, bad |-> q.bad, done |-> q.done]
Indexed == press = [p \in Presses |-> press[p]]
Wholes == \A p \in Presses : Whole(press[p])
FreeIsEmpty == \A p \in Presses : press[p].kind = "none" => press[p] = NoPress
PressShape == Indexed /\ Wholes /\ FreeIsEmpty

\* What a press was told to be deleted is gone, and gone devices do not return.
ToldGone ==
  /\ gone \cap db = {}
  /\ said \subseteq gone
  /\ \A p \in Presses : press[p].ok \subseteq gone /\ press[p].done \subseteq gone

PageInv == ChoiceInv /\ PressShape /\ ToldGone

\* Actions that leave presses, ticks and dialog alone, and change devices only
\* in ways that keep the deleted ones deleted.
Elsewhere ==
  /\ UNCHANGED <<press, ticked, chosen, dialog, meant, said>>
  /\ dialog # NoDevice => open'
  /\ gone \subseteq gone' /\ (gone \cap db = {} => gone' \cap db' = {})

-----------------------------------------------------------------------------
\* Such an action keeps the invariant.
LEMMA ElsewhereStep ==
  ASSUME PageInv, Elsewhere
  PROVE  PageInv'
BY DEF PageInv, Elsewhere, ChoiceInv, PressShape, Indexed, Wholes, FreeIsEmpty, ToldGone

(***************************************************************************)
(* Records with some of their fields replaced.                             *)
(***************************************************************************)
\* What is known of a record of sets holds of one that is merely whole.
LEMMA WholeOf ==
  ASSUME NEW K, NEW A, NEW S, NEW O, NEW B, NEW D,
         NEW r \in [kind : K, all : A, sent : S, ok : O, bad : B, done : D]
  PROVE  Whole(r)
BY DEF Whole

\* What becomes of a press that is sent, whose request is served, whose answer
\* or rejection arrives.
SentRec(k, s) == [NoPress EXCEPT !.kind = k, !.all = s, !.sent = s]
ServedRec(q, s, o, b) == [q EXCEPT !.sent = s, !.ok = o, !.bad = b]
AnsweredRec(q, o, c) == [q EXCEPT !.ok = o, !.done = c]
RejectedRec(q, b) == [q EXCEPT !.bad = b]

\* A press whose request was served.
LEMMA ServedPress ==
  ASSUME NEW q, Whole(q), NEW s, NEW o, NEW b, NEW r,
         r = ServedRec(q, s, o, b)
  PROVE  /\ Whole(r) /\ r.kind = q.kind /\ r.all = q.all /\ r.done = q.done
         /\ r.sent = s /\ r.ok = o /\ r.bad = b
<1> DEFINE K == {q.kind}  A == {q.all}  S == {q.sent, s}
           O == {q.ok, o}  B == {q.bad, b}  D == {q.done}
           T == [kind : K, all : A, sent : S, ok : O, bad : B, done : D]
<1>1. q \in T
  BY DEF Whole
<1>2. s \in S /\ o \in O /\ b \in B
  OBVIOUS
<1> HIDE DEF K, A, S, O, B, D
<1>3. r \in T /\ r.kind = q.kind /\ r.all = q.all /\ r.done = q.done
      /\ r.sent = s /\ r.ok = o /\ r.bad = b
  BY <1>1, <1>2 DEF ServedRec
<1>4. Whole(r)
  BY <1>3 DEF Whole
<1> QED BY <1>3, <1>4

\* A press one of whose answers arrived.
LEMMA AnsweredPress ==
  ASSUME NEW q, Whole(q), NEW o, NEW c, NEW r, r = AnsweredRec(q, o, c)
  PROVE  /\ Whole(r) /\ r.kind = q.kind /\ r.all = q.all /\ r.done = c
         /\ r.sent = q.sent /\ r.ok = o /\ r.bad = q.bad
<1> DEFINE K == {q.kind}  A == {q.all}  S == {q.sent}
           O == {q.ok, o}  B == {q.bad}  D == {q.done, c}
           T == [kind : K, all : A, sent : S, ok : O, bad : B, done : D]
<1>1. q \in T
  BY DEF Whole
<1>2. o \in O /\ c \in D
  OBVIOUS
<1> HIDE DEF K, A, S, O, B, D
<1>3. r \in T /\ r.kind = q.kind /\ r.all = q.all /\ r.done = c
      /\ r.sent = q.sent /\ r.ok = o /\ r.bad = q.bad
  BY <1>1, <1>2 DEF AnsweredRec
<1>4. Whole(r)
  BY <1>3 DEF Whole
<1> QED BY <1>3, <1>4

\* A press one of whose rejections arrived.
LEMMA RejectedPress ==
  ASSUME NEW q, Whole(q), NEW b, NEW r, r = RejectedRec(q, b)
  PROVE  /\ Whole(r) /\ r.kind = q.kind /\ r.all = q.all /\ r.done = q.done
         /\ r.sent = q.sent /\ r.ok = q.ok /\ r.bad = b
<1> DEFINE K == {q.kind}  A == {q.all}  S == {q.sent}
           O == {q.ok}  B == {q.bad, b}  D == {q.done}
           T == [kind : K, all : A, sent : S, ok : O, bad : B, done : D]
<1>1. q \in T
  BY DEF Whole
<1>2. b \in B
  OBVIOUS
<1> HIDE DEF K, A, S, O, B, D
<1>3. r \in T /\ r.kind = q.kind /\ r.all = q.all /\ r.done = q.done
      /\ r.sent = q.sent /\ r.ok = q.ok /\ r.bad = b
  BY <1>1, <1>2 DEF RejectedRec
<1>4. Whole(r)
  BY <1>3 DEF Whole
<1> QED BY <1>3, <1>4

\* A press that is sent.
LEMMA SentPress ==
  ASSUME NEW k, NEW s, NEW r, r = SentRec(k, s)
  PROVE  /\ Whole(r) /\ r.kind = k /\ r.all = s /\ r.sent = s
         /\ r.ok = {} /\ r.bad = {} /\ r.done = {}
<1> DEFINE K == {"none", k}  S == {{}, s}  E == {{}}
           T == [kind : K, all : S, sent : S, ok : E, bad : E, done : E]
<1>1. NoPress \in T /\ NoPress.ok = {} /\ NoPress.bad = {} /\ NoPress.done = {}
  BY DEF NoPress
<1>2. k \in K /\ s \in S
  OBVIOUS
<1> HIDE DEF K, S, E
<1>3. r \in T /\ r.kind = k /\ r.all = s /\ r.sent = s
      /\ r.ok = {} /\ r.bad = {} /\ r.done = {}
  BY <1>1, <1>2 DEF SentRec
<1>4. Whole(r)
  BY <1>3 DEF Whole
<1> QED BY <1>3, <1>4

-----------------------------------------------------------------------------
\* One press changes to a record of the right shape whose new successes are gone.
LEMMA PressStep ==
  ASSUME PageInv, NEW p \in Presses, NEW r,
         press' = [press EXCEPT ![p] = r], Whole(r),
         r.kind = "none" => r = NoPress,
         gone \subseteq gone', gone' \cap db' = {}, said' \subseteq gone',
         r.ok \subseteq gone', r.done \subseteq gone'
  PROVE  PressShape' /\ ToldGone'
<1>1. /\ \A q \in Presses : press'[q] = IF q = p THEN r ELSE press[q]
      /\ Indexed'
  BY DEF PageInv, PressShape, Indexed
<1>2. Wholes'
  BY <1>1 DEF PageInv, PressShape, Wholes
<1>3. FreeIsEmpty'
  BY <1>1 DEF PageInv, PressShape, FreeIsEmpty
<1>4. ToldGone'
  BY <1>1 DEF PageInv, ToldGone
<1> QED BY <1>1, <1>2, <1>3, <1>4 DEF PressShape

\* What is sent is on the screen, and it is what was ticked.
LEMMA SelectedChosen ==
  ASSUME ChoiceInv, NEW d \in Selected
  PROVE  InTable(d) /\ d \in chosen
BY DEF Selected, InTable, Table, RowId, ChoiceInv

\* What the dialog stands for is on the screen, and it is what was asked for.
LEMMA DialogMeant ==
  ASSUME ChoiceInv, dialog # NoDevice, NEW d \in DialogFor(Rows)
  PROVE  InTable(d) /\ d = meant
BY DEF DialogFor, InTable, RowId, ChoiceInv

\* A dialog that closes, or stays with its row, is still the one asked for.
LEMMA DialogKeptInv ==
  ASSUME ChoiceInv, NEW rows, DialogKept(rows)
  PROVE  dialog' = meant' /\ (dialog' # NoDevice => dialog # NoDevice)
BY DEF DialogKept, NoDialog, ChoiceInv

-----------------------------------------------------------------------------
(***************************************************************************)
(* The steps.                                                              *)
(***************************************************************************)

\* Queries, views, scans and changes from outside touch neither ticks nor presses;
\* an answer or another view may close the dialog with its row.
ViewActions ==
  \/ Open \/ Reset \/ Focus \/ ScanComplete
  \/ \E s \in Searches : Type(s)
  \/ \E f \in Picks : Pick(f)
  \/ \E n \in Pages : GoTo(n)
  \/ \E n \in Sizes : Resize(n)
  \/ \E k \in Keys : Served(k) \/ FetchFails(k)
  \/ \E d \in Devices : Changed(d)

\* They are elsewhere.
LEMMA ViewStep ==
  ASSUME PageInv, ViewActions
  PROVE  Elsewhere
<1> USE DEF devices, screen, choice, words, Elsewhere
<1>1. ASSUME NEW d \in Devices, Changed(d) PROVE Elsewhere
  BY <1>1 DEF Changed, PageInv, ChoiceInv
<1>2. CASE Open \/ Focus \/ ScanComplete
  BY <1>2 DEF Open, Focus, ScanComplete, PageInv, ChoiceInv
<1>3. ASSUME NEW k \in Keys, Served(k) \/ FetchFails(k) PROVE Elsewhere
  BY <1>3 DEF Served, FetchFails, PageInv, ChoiceInv
<1>4. ASSUME NEW v, ShowView(v) PROVE Elsewhere
  BY <1>4 DEF ShowView, PageInv, ChoiceInv
<1> QED BY <1>1, <1>2, <1>3, <1>4 DEF ViewActions, Reset, Type, Pick, GoTo, Resize

\* Steps that choose: ticks, the dialog, and leaving.
ChoiceActions ==
  \/ Leave \/ Debounced \/ TickAll \/ Cancel
  \/ \E k \in Keys : Stored(k)
  \/ \E n \in Pages : Tick(n) \/ AskRow(n)

\* Ticks and what was chosen move together.
LEMMA ChoiceStep ==
  ASSUME PageInv, ChoiceActions
  PROVE  PageInv' /\ press' = press
<1> USE DEF devices, screen, choice, words, PageInv, ChoiceInv
<1>1. CASE Leave
  BY <1>1 DEF Leave, NoDialog, PressShape, Indexed, Wholes, FreeIsEmpty, ToldGone
<1>2. CASE Debounced
  BY <1>2, DialogKeptInv DEF Debounced, PressShape, Indexed, Wholes, FreeIsEmpty, ToldGone
<1>3. CASE TickAll
  BY <1>3 DEF TickAll, RowId, PressShape, Indexed, Wholes, FreeIsEmpty, ToldGone
<1>4. CASE Cancel
  BY <1>4 DEF Cancel, NoDialog, PressShape, Indexed, Wholes, FreeIsEmpty, ToldGone
<1>5. ASSUME NEW k \in Keys, Stored(k) PROVE PageInv' /\ press' = press
  BY <1>5, DialogKeptInv DEF Stored, PressShape, Indexed, Wholes, FreeIsEmpty, ToldGone
<1>6. ASSUME NEW n \in Pages, Tick(n) PROVE PageInv' /\ press' = press
  BY <1>6 DEF Tick, RowId, PressShape, Indexed, Wholes, FreeIsEmpty, ToldGone
<1>7. ASSUME NEW n \in Pages, AskRow(n) PROVE PageInv' /\ press' = press
  BY <1>7 DEF AskRow, RowId, Table, PressShape, Indexed, Wholes, FreeIsEmpty, ToldGone
<1> QED BY <1>1, <1>2, <1>3, <1>4, <1>5, <1>6, <1>7 DEF ChoiceActions

\* A confirmed deletion starts with nothing done.
LEMMA SendStep ==
  ASSUME PageInv, NEW p \in Presses, NEW kind \in {"row", "bulk"}, NEW S, Send(p, kind, S),
         UNCHANGED <<devices, said>>
  PROVE  PressShape' /\ ToldGone'
<1> DEFINE r == [NoPress EXCEPT !.kind = kind, !.all = S, !.sent = S]
<1>1. /\ Whole(r) /\ r.kind = kind /\ r.all = S /\ r.sent = S
      /\ r.ok = {} /\ r.bad = {} /\ r.done = {}
  <2>1. r = SentRec(kind, S)
    BY DEF SentRec
  <2> HIDE DEF r
  <2> QED BY <2>1, SentPress
<1>3. press' = [press EXCEPT ![p] = r]
  BY DEF Send
<1>4. gone' = gone /\ db' = db /\ said' = said /\ gone \cap db = {} /\ said \subseteq gone
  BY DEF devices, PageInv, ToldGone
<1> HIDE DEF r
<1> QED BY <1>1, <1>3, <1>4, PressStep

\* Both buttons keep the invariant.
LEMMA ConfirmStep ==
  ASSUME PageInv, NEW p \in Presses, ConfirmRow(p) \/ BulkDelete(p)
  PROVE  PageInv'
<1>1. CASE ConfirmRow(p)
  <2>1. dialog' = NoDevice /\ meant' = NoDevice
        /\ UNCHANGED <<devices, open, ticked, chosen, said>>
    BY <1>1 DEF ConfirmRow, NoDialog, screen, words
  <2>2. PressShape' /\ ToldGone'
    BY <1>1, <2>1, SendStep DEF ConfirmRow
  <2> QED BY <2>1, <2>2 DEF PageInv, ChoiceInv
<1>2. CASE BulkDelete(p)
  <2>1. UNCHANGED <<devices, open, ticked, chosen, dialog, meant, said>>
    BY <1>2 DEF BulkDelete, screen, choice, words
  <2>2. PressShape' /\ ToldGone'
    BY <1>2, <2>1, SendStep DEF BulkDelete
  <2> QED BY <2>1, <2>2 DEF PageInv, ChoiceInv
<1> QED BY <1>1, <1>2

\* The server deletes one device, or finds it gone.
LEMMA DeletedStep ==
  ASSUME PageInv, NEW p \in Presses, NEW d \in Devices, Deleted(p, d)
  PROVE  PageInv'
<1> DEFINE q == press[p]
           ok == IF d \in db THEN q.ok \cup {d} ELSE q.ok
           bad == IF d \in db THEN q.bad ELSE q.bad \cup {d}
           r == [q EXCEPT !.sent = @ \ {d}, !.ok = ok, !.bad = bad]
<1>1. Whole(q)
  BY DEF PageInv, PressShape, Wholes
<1>3. /\ Whole(r) /\ r.kind = q.kind /\ r.all = q.all /\ r.sent = q.sent \ {d}
      /\ r.ok = ok /\ r.bad = bad /\ r.done = q.done
  <2>1. r = ServedRec(q, q.sent \ {d}, ok, bad)
    BY DEF ServedRec
  <2> HIDE DEF q, r, ok, bad
  <2> QED BY <1>1, <2>1, ServedPress
<1>4. press' = [press EXCEPT ![p] = r]
  BY DEF Deleted, PageInv, PressShape, Indexed
<1>5. gone' = gone \cup {d} /\ db' = db \ {d} /\ UNCHANGED <<open, choice, said>>
  BY DEF Deleted, screen, words
<1>6. q.kind # "none"
  BY DEF Deleted, PageInv, PressShape, FreeIsEmpty, NoPress
<1>7. q.ok \subseteq gone /\ q.done \subseteq gone /\ gone \cap db = {} /\ said \subseteq gone
  BY DEF PageInv, ToldGone
<1> HIDE DEF r
<1>8. PressShape' /\ ToldGone'
  BY <1>3, <1>4, <1>5, <1>6, <1>7, PressStep
<1>9. ChoiceInv'
  BY <1>5 DEF PageInv, ChoiceInv, choice
<1> QED BY <1>8, <1>9 DEF PageInv

\* A request fails, or its answer is lost.
LEMMA DeleteFailsStep ==
  ASSUME PageInv, NEW p \in Presses, NEW d \in Devices, DeleteFails(p, d)
  PROVE  PageInv'
<1> DEFINE q == press[p]
           r == [q EXCEPT !.sent = @ \ {d}, !.ok = @ \ {d}, !.bad = @ \cup {d}]
<1>1. Whole(q)
  BY DEF PageInv, PressShape, Wholes
<1>2. /\ Whole(r) /\ r.kind = q.kind /\ r.ok = q.ok \ {d} /\ r.done = q.done
  <2>1. r = ServedRec(q, q.sent \ {d}, q.ok \ {d}, q.bad \cup {d})
    BY DEF ServedRec
  <2> HIDE DEF q, r
  <2> QED BY <1>1, <2>1, ServedPress
<1>3. press' = [press EXCEPT ![p] = r]
  BY DEF DeleteFails, PageInv, PressShape, Indexed
<1>4. UNCHANGED <<devices, open, choice, said>>
  BY DEF DeleteFails, screen, words
<1>5. q.kind # "none"
  BY DEF DeleteFails, PageInv, PressShape, FreeIsEmpty, NoPress
<1>6. q.ok \subseteq gone /\ q.done \subseteq gone /\ gone \cap db = {} /\ said \subseteq gone
  BY DEF PageInv, ToldGone
<1> HIDE DEF r
<1>7. PressShape' /\ ToldGone'
  BY <1>2, <1>3, <1>4, <1>5, <1>6, PressStep DEF devices
<1>8. ChoiceInv'
  BY <1>4 DEF PageInv, ChoiceInv, choice
<1> QED BY <1>7, <1>8 DEF PageInv

\* A settled press is free, any other as it was.
LEMMA SettledPress ==
  ASSUME NEW q, Whole(q), q.kind # "none"
  PROVE  LET r == Settled(q)
         IN /\ Whole(r) /\ (r.kind = "none" => r = NoPress)
            /\ r.ok \subseteq q.ok /\ r.done \subseteq q.done
<1>1. Whole(NoPress) /\ NoPress.ok = {} /\ NoPress.done = {}
  BY DEF NoPress, Whole
<1> QED BY <1>1 DEF Settled

\* The answer to a deletion arrives; after the last one the toast names all of
\* them, and all were deleted.
LEMMA DeleteAnsweredStep ==
  ASSUME PageInv, NEW p \in Presses, NEW d \in Devices, DeleteAnswered(p, d)
  PROVE  PageInv'
<1> DEFINE q == press[p]
           a == [q EXCEPT !.ok = @ \ {d}, !.done = @ \cup {d}]
           r == Settled(a)
<1>0. Whole(q)
  BY DEF PageInv, PressShape, Wholes
<1>1. q.ok \subseteq gone /\ q.done \subseteq gone /\ d \in q.ok
  BY DEF DeleteAnswered, PageInv, ToldGone
<1>2. q.kind # "none"
  BY <1>1 DEF PageInv, PressShape, FreeIsEmpty, NoPress
<1>3. Whole(a) /\ a.kind = q.kind /\ a.ok = q.ok \ {d} /\ a.done = q.done \cup {d}
  <2>1. a = AnsweredRec(q, q.ok \ {d}, q.done \cup {d})
    BY DEF AnsweredRec
  <2> HIDE DEF q, a
  <2> QED BY <1>0, <2>1, AnsweredPress
<1>4. press' = [press EXCEPT ![p] = r]
  BY DEF DeleteAnswered
<1>5. UNCHANGED <<devices, open, dialog, meant>>
  BY DEF DeleteAnswered, screen
<1>6. said' \subseteq gone /\ gone \cap db = {}
  BY <1>1 DEF DeleteAnswered, AllDone, PageInv, ToldGone
<1>7. ticked' = chosen'
  BY DEF DeleteAnswered, PageInv, ChoiceInv
<1> HIDE DEF a
<1>8. Whole(r) /\ (r.kind = "none" => r = NoPress) /\ r.ok \subseteq gone /\ r.done \subseteq gone
  BY <1>1, <1>2, <1>3, SettledPress
<1> HIDE DEF r
<1>9. PressShape' /\ ToldGone'
  BY <1>4, <1>5, <1>6, <1>8, PressStep DEF devices
<1>10. ChoiceInv'
  BY <1>5, <1>7 DEF PageInv, ChoiceInv
<1> QED BY <1>9, <1>10 DEF PageInv

\* A rejection arrives.
LEMMA DeleteRejectedStep ==
  ASSUME PageInv, NEW p \in Presses, NEW d \in Devices, DeleteRejected(p, d)
  PROVE  PageInv'
<1> DEFINE q == press[p]
           a == [q EXCEPT !.bad = @ \ {d}]
           r == Settled(a)
<1>0. Whole(q)
  BY DEF PageInv, PressShape, Wholes
<1>1. q.ok \subseteq gone /\ q.done \subseteq gone
  BY DEF PageInv, ToldGone
<1>2. q.kind # "none"
  BY DEF DeleteRejected, PageInv, PressShape, FreeIsEmpty, NoPress
<1>3. Whole(a) /\ a.kind = q.kind /\ a.ok = q.ok /\ a.done = q.done
  <2>1. a = RejectedRec(q, q.bad \ {d})
    BY DEF RejectedRec
  <2> HIDE DEF q, a
  <2> QED BY <1>0, <2>1, RejectedPress
<1>4. press' = [press EXCEPT ![p] = r]
  BY DEF DeleteRejected
<1>5. UNCHANGED <<devices, open, choice, said>>
  BY DEF DeleteRejected, screen, words
<1>6. said \subseteq gone /\ gone \cap db = {}
  BY DEF PageInv, ToldGone
<1> HIDE DEF a
<1>7. Whole(r) /\ (r.kind = "none" => r = NoPress) /\ r.ok \subseteq gone /\ r.done \subseteq gone
  BY <1>1, <1>2, <1>3, SettledPress
<1> HIDE DEF r
<1>8. PressShape' /\ ToldGone'
  BY <1>4, <1>5, <1>6, <1>7, PressStep DEF devices
<1>9. ChoiceInv'
  BY <1>5 DEF PageInv, ChoiceInv, choice
<1> QED BY <1>8, <1>9 DEF PageInv

-----------------------------------------------------------------------------
(***************************************************************************)
(* The rows of an answer.                                                  *)
(***************************************************************************)
\* Some number of a nonempty set is the least.
LEMMA Smallest ==
  ASSUME NEW T \in SUBSET Nat, T # {}
  PROVE  \E m \in T : \A b \in T : m <= b
<1> DEFINE R == {p \in Nat \X Nat : p[1] < p[2]}
<1>1. R = OpToRel(<, Nat)
  BY DEF OpToRel
<1>2. PICK m \in T : \A b \in T : <<b, m>> \notin R
  <2>1. IsWellFoundedOn(R, Nat)
    BY <1>1, NatLessThanWellFounded
  <2> HIDE DEF R
  <2> QED BY <2>1, WFMin
<1>3. ASSUME NEW b \in T, b < m PROVE FALSE
  <2> DEFINE q == <<b, m>>
  <2>1. q \in Nat \X Nat /\ q[1] < q[2]
    BY <1>3
  <2> HIDE DEF q
  <2>2. q \in R
    BY <2>1
  <2> QED BY <1>2, <2>2 DEF q
<1>4. \A b \in T : m <= b
  BY <1>3
<1> QED BY <1>4

\* The rows of one health are rows of the page.
LEMMA OfHealthType ==
  ASSUME NEW k, NEW T, NEW t \in Seq(T)
  PROVE  OfHealth(k, t) \in Seq(T)
<1> DEFINE N == Len(t)
           next(r, n) == IF Healthy(k, t[n]) THEN Append(r, t[n]) ELSE r
           Up(m, f) == f = [n \in 0..m |-> IF n = 0 THEN <<>> ELSE next(f[n - 1], n)]
           g == CHOOSE f : Up(N, f)
<1>1. OfHealth(k, t) = g[N] /\ N \in Nat
  BY DEF OfHealth
<1>2. \A r \in Seq(T), n \in 1..N : next(r, n) \in Seq(T)
  <2>1. \A n \in 1..N : t[n] \in T
    OBVIOUS
  <2>2. \A r \in Seq(T), e \in T : Append(r, e) \in Seq(T)
    OBVIOUS
  <2> QED BY <2>1, <2>2
<1> HIDE DEF N, next
<1>3. \A m \in 0..N : \E f : Up(m, f)
  <2> DEFINE W == {m \in 0..N : ~ \E f : Up(m, f)}
  <2> SUFFICES ASSUME W # {} PROVE FALSE
    OBVIOUS
  <2>1. PICK m \in W : \A b \in W : m <= b
    <3>1. W \in SUBSET Nat
      BY <1>1
    <3> HIDE DEF W
    <3> QED BY <3>1, Smallest
  <2>2. m # 0
    <3>1. Up(0, [n \in 0..0 |-> <<>>])
      OBVIOUS
    <3> QED BY <2>1, <3>1
  <2>3. m - 1 \in 0..N /\ m \in Nat
    BY <1>1, <2>1, <2>2
  <2>4. PICK f : Up(m - 1, f)
    <3>1. m - 1 \notin W
      <4> HIDE DEF W
      <4> QED BY <2>1, <2>3
    <3> QED BY <2>3, <3>1
  <2> DEFINE h == [n \in 0..m |-> IF n < m THEN f[n] ELSE next(f[m - 1], m)]
  <2>5. Up(m, h)
    <3> SUFFICES ASSUME NEW n \in 0..m
                 PROVE  h[n] = IF n = 0 THEN <<>> ELSE next(h[n - 1], n)
      OBVIOUS
    <3>1. CASE n < m
      <4>1. n \in 0..(m - 1) /\ h[n] = f[n] /\ (n # 0 => n - 1 \in 0..m /\ h[n - 1] = f[n - 1])
        BY <2>3, <3>1
      <4>2. f[n] = IF n = 0 THEN <<>> ELSE next(f[n - 1], n)
        BY <2>4, <4>1
      <4> QED BY <4>1, <4>2
    <3>2. CASE n = m
      <4>1. m - 1 \in 0..m /\ h[m - 1] = f[m - 1] /\ h[m] = next(f[m - 1], m)
        BY <2>2, <2>3
      <4> HIDE DEF h
      <4> QED BY <2>2, <3>2, <4>1
    <3> QED BY <2>3, <3>1, <3>2
  <2> QED BY <2>1, <2>5
<1>4. Up(N, g)
  <2>1. \E f : Up(N, f)
    BY <1>1, <1>3
  <2> HIDE DEF Up
  <2> QED BY <2>1
<1> HIDE DEF g
<1> DEFINE W == {m \in 0..N : g[m] \notin Seq(T)}
<1>5. W = {}
  <2> SUFFICES ASSUME W # {} PROVE FALSE
    OBVIOUS
  <2>1. PICK m \in W : \A b \in W : m <= b
    <3>1. W \in SUBSET Nat
      BY <1>1
    <3> HIDE DEF W
    <3> QED BY <3>1, Smallest
  <2>2. g[0] = <<>>
    BY <1>1, <1>4
  <2>3. m # 0
    <3>1. <<>> \in Seq(T)
      OBVIOUS
    <3> QED BY <2>1, <2>2, <3>1
  <2>4. m - 1 \in 0..N /\ m \in 1..N /\ m - 1 < m
    BY <1>1, <2>1, <2>3
  <2>5. g[m - 1] \in Seq(T)
    BY <2>1, <2>4
  <2>6. g[m] = next(g[m - 1], m)
    BY <1>4, <2>3, <2>4
  <2>7. g[m] \in Seq(T)
    BY <1>2, <2>4, <2>5, <2>6
  <2> QED BY <2>1, <2>7
<1>6. N \in 0..N
  BY <1>1
<1> QED BY <1>1, <1>5, <1>6

\* The rows of a page are devices that match its query.
LEMMA RowsMatch ==
  ASSUME NEW k \in Keys, db \subseteq Devices, NEW s \in Ordered(Matching(k))
  PROVE  Len(s) \in Nat /\ OfHealth(k, PageOf(s, k)) \in Seq(db)
<1> DEFINE M == Matching(k)
           first == (k.page - 1) * k.size + 1
           last == k.page * k.size
<1>1. M \subseteq db /\ IsFiniteSet(M) /\ Cardinality(M) \in Nat
  BY DeviceAssumption, FS_Subset, FS_CardinalityType DEF Matching
<1>2. s \in [1..Cardinality(M) -> M]
  BY DEF Ordered
<1> HIDE DEF M
<1>3. Len(s) = Cardinality(M) /\ \A i \in 1..Len(s) : s[i] \in db
  BY <1>1, <1>2
<1>4. first \in Nat \ {0} /\ last \in Nat
  <2>1. k.page - 1 \in Nat /\ k.page \in Nat /\ k.size \in Nat
    <3>1. k.page \in 1..(Cardinality(Devices) + 1) /\ k.size \in Nat
      BY ViewAssumption DEF Keys, Pages
    <3>2. Cardinality(Devices) \in Nat
      BY DeviceAssumption, FS_CardinalityType
    <3> QED BY <3>1, <3>2
  <2>2. \A a, b \in Nat : a * b \in Nat
    OBVIOUS
  <2>3. (k.page - 1) * k.size \in Nat /\ k.page * k.size \in Nat
    BY <2>1, <2>2
  <2> QED BY <2>3
<1> HIDE DEF first, last
<1>5. Least(last, Len(s)) \in Nat /\ Least(last, Len(s)) <= Len(s)
  BY <1>1, <1>3, <1>4 DEF Least
<1>6. \A i \in first..Least(last, Len(s)) : s[i] \in db
  BY <1>1, <1>3, <1>4, <1>5
<1>7. SubSeq(s, first, Least(last, Len(s))) \in Seq(db)
  BY <1>4, <1>5, <1>6, SubSeqProperties
<1>8. PageOf(s, k) \in Seq(db)
  BY <1>7 DEF PageOf, first, last
<1> QED BY <1>1, <1>3, <1>8, OfHealthType

-----------------------------------------------------------------------------
(***************************************************************************)
(* What stays on the screen.                                               *)
(***************************************************************************)
\* A fresh answer names no device whose deletion was answered before.
FreshAnswer(k) ==
  fetch[k].on = "answered" /\ ~ fetch[k].late =>
    \A i \in DOMAIN fetch[k].rows : fetch[k].rows[i] \notin removed
\* An entry that shows such a device is late, or marked.
MarkedEntry(k) ==
  /\ ~ cache[k].loaded => cache[k].rows = <<>>
  /\ (\E i \in DOMAIN cache[k].rows : cache[k].rows[i] \in removed) => cache[k].late \/ cache[k].inv
\* A marked entry that is looked at is fetched, unless that failed.
Watched ==
  /\ ~ open => view = DefaultView
  /\ open /\ cache[Cur].inv => fetch[Cur].on # "no" \/ cache[Cur].failed
LeaveInv ==
  /\ TypeOK
  /\ removed \subseteq gone
  /\ \A k \in Keys : FreshAnswer(k) /\ MarkedEntry(k)
  /\ Watched

\* The key on the screen, and its rows.
LEMMA ScreenType ==
  ASSUME TypeOK
  PROVE  /\ Cur \in Keys /\ Rows \in Seq(Devices)
         /\ \A i \in DOMAIN Rows : Rows[i] \in Devices
         /\ Selected \subseteq Devices /\ DialogFor(Rows) \subseteq Devices
<1>1. Cur \in Keys
  BY DEF TypeOK, View, Cur, KeyOf, Keys
<1>2. Rows \in Seq(Devices)
  BY <1>1 DEF TypeOK, Entry, Rows
<1>3. \A i \in DOMAIN Rows : Rows[i] \in Devices
  BY <1>2
<1> QED BY <1>1, <1>2, <1>3 DEF Selected, DialogFor

\* The records that start empty have their types.
LEMMA EmptyTypes ==
  /\ NoEntry \in Entry /\ NoFetch \in Fetch /\ SentFetch \in Fetch /\ NoPress \in Press
  /\ NoFetch.on = "no" /\ SentFetch.on = "sent" /\ NoEntry.rows = <<>> /\ ~ NoEntry.inv
  /\ DefaultView \in View /\ DefaultView.page \in Pages
<1>1. 1 \in Pages
  BY DeviceAssumption, FS_CardinalityType DEF Pages
<1>2. <<>> \in Seq(Devices)
  OBVIOUS
<1>3. NoEntry \in Entry /\ NoEntry.rows = <<>> /\ ~ NoEntry.inv
  BY <1>2 DEF NoEntry, Entry
<1>4. NoFetch \in Fetch /\ NoFetch.on = "no"
  BY <1>2 DEF NoFetch, Fetch
<1>5. SentFetch \in Fetch /\ SentFetch.on = "sent"
  BY <1>2 DEF SentFetch, NoFetch, Fetch
<1>6. NoPress \in Press
  BY DEF NoPress, Press
<1>7. DefaultView \in View /\ DefaultView.page \in Pages
  <2>1. "" \in Searches /\ "all" \in Picks /\ Size \in Sizes /\ 1 \in Nat \ {0}
    <3>1. "" \in Searches /\ "all" \in Picks /\ Size \in Sizes
      BY ViewAssumption
    <3>2. 1 \in Nat \ {0}
      OBVIOUS
    <3> QED BY <3>1, <3>2
  <2> QED BY <1>1, <2>1 DEF DefaultView, View
<1> QED BY <1>3, <1>4, <1>5, <1>6, <1>7

\* A key that gets an observer is fetched when its entry is marked.
LEMMA MountedEffect ==
  ASSUME TypeOK, NEW k \in Keys, Mounted(k)
  PROVE  /\ fetch' \in [Keys -> Fetch]
         /\ \A q \in Keys : fetch'[q] = fetch[q] \/ fetch'[q] = SentFetch
         /\ cache[k].inv => fetch'[k].on # "no"
<1>1. fetch \in [Keys -> Fetch]
  BY DEF TypeOK
<1>2. CASE fetch' = [fetch EXCEPT ![k] = IF @.on = "no" THEN SentFetch ELSE @]
  BY <1>1, <1>2, EmptyTypes
<1>3. CASE cache[k].loaded /\ ~ cache[k].inv /\ UNCHANGED fetch
  BY <1>1, <1>3
<1> QED BY <1>2, <1>3 DEF Mounted

\* Queries that are asked for again, and a view that is mounted, leave no marked
\* entry unfetched.
LEMMA MountStep ==
  ASSUME LeaveInv, NEW v \in View, v.page \in Pages, view' = v, open' = TRUE,
         Mounted(KeyOf(v)), UNCHANGED <<cache, removed, gone>>
  PROVE  /\ fetch' \in [Keys -> Fetch]
         /\ \A k \in Keys : (FreshAnswer(k) /\ MarkedEntry(k))'
         /\ Watched'
<1>1. KeyOf(v) \in Keys /\ Cur' = KeyOf(v)
  BY DEF KeyOf, View, Keys, Cur
<1>2. /\ fetch' \in [Keys -> Fetch]
      /\ \A q \in Keys : fetch'[q] = fetch[q] \/ fetch'[q] = SentFetch
      /\ cache[KeyOf(v)].inv => fetch'[KeyOf(v)].on # "no"
  BY <1>1, MountedEffect DEF LeaveInv
<1>3. \A k \in Keys : FreshAnswer(k)' /\ MarkedEntry(k)'
  BY <1>2, EmptyTypes DEF LeaveInv, FreshAnswer, MarkedEntry
<1>4. Watched'
  BY <1>1, <1>2 DEF Watched
<1> QED BY <1>2, <1>3, <1>4

\* invalidateQueries marks every entry, fetches the one that is looked at, and
\* knows the answers under way as late; so devices may be removed with it.
LEMMA InvalidatedStep ==
  ASSUME LeaveInv, Invalidated, UNCHANGED screen
  PROVE  /\ cache' \in [Keys -> Entry] /\ fetch' \in [Keys -> Fetch]
         /\ \A k \in Keys : (FreshAnswer(k) /\ MarkedEntry(k))'
         /\ Watched'
<1>1. cache \in [Keys -> Entry] /\ fetch \in [Keys -> Fetch] /\ Cur \in Keys
  BY ScreenType DEF LeaveInv, TypeOK
<1>2. \A k \in Keys : cache'[k] = IF cache[k].loaded THEN [cache[k] EXCEPT !.inv = TRUE] ELSE cache[k]
  BY DEF Invalidated
<1>3. \A k \in Keys :
        \/ fetch'[k] = SentFetch
        \/ /\ fetch'[k] = [fetch[k] EXCEPT !.late = TRUE] /\ fetch[k].on # "no"
           /\ ~ (Active(k) /\ cache[k].loaded)
        \/ fetch'[k] = fetch[k] /\ fetch[k].on = "no" /\ ~ Active(k)
  <2> SUFFICES ASSUME NEW k \in Keys
               PROVE  \/ fetch'[k] = SentFetch
                      \/ /\ fetch'[k] = [fetch[k] EXCEPT !.late = TRUE] /\ fetch[k].on # "no"
                         /\ ~ (Active(k) /\ cache[k].loaded)
                      \/ fetch'[k] = fetch[k] /\ fetch[k].on = "no" /\ ~ Active(k)
    OBVIOUS
  <2> DEFINE late == [fetch[k] EXCEPT !.late = TRUE]
  <2>1. fetch'[k] = IF Active(k) /\ (cache[k].loaded \/ fetch[k].on = "no") THEN SentFetch
                    ELSE IF fetch[k].on # "no" THEN late ELSE fetch[k]
    BY DEF Invalidated
  <2> HIDE DEF late
  <2> QED BY <2>1 DEF late
<1>4. cache' \in [Keys -> Entry]
  <2>1. \A k \in Keys : cache'[k] \in Entry
    BY <1>1, <1>2 DEF Entry
  <2> QED BY <2>1 DEF Invalidated
<1>5. fetch' \in [Keys -> Fetch]
  <2>1. \A k \in Keys : fetch'[k] \in Fetch
    BY <1>1, <1>3, EmptyTypes DEF Fetch
  <2> QED BY <2>1 DEF Invalidated
<1>6. ASSUME NEW k \in Keys PROVE FreshAnswer(k)' /\ MarkedEntry(k)'
  <2>1. fetch'[k].on # "answered" \/ fetch'[k].late
    BY <1>1, <1>3, EmptyTypes DEF Fetch
  <2>2. cache'[k].loaded = cache[k].loaded /\ cache'[k].rows = cache[k].rows
        /\ (cache[k].loaded => cache'[k].inv)
    BY <1>1, <1>2 DEF Entry
  <2>3. ~ cache[k].loaded => cache[k].rows = <<>>
    BY DEF LeaveInv, MarkedEntry
  <2>4. MarkedEntry(k)'
    BY <2>2, <2>3 DEF MarkedEntry
  <2> QED BY <2>1, <2>4 DEF FreshAnswer
<1>7. Watched'
  <2>1. open' = open /\ view' = view /\ Cur' = Cur
    BY DEF screen, Cur
  <2>2. open => fetch'[Cur].on # "no"
    BY <1>1, <1>3, EmptyTypes DEF Active, Fetch
  <2> QED BY <2>1, <2>2 DEF LeaveInv, Watched
<1> QED BY <1>4, <1>5, <1>6, <1>7

\* Steps that leave queries and the screen alone.
LEMMA ScreenKept ==
  ASSUME LeaveInv, UNCHANGED <<screen, cache, fetch, removed>>
  PROVE  (\A k \in Keys : FreshAnswer(k) /\ MarkedEntry(k))' /\ Watched'
BY DEF LeaveInv, screen, FreshAnswer, MarkedEntry, Watched, Cur

\* An answer is made, stored, or given up.
LEMMA QueryStep ==
  ASSUME PageInv, LeaveInv, NEW k \in Keys, Served(k) \/ Stored(k) \/ FetchFails(k)
  PROVE  LeaveInv'
<1>1. cache \in [Keys -> Entry] /\ fetch \in [Keys -> Fetch] /\ db \subseteq Devices
      /\ removed \cap db = {}
  BY DEF PageInv, ToldGone, LeaveInv, TypeOK
<1>2. CASE Served(k)
  <2>1. PICK s \in Ordered(Matching(k)) :
          fetch' = [fetch EXCEPT ![k].on = "answered", ![k].total = Len(s),
                                 ![k].rows = OfHealth(k, PageOf(s, k))]
    BY <1>2 DEF Served
  <2> DEFINE rows == OfHealth(k, PageOf(s, k))
             r == [fetch[k] EXCEPT !.on = "answered", !.total = Len(s), !.rows = rows]
  <2>2. Len(s) \in Nat /\ rows \in Seq(db)
    BY <1>1, RowsMatch
  <2> HIDE DEF rows
  <2>3. rows \in Seq(Devices) /\ \A i \in DOMAIN rows : rows[i] \notin removed
    <3>1. rows \in Seq(Devices)
      BY <1>1, <2>2, SeqMonotonic
    <3> QED BY <1>1, <2>2, <3>1
  <2>4. r \in Fetch /\ r.on = "answered" /\ r.rows = rows
    BY <1>1, <2>2, <2>3 DEF Fetch
  <2>5. fetch' = [fetch EXCEPT ![k] = r]
    BY <1>1, <2>1 DEF rows
  <2> HIDE DEF r
  <2>6. fetch' \in [Keys -> Fetch]
    BY <1>1, <2>4, <2>5
  <2>7. TypeOK'
    BY <1>2, <2>6 DEF Served, devices, screen, choice, words, LeaveInv, TypeOK
  <2>8. \A q \in Keys : FreshAnswer(q)' /\ MarkedEntry(q)'
    BY <1>1, <1>2, <2>3, <2>4, <2>5 DEF Served, words, LeaveInv, FreshAnswer, MarkedEntry
  <2>9. Watched'
    BY <1>1, <1>2, <2>4, <2>5, ScreenType DEF Served, screen, LeaveInv, Watched, Cur
  <2> QED BY <1>2, <2>7, <2>8, <2>9 DEF Served, devices, words, LeaveInv
<1>3. CASE Stored(k)
  <2> DEFINE e == [loaded |-> TRUE, rows |-> fetch[k].rows, total |-> fetch[k].total,
                   inv |-> FALSE, failed |-> FALSE, late |-> fetch[k].late]
  <2>1. cache' = [cache EXCEPT ![k] = e] /\ fetch' = [fetch EXCEPT ![k] = NoFetch]
    BY <1>3 DEF Stored
  <2>2. e \in Entry /\ e.loaded /\ ~ e.inv /\ e.rows = fetch[k].rows /\ e.late = fetch[k].late
    BY <1>1 DEF Entry, Fetch
  <2> HIDE DEF e
  <2>3. cache' \in [Keys -> Entry] /\ fetch' \in [Keys -> Fetch]
    BY <1>1, <2>1, <2>2, EmptyTypes
  <2>4. {dialog', meant'} \subseteq Devices \cup {NoDevice}
    BY <1>3 DEF Stored, DialogKept, NoDialog, LeaveInv, TypeOK
  <2>5. TypeOK'
    BY <1>3, <2>3, <2>4 DEF Stored, devices, screen, words, LeaveInv, TypeOK
  <2>6. ASSUME NEW q \in Keys PROVE FreshAnswer(q)' /\ MarkedEntry(q)'
    <3>1. CASE q # k
      BY <1>1, <1>3, <2>1, <3>1 DEF Stored, words, LeaveInv, FreshAnswer, MarkedEntry
    <3>2. CASE q = k
      <4>1. fetch'[q].on = "no" /\ cache'[q] = e /\ removed' = removed
        BY <1>1, <1>3, <2>1, <3>2, EmptyTypes DEF Stored, words
      <4>2. fetch[k].late \/ \A i \in DOMAIN fetch[k].rows : fetch[k].rows[i] \notin removed
        BY <1>3 DEF Stored, LeaveInv, FreshAnswer
      <4> QED BY <2>2, <4>1, <4>2 DEF FreshAnswer, MarkedEntry
    <3> QED BY <3>1, <3>2
  <2>7. Watched'
    BY <1>1, <1>3, <2>1, <2>2, ScreenType DEF Stored, screen, LeaveInv, Watched, Cur
  <2> QED BY <1>3, <2>5, <2>6, <2>7 DEF Stored, devices, words, LeaveInv
<1>4. CASE FetchFails(k)
  <2> DEFINE e == [cache[k] EXCEPT !.failed = TRUE]
  <2>1. cache' = [cache EXCEPT ![k] = e] /\ fetch' = [fetch EXCEPT ![k] = NoFetch]
    BY <1>1, <1>4 DEF FetchFails
  <2>2. e \in Entry /\ e.failed /\ e.loaded = cache[k].loaded /\ e.rows = cache[k].rows
        /\ e.late = cache[k].late /\ e.inv = cache[k].inv
    BY <1>1 DEF Entry
  <2> HIDE DEF e
  <2>3. cache' \in [Keys -> Entry] /\ fetch' \in [Keys -> Fetch]
    BY <1>1, <2>1, <2>2, EmptyTypes
  <2>4. events' \in 0..MaxEvents
    BY <1>4, BoundAssumption DEF FetchFails, Event, LeaveInv, TypeOK
  <2>5. TypeOK'
    BY <1>4, <2>3, <2>4 DEF FetchFails, devices, screen, choice, words, LeaveInv, TypeOK
  <2>6. \A q \in Keys : FreshAnswer(q)' /\ MarkedEntry(q)'
    BY <1>1, <1>4, <2>1, <2>2, EmptyTypes DEF FetchFails, words, LeaveInv, FreshAnswer, MarkedEntry
  <2>7. Watched'
    BY <1>1, <1>4, <2>1, <2>2, ScreenType DEF FetchFails, screen, LeaveInv, Watched, Cur
  <2> QED BY <1>4, <2>5, <2>6, <2>7 DEF FetchFails, devices, words, LeaveInv
<1> QED BY <1>2, <1>3, <1>4

\* What is looked at changes, or is asked for again.
LEMMA LookStep ==
  ASSUME LeaveInv,
         \/ Open \/ Debounced \/ Focus
         \/ \E v \in View : v.page \in Pages /\ open /\ ShowView(v)
  PROVE  LeaveInv'
<1>1. PICK v \in View : /\ v.page \in Pages /\ view' = v /\ open' = TRUE /\ Mounted(KeyOf(v))
                        /\ UNCHANGED <<devices, cache, press, words>>
  <2>1. CASE Open
    BY <2>1, EmptyTypes DEF Open, LeaveInv, Watched
  <2>2. CASE Debounced
    <3> DEFINE v == [view EXCEPT !.search = view.typed]
    <3>1. v \in View /\ v.page \in Pages
      BY DEF LeaveInv, TypeOK, View
    <3>2. view' = v /\ Mounted(KeyOf(v)) /\ open' = TRUE /\ UNCHANGED <<devices, cache, press, words>>
      BY <2>2 DEF Debounced, Mounted, LeaveInv, TypeOK
    <3> QED BY <3>1, <3>2
  <2>3. CASE Focus
    BY <2>3 DEF Focus, Cur, screen, LeaveInv, TypeOK
  <2>4. CASE \E v \in View : v.page \in Pages /\ open /\ ShowView(v)
    BY <2>4 DEF ShowView, LeaveInv, TypeOK
  <2> QED BY <2>1, <2>2, <2>3, <2>4
<1>2. UNCHANGED <<db, down, gone, cache, press, said, removed>>
  BY <1>1 DEF devices, words
<1>3. /\ fetch' \in [Keys -> Fetch]
      /\ \A k \in Keys : (FreshAnswer(k) /\ MarkedEntry(k))'
      /\ Watched'
  BY <1>1, <1>2, MountStep
<1>4. /\ UNCHANGED <<ticked, chosen>>
      /\ {dialog', meant'} \subseteq Devices \cup {NoDevice}
  BY DEF Open, Debounced, Focus, ShowView, DialogKept, NoDialog, choice, LeaveInv, TypeOK
<1>5. events' \in 0..MaxEvents
  BY BoundAssumption DEF Open, Debounced, Focus, ShowView, Event, LeaveInv, TypeOK
<1>6. TypeOK'
  BY <1>1, <1>2, <1>3, <1>4, <1>5 DEF LeaveInv, TypeOK
<1> QED BY <1>2, <1>3, <1>6 DEF LeaveInv

\* A filter, a page or a page size is chosen.
LEMMA ChosenViews ==
  ASSUME LeaveInv,
         \/ Reset
         \/ \E s \in Searches : Type(s)
         \/ \E f \in Picks : Pick(f)
         \/ \E n \in Pages : GoTo(n)
         \/ \E n \in Sizes : Resize(n)
  PROVE  \E v \in View : v.page \in Pages /\ open /\ ShowView(v)
<1>1. view \in View /\ 1 \in Pages /\ 1 \in Nat \ {0} /\ Pages \subseteq Nat \ {0}
  <2>1. Cardinality(Devices) \in Nat
    BY DeviceAssumption, FS_CardinalityType
  <2> QED BY <2>1 DEF LeaveInv, TypeOK, Pages
<1>2. "" \in Searches /\ "all" \in Picks
  BY ViewAssumption
<1>3. CASE Reset
  <2> DEFINE v == [view EXCEPT !.typed = "", !.pick = "all", !.page = 1]
  <2>1. v \in View /\ v.page \in Pages
    BY <1>1, <1>2 DEF View
  <2> QED BY <1>3, <2>1 DEF Reset, Free
<1>4. ASSUME NEW s \in Searches, Type(s)
      PROVE  \E v \in View : v.page \in Pages /\ open /\ ShowView(v)
  <2> DEFINE v == [view EXCEPT !.typed = s, !.page = 1]
  <2>1. v \in View /\ v.page \in Pages
    BY <1>1 DEF View
  <2> QED BY <1>4, <2>1 DEF Type, Free
<1>5. ASSUME NEW f \in Picks, Pick(f)
      PROVE  \E v \in View : v.page \in Pages /\ open /\ ShowView(v)
  <2> DEFINE v == [view EXCEPT !.pick = f, !.page = 1]
  <2>1. v \in View /\ v.page \in Pages
    BY <1>1 DEF View
  <2> QED BY <1>5, <2>1 DEF Pick, Free
<1>6. ASSUME NEW n \in Pages, GoTo(n)
      PROVE  \E v \in View : v.page \in Pages /\ open /\ ShowView(v)
  <2> DEFINE v == [view EXCEPT !.page = n]
  <2>1. v \in View /\ v.page \in Pages
    BY <1>1 DEF View
  <2> QED BY <1>6, <2>1 DEF GoTo, Free
<1>7. ASSUME NEW n \in Sizes, Resize(n)
      PROVE  \E v \in View : v.page \in Pages /\ open /\ ShowView(v)
  <2> DEFINE v == [view EXCEPT !.size = n, !.page = 1]
  <2>1. v \in View /\ v.page \in Pages
    BY <1>1 DEF View
  <2> QED BY <1>7, <2>1 DEF Resize, Free
<1> QED BY <1>3, <1>4, <1>5, <1>6, <1>7

\* Rows are ticked, a dialog opens or closes, or the page is left.
LEMMA ChoiceTypes ==
  ASSUME LeaveInv,
         Leave \/ TickAll \/ Cancel \/ \E n \in Pages : Tick(n) \/ AskRow(n)
  PROVE  LeaveInv'
<1>1. /\ UNCHANGED <<devices, cache, fetch, press, words, events>>
      /\ UNCHANGED screen \/ (open' = FALSE /\ view' = DefaultView)
  BY DEF Leave, TickAll, Cancel, Tick, AskRow, screen
<1>2. /\ ticked' \subseteq Devices /\ chosen' \subseteq Devices
      /\ {dialog', meant'} \subseteq Devices \cup {NoDevice}
  <2>1. \A i \in DOMAIN Rows : Rows[i] \in Devices
    BY ScreenType DEF LeaveInv
  <2>2. CASE Leave \/ Cancel
    BY <2>2 DEF Leave, Cancel, NoDialog, LeaveInv, TypeOK
  <2>3. CASE TickAll
    BY <2>1, <2>3 DEF TickAll, RowId, LeaveInv, TypeOK
  <2>4. ASSUME NEW n, Tick(n)
        PROVE  /\ ticked' \subseteq Devices /\ chosen' \subseteq Devices
               /\ {dialog', meant'} \subseteq Devices \cup {NoDevice}
    BY <2>1, <2>4 DEF Tick, RowId, LeaveInv, TypeOK
  <2>5. ASSUME NEW n, AskRow(n)
        PROVE  /\ ticked' \subseteq Devices /\ chosen' \subseteq Devices
               /\ {dialog', meant'} \subseteq Devices \cup {NoDevice}
    BY <2>1, <2>5 DEF AskRow, RowId, LeaveInv, TypeOK
  <2> QED BY <2>2, <2>3, <2>4, <2>5
<1>3. (\A k \in Keys : FreshAnswer(k) /\ MarkedEntry(k))'
  BY <1>1 DEF words, LeaveInv, FreshAnswer, MarkedEntry
<1>4. Watched'
  BY <1>1 DEF screen, LeaveInv, Watched, Cur
<1>5. view' \in View /\ view'.page \in Pages /\ open' \in BOOLEAN
  BY <1>1, EmptyTypes DEF screen, LeaveInv, TypeOK
<1>6. TypeOK'
  BY <1>1, <1>2, <1>5 DEF devices, words, LeaveInv, TypeOK
<1> QED BY <1>1, <1>3, <1>4, <1>6 DEF devices, words, LeaveInv

\* A deletion is sent, served, or broken off; devices change elsewhere.
LEMMA DeviceTypes ==
  ASSUME LeaveInv,
         \/ \E p \in Presses : \/ ConfirmRow(p) \/ BulkDelete(p)
                               \/ \E d \in Devices : \/ Deleted(p, d) \/ DeleteFails(p, d)
                                                     \/ DeleteRejected(p, d)
         \/ \E d \in Devices : Changed(d)
  PROVE  LeaveInv'
<1>1. UNCHANGED <<screen, cache, fetch, ticked, chosen, said, removed>>
  BY DEF ConfirmRow, BulkDelete, Deleted, DeleteFails, DeleteRejected, Changed, choice, words
<1>2. (\A k \in Keys : FreshAnswer(k) /\ MarkedEntry(k))' /\ Watched'
  BY <1>1, ScreenKept
<1>3. {dialog', meant'} \subseteq Devices \cup {NoDevice}
  <2>1. {dialog, meant} \subseteq Devices \cup {NoDevice}
    BY DEF LeaveInv, TypeOK
  <2>2. NoDialog \/ UNCHANGED <<dialog, meant>>
    <3>1. ASSUME NEW p \in Presses, ConfirmRow(p) PROVE NoDialog
      BY <3>1 DEF ConfirmRow
    <3>2. ASSUME NEW p \in Presses, BulkDelete(p) PROVE UNCHANGED choice
      BY <3>2 DEF BulkDelete
    <3>3. ASSUME NEW p \in Presses, NEW d \in Devices, Deleted(p, d) PROVE UNCHANGED choice
      BY <3>3 DEF Deleted
    <3>4. ASSUME NEW p \in Presses, NEW d \in Devices, DeleteFails(p, d) \/ DeleteRejected(p, d)
          PROVE  UNCHANGED choice
      BY <3>4 DEF DeleteFails, DeleteRejected
    <3>5. ASSUME NEW d \in Devices, Changed(d) PROVE UNCHANGED choice
      BY <3>5 DEF Changed
    <3>6. NoDialog \/ UNCHANGED choice
      BY <3>1, <3>2, <3>3, <3>4, <3>5
    <3> QED BY <3>6 DEF choice
  <2> QED BY <2>1, <2>2 DEF NoDialog
<1>4. /\ db' \subseteq Devices /\ down' \subseteq db' /\ gone' \subseteq Devices
      /\ gone \subseteq gone'
  <2>1. db \subseteq Devices /\ down \subseteq db /\ gone \subseteq Devices
    BY DEF LeaveInv, TypeOK
  <2>2. ASSUME UNCHANGED <<db, down, gone>>
        PROVE  /\ db' \subseteq Devices /\ down' \subseteq db' /\ gone' \subseteq Devices
               /\ gone \subseteq gone'
    BY <2>1, <2>2
  <2>3. CASE \E p \in Presses : ConfirmRow(p) \/ BulkDelete(p) \/ \E d \in Devices :
               DeleteFails(p, d) \/ DeleteRejected(p, d)
    BY <2>2, <2>3 DEF ConfirmRow, BulkDelete, DeleteFails, DeleteRejected, devices
  <2>4. CASE \E p \in Presses, d \in Devices : Deleted(p, d)
    BY <2>1, <2>4 DEF Deleted
  <2>5. CASE \E d \in Devices : Changed(d)
    BY <2>1, <2>5 DEF Changed
  <2> QED BY <2>3, <2>4, <2>5
<1>5. press' \in [Presses -> Press]
  <2>1. press \in [Presses -> Press]
    BY DEF LeaveInv, TypeOK
  <2>2. ASSUME NEW p \in Presses, NEW r \in Press, press' = [press EXCEPT ![p] = r]
        PROVE  press' \in [Presses -> Press]
    BY <2>1, <2>2
  <2>3. ASSUME NEW p \in Presses, NEW kind \in {"row", "bulk"}, NEW S \in SUBSET Devices,
               Send(p, kind, S)
        PROVE  press' \in [Presses -> Press]
    <3>1. [NoPress EXCEPT !.kind = kind, !.all = S, !.sent = S] \in Press
      BY EmptyTypes DEF Press
    <3> QED BY <2>2, <2>3, <3>1 DEF Send
  <2>4. ASSUME NEW p \in Presses, ConfirmRow(p) \/ BulkDelete(p)
        PROVE  press' \in [Presses -> Press]
    <3>1. Selected \in SUBSET Devices /\ \A d \in DialogFor(Rows) : {d} \in SUBSET Devices
      BY ScreenType DEF LeaveInv
    <3> QED BY <2>3, <2>4, <3>1 DEF ConfirmRow, BulkDelete
  <2>5. ASSUME NEW p \in Presses, NEW d \in Devices, Deleted(p, d)
        PROVE  press' \in [Presses -> Press]
    <3> DEFINE q == press[p]
               r == [q EXCEPT !.sent = @ \ {d}, !.ok = IF d \in db THEN @ \cup {d} ELSE @,
                              !.bad = IF d \in db THEN @ ELSE @ \cup {d}]
    <3>1. r \in Press
      BY <2>1 DEF Press
    <3>2. press' = [press EXCEPT ![p] = r]
      BY <2>1, <2>5 DEF Deleted
    <3> QED BY <2>2, <3>1, <3>2
  <2>6. ASSUME NEW p \in Presses, NEW d \in Devices, DeleteFails(p, d)
        PROVE  press' \in [Presses -> Press]
    <3> DEFINE q == press[p]
               r == [q EXCEPT !.sent = @ \ {d}, !.ok = @ \ {d}, !.bad = @ \cup {d}]
    <3>1. r \in Press
      BY <2>1 DEF Press
    <3>2. press' = [press EXCEPT ![p] = r]
      BY <2>1, <2>6 DEF DeleteFails
    <3> QED BY <2>2, <3>1, <3>2
  <2>7. ASSUME NEW p \in Presses, NEW d \in Devices, DeleteRejected(p, d)
        PROVE  press' \in [Presses -> Press]
    <3>1. Settled([press[p] EXCEPT !.bad = press[p].bad \ {d}]) \in Press
      BY <2>1, EmptyTypes DEF Settled, Press
    <3> QED BY <2>2, <2>7, <3>1 DEF DeleteRejected
  <2>8. ASSUME NEW d \in Devices, Changed(d) PROVE press' \in [Presses -> Press]
    BY <2>1, <2>8 DEF Changed
  <2> QED BY <2>4, <2>5, <2>6, <2>7, <2>8
<1>6. events' \in 0..MaxEvents
  <2>1. events' = events \/ Event
    BY DEF ConfirmRow, BulkDelete, Deleted, DeleteFails, DeleteRejected, Changed
  <2> QED BY <2>1, BoundAssumption DEF Event, LeaveInv, TypeOK
<1>7. TypeOK'
  BY <1>1, <1>3, <1>4, <1>5, <1>6 DEF screen, LeaveInv, TypeOK
<1> QED BY <1>1, <1>2, <1>4, <1>7 DEF LeaveInv

\* A scan is over, or a deletion is answered: everything is asked for again.
LEMMA RefreshTypes ==
  ASSUME PageInv, LeaveInv,
         \/ ScanComplete
         \/ \E p \in Presses, d \in Devices : DeleteAnswered(p, d)
  PROVE  LeaveInv'
<1>1. Invalidated /\ UNCHANGED <<devices, screen, dialog, meant>>
  BY DEF ScanComplete, DeleteAnswered, choice
<1>2. /\ cache' \in [Keys -> Entry] /\ fetch' \in [Keys -> Fetch]
      /\ \A k \in Keys : (FreshAnswer(k) /\ MarkedEntry(k))'
      /\ Watched'
  BY <1>1, InvalidatedStep
<1>3. /\ press' \in [Presses -> Press] /\ ticked' \subseteq Devices /\ chosen' \subseteq Devices
      /\ said' \subseteq Devices /\ removed' \subseteq gone /\ events' \in 0..MaxEvents
  <2>1. CASE ScanComplete
    <3>1. events' \in 0..MaxEvents
      BY <2>1, BoundAssumption DEF ScanComplete, Event, LeaveInv, TypeOK
    <3> QED BY <2>1, <3>1 DEF ScanComplete, choice, words, LeaveInv, TypeOK
  <2>2. ASSUME NEW p \in Presses, NEW d \in Devices, DeleteAnswered(p, d)
        PROVE  /\ press' \in [Presses -> Press] /\ ticked' \subseteq Devices /\ chosen' \subseteq Devices
               /\ said' \subseteq Devices /\ removed' \subseteq gone /\ events' \in 0..MaxEvents
    <3>1. press \in [Presses -> Press] /\ press[p].all \subseteq Devices
      BY DEF LeaveInv, TypeOK, Press
    <3> DEFINE r == [press[p] EXCEPT !.ok = press[p].ok \ {d}, !.done = press[p].done \cup {d}]
    <3>2. Settled(r) \in Press
      <4>1. r \in Press
        BY <3>1 DEF Press
      <4> HIDE DEF r
      <4> QED BY <4>1, EmptyTypes DEF Settled
    <3> HIDE DEF r
    <3>3. press' \in [Presses -> Press]
      BY <2>2, <3>1, <3>2 DEF DeleteAnswered, r
    <3>4. d \in gone
      BY <2>2 DEF DeleteAnswered, PageInv, ToldGone
    <3>5. ticked' \subseteq Devices /\ chosen' \subseteq Devices /\ said' \subseteq Devices
      BY <2>2, <3>1 DEF DeleteAnswered, LeaveInv, TypeOK
    <3> QED BY <2>2, <3>3, <3>4, <3>5 DEF DeleteAnswered, LeaveInv, TypeOK
  <2> QED BY <2>1, <2>2
<1>4. removed' \subseteq gone' /\ removed' \subseteq Devices
  BY <1>1, <1>3 DEF devices, LeaveInv, TypeOK
<1>5. TypeOK'
  BY <1>1, <1>2, <1>3, <1>4 DEF devices, screen, LeaveInv, TypeOK
<1> QED BY <1>2, <1>4, <1>5 DEF LeaveInv

-----------------------------------------------------------------------------
(***************************************************************************)
(* The theorems.                                                           *)
(***************************************************************************)
\* The disjuncts of Next, in the order of the lemmas.
LEMMA NextCases ==
  ASSUME Next
  PROVE  \/ ViewActions \/ ChoiceActions
         \/ \E p \in Presses : \/ ConfirmRow(p) \/ BulkDelete(p)
                               \/ \E d \in Devices : \/ Deleted(p, d) \/ DeleteFails(p, d)
                                                     \/ DeleteAnswered(p, d) \/ DeleteRejected(p, d)
BY DEF Next, ViewActions, ChoiceActions

\* The invariant is inductive.
LEMMA PageInvariant == Spec => []PageInv
<1>1. ASSUME Init PROVE PageInv
  <2>1. Whole(NoPress) /\ NoPress.ok = {} /\ NoPress.done = {}
    BY DEF NoPress, Whole
  <2>2. \A p \in Presses : press[p] = NoPress
    BY <1>1 DEF Init
  <2>3. ChoiceInv
    BY <1>1 DEF Init, ChoiceInv
  <2>4. PressShape
    BY <1>1, <2>1, <2>2 DEF Init, PressShape, Indexed, Wholes, FreeIsEmpty
  <2>5. ToldGone
    BY <1>1, <2>1, <2>2 DEF Init, ToldGone
  <2> QED BY <2>3, <2>4, <2>5 DEF PageInv
<1>2. ASSUME PageInv, [Next]_vars PROVE PageInv'
  <2>1. CASE UNCHANGED vars
    BY <1>2, <2>1 DEF vars, devices, screen, choice, words, PageInv, ChoiceInv, PressShape, Indexed, Wholes, FreeIsEmpty, ToldGone
  <2>2. CASE Next
    BY <1>2, <2>2, NextCases, ViewStep, ElsewhereStep, ChoiceStep, ConfirmStep, DeletedStep,
       DeleteFailsStep, DeleteAnsweredStep, DeleteRejectedStep
  <2> QED BY <1>2, <2>1, <2>2
<1> QED BY <1>1, <1>2, PTL DEF Spec

\* The bulk toast is said of devices that are gone, whatever overlaps: every
\* answer it waited for came after its device was deleted, and a device that is
\* found again has another id.
THEOREM BulkToast == Spec => []BulkToastTrue
<1>1. PageInv => BulkToastTrue
  BY DEF PageInv, ToldGone, BulkToastTrue
<1> QED BY <1>1, PageInvariant, PTL

\* A confirmed deletion names devices on the screen whose rows were ticked, or
\* the one whose dialog was opened: rows are known by the ids of their devices.
THEOREM DeletesWhatWasChosen == Spec => DeletesChosen
<1>1. ASSUME PageInv, [Next]_vars PROVE [SendsChosen]_vars
  <2>1. \A p \in Presses : press[p].kind = "none" =>
          press[p].all = {} /\ press[p].sent = {} /\ press[p].ok = {} /\ press[p].bad = {}
    BY <1>1 DEF PageInv, PressShape, FreeIsEmpty, NoPress
  <2>2. CASE press' = press
    BY <2>1, <2>2 DEF SendsChosen
  <2>3. ASSUME NEW p \in Presses, NEW kind, NEW S, Send(p, kind, S),
               \A d \in S : InTable(d) /\ IF kind = "row" THEN d = meant ELSE d \in chosen
        PROVE  SendsChosen
    <3> DEFINE r == [NoPress EXCEPT !.kind = kind, !.all = S, !.sent = S]
    <3>0. r = SentRec(kind, S)
      BY DEF SentRec
    <3>1. r.kind = kind /\ r.all = S
      <4> HIDE DEF r
      <4> QED BY <3>0, SentPress
    <3>2. press' = [press EXCEPT ![p] = r]
      BY <2>3 DEF Send
    <3> HIDE DEF r
    <3>3. \A q \in Presses : press'[q] = IF q = p THEN r ELSE press[q]
      BY <1>1, <3>2 DEF PageInv, PressShape, Indexed
    <3> QED BY <2>1, <2>3, <3>1, <3>3 DEF SendsChosen
  <2>4. ASSUME NEW p \in Presses, ConfirmRow(p) PROVE SendsChosen
    <3>1. PICK d \in DialogFor(Rows) : Send(p, "row", {d})
      BY <2>4 DEF ConfirmRow
    <3>2. InTable(d) /\ d = meant
      BY <1>1, <2>4, DialogMeant DEF ConfirmRow, PageInv
    <3> QED BY <2>3, <3>1, <3>2
  <2>5. ASSUME NEW p \in Presses, BulkDelete(p) PROVE SendsChosen
    BY <1>1, <2>3, <2>5, SelectedChosen DEF BulkDelete, PageInv
  <2>6. ASSUME NEW p \in Presses, NEW d \in Devices,
               \/ Deleted(p, d) \/ DeleteFails(p, d)
               \/ DeleteAnswered(p, d) \/ DeleteRejected(p, d)
        PROVE  SendsChosen
    <3>1. press[p].kind # "none"
      BY <2>1, <2>6 DEF Deleted, DeleteFails, DeleteAnswered, DeleteRejected
    <3>2. \A q \in Presses : q # p => press'[q] = press[q]
      BY <1>1, <2>6 DEF Deleted, DeleteFails, DeleteAnswered, DeleteRejected, PageInv, PressShape, Indexed
    <3> QED BY <2>1, <3>1, <3>2 DEF SendsChosen
  <2>7. CASE ViewActions \/ ChoiceActions
    BY <1>1, <2>2, <2>7, ViewStep, ChoiceStep DEF Elsewhere
  <2>8. CASE UNCHANGED vars
    BY <2>8
  <2> QED BY <1>1, <2>4, <2>5, <2>6, <2>7, <2>8, NextCases
<1> QED BY <1>1, PageInvariant, PTL DEF Spec, DeletesChosen

\* Types, and what the queries know of answered deletions.
LEMMA LeaveInvariant == Spec => []LeaveInv
<1>1. ASSUME Init PROVE LeaveInv
  <2>1. \A k \in Keys : cache[k] = NoEntry /\ fetch[k] = NoFetch
    BY <1>1 DEF Init
  <2>2. TypeOK
    <3>1. cache \in [Keys -> Entry] /\ fetch \in [Keys -> Fetch] /\ press \in [Presses -> Press]
      BY <1>1, EmptyTypes DEF Init
    <3>2. events \in 0..MaxEvents
      BY <1>1, BoundAssumption DEF Init
    <3>3. open \in BOOLEAN
      BY <1>1 DEF Init
    <3> QED BY <1>1, <3>1, <3>2, <3>3, EmptyTypes DEF Init, TypeOK
  <2>3. \A k \in Keys : FreshAnswer(k) /\ MarkedEntry(k)
    BY <2>1, EmptyTypes DEF FreshAnswer, MarkedEntry
  <2> QED BY <1>1, <2>2, <2>3 DEF Init, Watched, LeaveInv
<1>2. ASSUME PageInv, LeaveInv, [Next]_vars PROVE LeaveInv'
  <2>1. CASE UNCHANGED vars
    BY <1>2, <2>1, ScreenKept DEF vars, devices, choice, screen, words, LeaveInv, TypeOK
  <2>2. CASE Next
    BY <1>2, <2>2, ChosenViews, LookStep, ChoiceTypes, DeviceTypes, RefreshTypes, QueryStep DEF Next
  <2> QED BY <1>2, <2>1, <2>2
<1> QED BY <1>1, <1>2, PageInvariant, PTL DEF Spec

\* The variables keep their types: rows and ticks are devices, whatever comes of
\* pages, filters and page sizes.
THEOREM PageTypes == Spec => []TypeOK
<1>1. LeaveInv => TypeOK
  BY DEF LeaveInv
<1> QED BY <1>1, LeaveInvariant, PTL

\* A device whose deletion was answered stays on the screen only while a request
\* is on its way, when that failed, or in data that no invalidation replaced: for
\* any pages, filters, overlapping deletions and order of answers.
THEOREM DeletedIsGone == Spec => []DeletedLeaves
<1>1. LeaveInv => DeletedLeaves
  <2> SUFFICES ASSUME LeaveInv, NEW d \in removed, InTable(d)
               PROVE  fetch[Cur].on # "no" \/ cache[Cur].failed \/ cache[Cur].late
    BY DEF DeletedLeaves
  <2>1. Cur \in Keys
    BY ScreenType DEF LeaveInv
  <2>2. cache[Cur].late \/ cache[Cur].inv
    BY <2>1 DEF LeaveInv, MarkedEntry, InTable, Rows
  <2> QED BY <2>2 DEF LeaveInv, Watched, InTable
<1> QED BY <1>1, LeaveInvariant, PTL
=============================================================================
