----------------------------- MODULE AuthSession -----------------------------
(***************************************************************************)
(* A session of the web client: the auth store, the axios instance with    *)
(* its interceptors and the shared refresh, the bootstrap after a reload,  *)
(* the login form, and the endpoints they call.                            *)
(*                                                                         *)
(* A step is what one answer from the network sets off in the browser:     *)
(* promise continuations run before the next event.                        *)
(***************************************************************************)
EXTENDS Naturals

CONSTANTS
  Data,    \* requests of the pages for data
  Boots,   \* runs of the bootstrap effect (StrictMode mounts it twice)
  Kept,    \* the run that is not cancelled by an unmount
  Login,   \* the request of the login form
  MaxReloads  \* bound on reloads of the page

ASSUME KeptAssumption == Kept \in Boots
ASSUME RequestAssumption ==
  Data \cap Boots = {} /\ Login \notin Data /\ Login \notin Boots
ASSUME BoundAssumption == MaxReloads \in Nat

VARIABLES
  store,      \* isAuthenticated and the access token of the user in the store
  hydrating,  \* isHydrating of the bootstrap gate
  req,        \* req[r]: request r
  right,      \* whether the password in the form is right
  shared,     \* refreshPromise is set
  cookie,     \* the refresh cookie is present and has not expired
  active,     \* the user's row is active
  left,       \* the user has signed out and has not signed in since
  reloads     \* reloads so far

vars == <<store, hydrating, req, right, shared, cookie, active, left, reloads>>

-----------------------------------------------------------------------------
Requests == Data \cup Boots \cup {Login}
Token == {"none", "old", "ok"}
SignedOut == [auth |-> FALSE, tok |-> "none"]
SignedIn == [auth |-> TRUE, tok |-> "ok"]
Idle == [pc |-> "idle", tok |-> "none", retried |-> FALSE]

TypeOK ==
  /\ store \in [auth : BOOLEAN, tok : Token]
  /\ req \in [Requests -> [pc : {"idle", "flight", "refresh"}, tok : Token,
                           retried : BOOLEAN]]
  /\ hydrating \in BOOLEAN /\ right \in BOOLEAN /\ shared \in BOOLEAN
  /\ cookie \in BOOLEAN /\ active \in BOOLEAN /\ left \in BOOLEAN
  /\ reloads \in 0..MaxReloads

Init ==
  /\ store = SignedOut
  /\ hydrating = FALSE
  /\ req = [r \in Requests |-> Idle]
  /\ right = FALSE /\ shared = FALSE /\ cookie = FALSE
  /\ active = TRUE
  /\ left = FALSE
  /\ reloads = 0

-----------------------------------------------------------------------------
(***************************************************************************)
(* The endpoints.                                                          *)
(***************************************************************************)
\* get_current_user, authenticate_user, rotate_access_token.
Accepts(tok) == tok = "ok" /\ active
Authenticates == right /\ active
Rotates == cookie /\ active
Accepted(r) ==
  \/ r \in Data /\ Accepts(req[r].tok)
  \/ r = Login /\ Authenticates
  \/ r \in Boots /\ Rotates

-----------------------------------------------------------------------------
(***************************************************************************)
(* The user and the pages.                                                 *)
(***************************************************************************)
\* A variant that does not look whether there is a token: "Bearer undefined".
SentUnguarded ==
  [Idle EXCEPT !.pc = "flight",
               !.tok = IF store.tok = "none" THEN "undefined" ELSE store.tok]
\* The request interceptor attaches the token in the store, if there is one.
Sent == [Idle EXCEPT !.pc = "flight", !.tok = store.tok]

Request(r) ==
  /\ ~ hydrating /\ store.auth
  /\ req[r].pc = "idle"
  /\ req' = [req EXCEPT ![r] = Sent]
  /\ UNCHANGED <<store, hydrating, right, shared, cookie, active, left, reloads>>

\* The form's button is disabled while a submit is under way.
CanSubmit == ~ hydrating /\ req[Login].pc = "idle"

Submit(good) ==
  /\ CanSubmit
  /\ right' = good
  /\ req' = [req EXCEPT ![Login] = Sent]
  /\ UNCHANGED <<store, hydrating, shared, cookie, active, left, reloads>>

\* The header's menu entry; the cookie stays.
SignOut ==
  /\ ~ hydrating /\ store.auth
  /\ store' = SignedOut
  /\ left' = TRUE
  /\ UNCHANGED <<hydrating, req, right, shared, cookie, active, reloads>>

\* Only isAuthenticated survives; if it is set the bootstrap asks for a token.
Reload ==
  /\ reloads < MaxReloads /\ reloads' = reloads + 1
  /\ store' = [store EXCEPT !.tok = "none"]
  /\ hydrating' = store.auth
  /\ req' = [r \in Requests |->
               IF r \in Boots /\ store.auth THEN [Idle EXCEPT !.pc = "flight"] ELSE Idle]
  /\ shared' = FALSE
  /\ UNCHANGED <<right, cookie, active, left>>

-----------------------------------------------------------------------------
(***************************************************************************)
(* Answers.                                                                *)
(***************************************************************************)
\* What the callers do with a success: the pages render it, login and the run
\* of the bootstrap that was kept put the user into the store.
Succeed(r) ==
  /\ req[r].pc = "flight" /\ Accepted(r)
  /\ req' = [req EXCEPT ![r] = Idle]
  /\ store' = IF r \in {Login, Kept} THEN SignedIn ELSE store
  /\ hydrating' = (hydrating /\ r # Kept)
  /\ cookie' = (cookie \/ r = Login)
  /\ left' = (left /\ r # Login)
  /\ UNCHANGED <<right, shared, active, reloads>>

\* A variant of the bootstrap whose cancelled run opens the gate as well.
OpensAny(S) == S \cap Boots # {}
\* The finally block: only a run that is not cancelled opens the gate.
Opens(S) == Kept \in S

\* What the callers do with a failure: the kept bootstrap signs out.
GiveUp(S) ==
  /\ req' = [r \in Requests |-> IF r \in S THEN Idle ELSE req[r]]
  /\ hydrating' = (hydrating /\ ~ Opens(S))

\* No answer, a timeout, a 429 or a 5xx; a login may have set the cookie.
Lost(r) ==
  /\ req[r].pc = "flight"
  /\ GiveUp({r})
  /\ store' = IF r = Kept THEN SignedOut ELSE store
  /\ cookie' \in {cookie, cookie \/ (r = Login /\ Authenticates)}
  /\ UNCHANGED <<right, shared, active, left, reloads>>

\* A variant without the _retry mark.
RefreshForEver(r) ==
  /\ req' = [req EXCEPT ![r].pc = "refresh"]
  /\ shared' = TRUE
  /\ UNCHANGED <<store, hydrating>>

\* The response interceptor on a 401: the first joins the shared refresh, the
\* second is passed on.
RefreshOnce(r) ==
  IF req[r].retried
  THEN /\ GiveUp({r})
       /\ store' = IF r = Kept THEN SignedOut ELSE store
       /\ UNCHANGED shared
  ELSE /\ req' = [req EXCEPT ![r].pc = "refresh", ![r].retried = TRUE]
       /\ shared' = TRUE
       /\ UNCHANGED <<store, hydrating>>

Unauthorised(r) ==
  /\ req[r].pc = "flight" /\ ~ Accepted(r)
  /\ RefreshOnce(r)
  /\ UNCHANGED <<right, cookie, active, left, reloads>>

Waiting == {r \in Requests : req[r].pc = "refresh"}

\* A variant that stores the new token without looking for a current user.
RefreshedAlways == SignedIn
\* The new token replaces that of the current user, if there is one.
Refreshed == IF store.tok = "none" THEN store ELSE [store EXCEPT !.tok = "ok"]

RefreshOk ==
  /\ shared /\ Rotates
  /\ shared' = FALSE
  /\ store' = Refreshed
  /\ req' = [r \in Requests |-> IF r \in Waiting
                                THEN [req[r] EXCEPT !.pc = "flight", !.tok = "ok"]
                                ELSE req[r]]
  /\ UNCHANGED <<hydrating, right, cookie, active, left, reloads>>

\* Refused, limited, timed out or unreachable: all the same, logout().
RefreshFails ==
  /\ shared
  /\ shared' = FALSE
  /\ store' = SignedOut
  /\ GiveUp(Waiting)
  /\ UNCHANGED <<right, cookie, active, left, reloads>>

-----------------------------------------------------------------------------
\* Time passes: access tokens, those under way too, or the cookie expire; the
\* user's row is deactivated in the database.
Aged(tok) == IF tok = "ok" THEN "old" ELSE tok
Expire ==
  /\ store' = [store EXCEPT !.tok = Aged(@)]
  /\ req' = [r \in Requests |-> [req[r] EXCEPT !.tok = Aged(@)]]
  /\ UNCHANGED <<hydrating, right, shared, cookie, active, left, reloads>>
CookieExpires ==
  /\ cookie' = FALSE
  /\ UNCHANGED <<store, hydrating, req, right, shared, active, left, reloads>>
Deactivate ==
  /\ active' = FALSE
  /\ UNCHANGED <<store, hydrating, req, right, shared, cookie, left, reloads>>

Answer(r) == Succeed(r) \/ Lost(r) \/ Unauthorised(r)
Refresh == RefreshOk \/ RefreshFails
Next ==
  \/ \E r \in Data : Request(r)
  \/ \E good \in BOOLEAN : Submit(good)
  \/ SignOut \/ Reload
  \/ \E r \in Requests : Answer(r)
  \/ Refresh
  \/ Expire \/ CookieExpires \/ Deactivate

Spec == Init /\ [][Next]_vars

\* Every call is answered, or fails in the end.
Fairness == WF_vars(Refresh) /\ \A r \in Requests : WF_vars(Answer(r))
FairSpec == Spec /\ Fairness

-----------------------------------------------------------------------------
(***************************************************************************)
(* Properties.                                                             *)
(***************************************************************************)

\* When the bootstrap gate is open, whoever is signed in has a user and a token
\* in the store: no route renders a signed-in shell without a role, also when
\* the effect runs twice and the two runs share one refresh.
GateOpensComplete == ~ hydrating /\ store.auth => store.tok # "none"

\* Signing out is final: no refresh or retry that was under way, and no reload,
\* signs the user in again before a login succeeds.
SignedOutStays == left => ~ store.auth

\* Every request is settled, also one that is refused again and again: one
\* refresh, one retry, and never a loop.
RequestsSettle == \A r \in Requests : req[r].pc # "idle" ~> req[r].pc = "idle"
=============================================================================
