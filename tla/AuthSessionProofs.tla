-------------------------- MODULE AuthSessionProofs --------------------------
(***************************************************************************)
(* Proofs about AuthSession, for any sets of requests and bootstrap runs.  *)
(***************************************************************************)
EXTENDS AuthSession, TLAPS

\* The run of the bootstrap that was kept is under way only behind a closed gate.
KeptBehindGate == ~ hydrating => req[Kept].pc = "idle"
\* Whoever has signed out finds the gate open.
LeftBeforeGate == left => ~ hydrating

SessionInv ==
  /\ TypeOK
  /\ GateOpensComplete
  /\ SignedOutStays
  /\ KeptBehindGate
  /\ LeftBeforeGate

-----------------------------------------------------------------------------
\* The request records of TypeOK.
RequestState == [pc : {"idle", "flight", "refresh"}, tok : Token, retried : BOOLEAN]

\* The request of the kept bootstrap run is none of the others.
LEMMA KeptRequest == Kept \in Requests /\ Kept \notin Data /\ Kept # Login
BY KeptAssumption, RequestAssumption DEF Requests

\* A fresh visit: nobody is signed in and nothing is asked.
LEMMA InitInv == Init => SessionInv
<1> USE KeptRequest
<1>1. ASSUME Init PROVE TypeOK
  <2>1. store \in [auth : BOOLEAN, tok : Token]
    BY <1>1 DEF Init, SignedOut, Token
  <2>2. req \in [Requests -> RequestState]
    BY <1>1 DEF Init, Idle, Token, RequestState
  <2>3. reloads \in 0..MaxReloads
    BY <1>1, BoundAssumption DEF Init
  <2> QED
    BY <1>1, <2>1, <2>2, <2>3 DEF Init, TypeOK, RequestState
<1>2. Init => GateOpensComplete /\ SignedOutStays /\ KeptBehindGate /\ LeftBeforeGate
  BY DEF Init, GateOpensComplete, SignedOutStays, KeptBehindGate, LeftBeforeGate,
         SignedOut, Idle
<1> QED
  BY <1>1, <1>2 DEF SessionInv

\* What giving up leaves: the requests in S are over and, if the kept run is
\* one of them, the gate is open.
GivenUp(S) ==
  /\ req' \in [Requests -> RequestState]
  /\ hydrating' \in BOOLEAN
  /\ IF Kept \in S
     THEN ~ hydrating' /\ req'[Kept].pc = "idle"
     ELSE hydrating' = hydrating /\ req'[Kept] = req[Kept]

\* Giving up keeps the types and ends the requests given up.
LEMMA GiveUpTypes ==
  ASSUME TypeOK, NEW S \in SUBSET Requests, GiveUp(S)
  PROVE  GivenUp(S)
BY KeptRequest DEF GivenUp, TypeOK, GiveUp, Opens, Idle, Token, RequestState

-----------------------------------------------------------------------------
\* The user and the pages: requests, the login form, signing out, a reload.
LEMMA UserStep ==
  ASSUME SessionInv,
         \/ \E r \in Data : Request(r)
         \/ \E good \in BOOLEAN : Submit(good)
         \/ SignOut
         \/ Reload
  PROVE  SessionInv'
<1> USE KeptRequest DEF SessionInv, TypeOK, GateOpensComplete, SignedOutStays,
                        KeptBehindGate, LeftBeforeGate
<1>1. ASSUME NEW r \in Data, Request(r) PROVE SessionInv'
  BY <1>1 DEF Request, Sent, Idle, Token, Requests
<1>2. ASSUME NEW good \in BOOLEAN, Submit(good) PROVE SessionInv'
  BY <1>2 DEF Submit, CanSubmit, Sent, Idle, Token, Requests
<1>3. CASE SignOut
  BY <1>3 DEF SignOut, SignedOut, Token
<1>4. CASE Reload
  <2>1. req' \in [Requests -> RequestState]
    BY <1>4 DEF Reload, Idle, Token, RequestState
  <2>2. store' \in [auth : BOOLEAN, tok : Token] /\ hydrating' \in BOOLEAN
    BY <1>4 DEF Reload, Token
  <2>3. reloads' \in 0..MaxReloads
    BY <1>4, BoundAssumption DEF Reload
  <2>4. TypeOK'
    BY <1>4, <2>1, <2>2, <2>3 DEF Reload, RequestState
  <2>5. hydrating' = store'.auth /\ store'.auth = store.auth /\ left' = left
    BY <1>4 DEF Reload
  <2>6. ~ store.auth => req'[Kept].pc = "idle"
    BY <1>4 DEF Reload, Idle
  <2> QED
    BY <2>4, <2>5, <2>6
<1> QED
  BY <1>1, <1>2, <1>3, <1>4

\* Answers to a request: success, loss, or a 401.
LEMMA AnswerStep ==
  ASSUME SessionInv, NEW r \in Requests, Answer(r)
  PROVE  SessionInv'
<1> USE KeptRequest DEF SessionInv, GateOpensComplete, SignedOutStays,
                        KeptBehindGate, LeftBeforeGate
<1>1. CASE Succeed(r)
  BY <1>1 DEF Succeed, SignedIn, Idle, Token, TypeOK
<1>2. CASE Lost(r)
  <2>1. GivenUp({r})
    BY <1>2, GiveUpTypes DEF Lost
  <2>2. /\ store' = IF r = Kept THEN SignedOut ELSE store
        /\ cookie' \in BOOLEAN
        /\ UNCHANGED <<right, shared, active, left, reloads>>
    BY <1>2 DEF Lost, Authenticates, TypeOK
  <2> QED
    BY <2>1, <2>2 DEF GivenUp, SignedOut, Token, TypeOK, RequestState
<1>3. CASE Unauthorised(r) /\ req[r].retried
  <2>1. GivenUp({r})
    BY <1>3, GiveUpTypes DEF Unauthorised, RefreshOnce
  <2>2. /\ store' = IF r = Kept THEN SignedOut ELSE store
        /\ UNCHANGED <<right, shared, cookie, active, left, reloads>>
    BY <1>3 DEF Unauthorised, RefreshOnce
  <2> QED
    BY <2>1, <2>2 DEF GivenUp, SignedOut, Token, TypeOK, RequestState
<1>4. CASE Unauthorised(r) /\ ~ req[r].retried
  BY <1>4 DEF Unauthorised, RefreshOnce, Token, TypeOK
<1> QED
  BY <1>1, <1>2, <1>3, <1>4 DEF Answer

\* The end of the shared refresh.
LEMMA RefreshStep ==
  ASSUME SessionInv, Refresh
  PROVE  SessionInv'
<1> USE KeptRequest DEF SessionInv, GateOpensComplete, SignedOutStays,
                        KeptBehindGate, LeftBeforeGate
<1>1. CASE RefreshOk
  BY <1>1 DEF RefreshOk, Refreshed, Waiting, Token, TypeOK
<1>2. CASE RefreshFails
  <2>1. Waiting \in SUBSET Requests
    BY DEF Waiting
  <2>2. GivenUp(Waiting)
    BY <1>2, <2>1, GiveUpTypes DEF RefreshFails
  <2>3. /\ store' = SignedOut /\ shared' = FALSE
        /\ UNCHANGED <<right, cookie, active, left, reloads>>
    BY <1>2 DEF RefreshFails
  <2> QED
    BY <2>2, <2>3 DEF GivenUp, SignedOut, Token, TypeOK, RequestState
<1> QED
  BY <1>1, <1>2 DEF Refresh

\* Time: tokens and the cookie expire, the row is deactivated.
LEMMA TimeStep ==
  ASSUME SessionInv, Expire \/ CookieExpires \/ Deactivate \/ UNCHANGED vars
  PROVE  SessionInv'
<1> USE KeptRequest DEF SessionInv, TypeOK, GateOpensComplete, SignedOutStays,
                        KeptBehindGate, LeftBeforeGate
<1>1. CASE Expire
  BY <1>1 DEF Expire, Aged, Token
<1>2. CASE CookieExpires
  BY <1>2 DEF CookieExpires
<1>3. CASE Deactivate
  BY <1>3 DEF Deactivate
<1>4. CASE UNCHANGED vars
  BY <1>4 DEF vars
<1> QED
  BY <1>1, <1>2, <1>3, <1>4

\* Every step of the user, the network and time keeps the invariant.
THEOREM SessionInvariant == Spec => []SessionInv
<1>1. SessionInv /\ [Next]_vars => SessionInv'
  BY UserStep, AnswerStep, RefreshStep, TimeStep DEF Next
<1> QED
  BY <1>1, InitInv, PTL DEF Spec

\* The store, the requests and their tokens keep their types.
THEOREM SessionTypeCorrect == Spec => []TypeOK
<1>1. SessionInv => TypeOK
  BY DEF SessionInv
<1> QED
  BY <1>1, SessionInvariant, PTL

\* For any number of bootstrap runs and concurrent requests the gate opens only
\* on a session that is complete or over.
THEOREM GateComplete == Spec => []GateOpensComplete
<1>1. SessionInv => GateOpensComplete
  BY DEF SessionInv
<1> QED
  BY <1>1, SessionInvariant, PTL

\* For any number of requests under way nothing but a login ends a sign-out.
THEOREM SignOutFinal == Spec => []SignedOutStays
<1>1. SessionInv => SignedOutStays
  BY DEF SessionInv
<1> QED
  BY <1>1, SessionInvariant, PTL
=============================================================================
