-------------------------- MODULE OnboardingLedger --------------------------
(***************************************************************************)
(* What the onboarding service promises about each hire, without tasks,    *)
(* transactions, callbacks or restarts: no announcement before the account *)
(* is on record, no completion before the Jira issue, and no removal       *)
(* without an audit entry.  Onboarding implements it (KeepsLedger there).  *)
(*                                                                         *)
(* The order of stages is left open on purpose: the code has no guard      *)
(* against a late task or a repeated callback, so a hire may fall back.    *)
(***************************************************************************)
CONSTANTS
  Hires,
  NeedsAccount   \* does the provider give accounts an id to keep?

VARIABLES
  stage,     \* stage[u]: how far the record of hire u says the hire is
  accounts,  \* hires whose account is on record
  issues,    \* hires for whom a Jira issue was opened
  removals   \* hires whose removal is in the audit log

ledger == <<stage, accounts, issues, removals>>

Recorded == {"begun", "announced", "failed", "partial", "completed"}
Stages == Recorded \cup {"unknown", "gone"}

Init ==
  /\ stage = [u \in Hires |-> "unknown"]
  /\ accounts = {}
  /\ issues = {}
  /\ removals = {}

HasAccount(u) == NeedsAccount => u \in accounts
Enters(u, s) == stage' = [stage EXCEPT ![u] = s]

Request(u) ==
  /\ stage[u] = "unknown"
  /\ Enters(u, "begun")
  /\ UNCHANGED <<accounts, issues, removals>>

\* Started again, or failed: no condition.
Write(u, s) ==
  /\ stage[u] \in Recorded
  /\ s \in {"begun", "failed"}
  /\ Enters(u, s)
  /\ UNCHANGED <<accounts, issues, removals>>

\* Mails go out, or only they are missing: the account is on record.
Announce(u, s) ==
  /\ stage[u] \in Recorded
  /\ s \in {"announced", "partial"}
  /\ HasAccount(u)
  /\ Enters(u, s)
  /\ UNCHANGED <<accounts, issues, removals>>

Complete(u) ==
  /\ stage[u] \in Recorded
  /\ HasAccount(u) /\ u \in issues
  /\ Enters(u, "completed")
  /\ UNCHANGED <<accounts, issues, removals>>

SaveAccount(u) ==
  /\ stage[u] \in Recorded
  /\ NeedsAccount
  /\ accounts' = accounts \cup {u}
  /\ UNCHANGED stage \/ Enters(u, "begun")
  /\ UNCHANGED <<issues, removals>>

OpenIssue(u) ==
  /\ stage[u] # "unknown"
  /\ issues' = issues \cup {u}
  /\ UNCHANGED <<stage, accounts, removals>>

\* Whoever was left waiting is settled, by whether there is an account.
Sweep(S) ==
  /\ \A u \in S : stage[u] \in {"begun", "announced"}
  /\ stage' = [u \in Hires |-> IF u \notin S THEN stage[u]
                               ELSE IF u \in accounts THEN "partial" ELSE "failed"]
  /\ UNCHANGED <<accounts, issues, removals>>

\* The record, its account and the entry that says so change together.
Remove(u) ==
  /\ stage[u] \in Recorded
  /\ Enters(u, "gone")
  /\ accounts' = accounts \ {u}
  /\ removals' = removals \cup {u}
  /\ UNCHANGED issues

\* A pipeline that overlaps the removal records the hire anew, with the account.
Reappear(u) ==
  /\ stage[u] = "gone"
  /\ Enters(u, "begun") \/ Enters(u, "announced")
  /\ accounts' = IF NeedsAccount THEN accounts \cup {u} ELSE accounts
  /\ UNCHANGED <<issues, removals>>

Next ==
  \/ \E S \in SUBSET Hires : Sweep(S)
  \/ \E u \in Hires : \/ Request(u) \/ SaveAccount(u) \/ OpenIssue(u)
                      \/ Complete(u) \/ Remove(u) \/ Reappear(u)
                      \/ \E s \in Recorded : Write(u, s) \/ Announce(u, s)

Spec == Init /\ [][Next]_ledger
=============================================================================
