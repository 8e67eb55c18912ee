------------------------- MODULE OnboardingPasswords -------------------------
(***************************************************************************)
(* Whose password is in a directory entry, and is it the one in the mail?  *)
(*                                                                         *)
(* Passwords are set by DN, on the entry with the uid of the hire's        *)
(* address.  Retry, rollback and the sweeper look at the status of a row,  *)
(* not at the tasks that work on it, so two tasks may work for one hire,   *)
(* and a task may outlive its hire's account.  Module Onboarding records    *)
(* neither; two history variables, which no step reads, do.                *)
(***************************************************************************)
EXTENDS Onboarding

VARIABLES
  deleted,  \* hires whose directory entry a rollback has deleted
  crowded   \* hires for whom two tasks were at work at once

passwordVars == <<vars, deleted, crowded>>

-----------------------------------------------------------------------------
\* A task before its dispatch: it may still set a password or write its row.
Choosing == {"start", "create", "load1", "store1", "rload", "rstore1", "setpw"}
Telling == {"load2", "store2", "rstore2"}
AtWork(j) == task[j].pc \in Choosing \cup Telling
Crowd(u) == \E j, k \in Owned(u) : j # k /\ AtWork(j) /\ AtWork(k)

PasswordInit == Init /\ deleted = {} /\ crowded = {}
PasswordNext ==
  /\ Next
  /\ deleted' = deleted \cup {u \in Users : Account(u) # {} /\ Account(u)' = {}}
  /\ crowded' = crowded \cup {u \in Users : Crowd(u)'}
PasswordSpec == PasswordInit /\ [][PasswordNext]_passwordVars
PasswordFairSpec == PasswordSpec /\ Fairness

-----------------------------------------------------------------------------
(***************************************************************************)
(* Properties.                                                             *)
(***************************************************************************)
\* Entry d has a password that was chosen for a hire without an account.
Strayed(d) == dir[d].pw # NoJob /\ task[dir[d].pw].user \in deleted

\* A password in the directory was chosen by a job of the hire the entry
\* belongs to, although set_password addresses the entry by DN.  The one way
\* round it: a rollback deleted the account of a hire whose task still ran, or
\* was retried, and another hire got the DN.
PasswordOfOwner ==
  \A d \in Uids : dir[d].pw # NoJob /\ ~ Strayed(d) => task[dir[d].pw].user = dir[d].emp

\* The password in the welcome mail is the one in the directory: when the row
\* is COMPLETED by the job it carries, and that job chose a password, the hire
\* has an entry with that job's password, however often the hire was retried
\* or resumed; unless two tasks worked for the hire at once, or its account was
\* deleted, or such a stray password replaced it.
MailedPasswordWorks ==
  OnLdap => \A u \in Users \ (deleted \cup crowded) :
    LET j == rec[u].job
        d == Uid[emailOf[u]]
    IN /\ rec[u].jstat = "COMPLETED" /\ wf[j] = "done" /\ task[j].rot
       => Entered(u) /\ (dir[d].pw = j \/ Strayed(d))

-----------------------------------------------------------------------------
(***************************************************************************)
(* The inductive strengthening of the two.                                 *)
(***************************************************************************)
PasswordTypeOK == deleted \subseteq Users /\ crowded \subseteq Users

\* An entry sits at the uid of its hire's address, and whoever chose its
\* password is a job that was handed out.
EntriesByUid ==
  \A d \in Uids :
    /\ dir[d].emp # Nobody => emailOf[dir[d].emp] # NoEmail /\ Uid[emailOf[dir[d].emp]] = d
    /\ dir[d].pw # NoJob => ~ Fresh(dir[d].pw)

\* Whoever has a row with an external_id, or a task beyond the creation of the account,
\* has the account, unless a rollback deleted it.
Beyond(j) == task[j].pc \in Saved \cup {"load1", "store1"} \/ wf[j] # "idle"
AccountsLast ==
  OnLdap => \A u \in Users \ deleted :
    (HasRow(u) /\ rec[u].ext) \/ (\E j \in Owned(u) : Beyond(j)) => Entered(u)

\* While one task at most works for a hire, it is that of the job on the row.
CrowdsSeen == \A u \in Users : Crowd(u) => u \in crowded
WorkerOnRow ==
  \A u \in Users \ crowded : \A j \in Owned(u) : AtWork(j) /\ HasRow(u) => rec[u].job = j

\* From there on the password of the job on the row is in force.
HasChosen(j) == task[j].pc \in Telling \cup {"dispatch", "partial", "closing"} \/ wf[j] # "idle"
ChoiceInForce ==
  OnLdap => \A u \in Users \ (deleted \cup crowded) : \A j \in Owned(u) :
    LET d == Uid[emailOf[u]]
    IN task[j].rot /\ HasChosen(j) /\ (AtWork(j) \/ rec[u].job = j)
       => dir[d].pw = j \/ Strayed(d)

PasswordInv ==
  /\ IInv
  /\ PasswordTypeOK
  /\ EntriesByUid
  /\ AccountsLast
  /\ CrowdsSeen
  /\ WorkerOnRow
  /\ ChoiceInForce
  /\ PasswordOfOwner
=============================================================================
