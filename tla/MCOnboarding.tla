---------------------------- MODULE MCOnboarding ----------------------------
(* Small instances of Onboarding for TLC. *)
EXTENDS Onboarding, TLC

OneUid == [e \in Emails |-> CHOOSE d \in Uids : TRUE]
Symmetric == Permutations(Jobs) \cup Permutations(Users) \cup Permutations(Requests)
=============================================================================
