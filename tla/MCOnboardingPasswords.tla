---------------------------- MODULE MCOnboardingPasswords ----------------------------
(* Small instances of OnboardingPasswords for TLC. *)
EXTENDS OnboardingPasswords, TLC

OneUid == [e \in Emails |-> CHOOSE d \in Uids : TRUE]
Symmetric == Permutations(Jobs) \cup Permutations(Users) \cup Permutations(Requests)
=============================================================================
