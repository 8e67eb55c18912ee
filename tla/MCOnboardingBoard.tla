-------------------------- MODULE MCOnboardingBoard --------------------------
(***************************************************************************)
(* Instances of OnboardingBoard for TLC.                                   *)
(***************************************************************************)
EXTENDS OnboardingBoard
BothSeparators == {"LF", "CRLF"}
ServerSeparator == {"CRLF"}
=============================================================================
