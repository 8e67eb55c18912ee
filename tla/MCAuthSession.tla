---------------------------- MODULE MCAuthSession ----------------------------
(* Two data requests, a login form and a bootstrap mounted twice. *)
EXTENDS AuthSession
=============================================================================
