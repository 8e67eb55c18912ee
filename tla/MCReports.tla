------------------------------ MODULE MCReports ------------------------------
(* Two reports, one after the other or one unwatched, with one restart. *)
EXTENDS ReportsPage
=============================================================================
