----------------------------- MODULE MCReports -----------------------------
(* Model-checking instances of Reports. *)
EXTENDS Reports, TLC
=============================================================================
