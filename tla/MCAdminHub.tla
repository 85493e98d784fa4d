----------------------------- MODULE MCAdminHub -----------------------------
(* Model-checking instance of AdminHub. *)
EXTENDS AdminHub
=============================================================================
