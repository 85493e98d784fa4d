---------------------------- MODULE MCLiveOutput ----------------------------
(* Model-checking instances of LiveOutput. *)
EXTENDS LiveOutput, TLC
=============================================================================
