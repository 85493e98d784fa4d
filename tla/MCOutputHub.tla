---------------------------- MODULE MCOutputHub ----------------------------
(* Model-checking instances of OutputHub. *)
EXTENDS OutputHub, TLC

\* A long action beside one of a single line.
LongAndShort == <<3, 1>>

\* Two actions of a line each.
TwoShort == <<1, 1>>
=============================================================================
