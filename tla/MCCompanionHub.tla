--------------------------- MODULE MCCompanionHub ---------------------------
(* Model-checking instances of CompanionHub. *)
EXTENDS CompanionHub, TLC

\* Connections of one kind are interchangeable (sound for safety runs only).
Symmetry == Permutations(AgentConns) \cup Permutations(CompanionConns)
=============================================================================
