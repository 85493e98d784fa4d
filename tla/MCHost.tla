------------------------------- MODULE MCHost -------------------------------
(* Model-checking instance of two parts that share no variable: the        *)
(* companion executing an action on its host, and the loop of an agent.  A *)
(* behaviour chooses one part and leaves the other where it starts; since  *)
(* no action reads or writes the other part's variables, what holds of     *)
(* each part alone holds of them together.  On Windows, whose runs are the *)
(* largest, what is pending varies at first only: nothing arrives later.   *)
EXTENDS Host, AgentLoop

VARIABLE part      \* the part that runs

MCInit ==
    /\ part \in {"host", "loop"}
    /\ InitHost /\ InitLoop
    /\ part # "host" => platform = "brew" /\ pending = {}
    /\ arrivals = IF platform = "windows" THEN MaxArrivals ELSE 0

MCNext ==
    \/ part = "host" /\ HostNext /\ UNCHANGED <<part, loopVars>>
    \/ part = "loop" /\ LoopNext /\ UNCHANGED <<part, companionVars>>

MCSpec == MCInit /\ [][MCNext]_<<part, companionVars, loopVars>>
=============================================================================
