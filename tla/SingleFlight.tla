---------------------------- MODULE SingleFlight ----------------------------
(***************************************************************************)
(* What the aggregator promises an operator about one host: the actions    *)
(* only a companion may run (apply an update, update a binary) reach that  *)
(* host's companion one at a time.  A second one is handed over only when  *)
(* the first has ended, by its result or by the loss of its stream; it is  *)
(* never queued behind it.                                                 *)
(***************************************************************************)
CONSTANT Ids                  \* identifiers of actions

VARIABLE inflight             \* the actions handed to the companion and not ended

Init == inflight = {}

\* An action is handed over: only to an idle companion.
Start(id) == /\ inflight = {}
             /\ inflight' = {id}

\* The action ends: its result was sent, or its stream or process was lost.
Finish == /\ inflight # {}
          /\ inflight' = {}

Next == (\E id \in Ids : Start(id)) \/ Finish

Spec == Init /\ [][Next]_inflight
=============================================================================
