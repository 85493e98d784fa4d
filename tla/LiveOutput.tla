----------------------------- MODULE LiveOutput -----------------------------
(***************************************************************************)
(* The live view of an action, composed with the hub that carries it.  An  *)
(* HTTP handler of the aggregator takes the mutexes of CompanionHub and    *)
(* OutputHub one after the other, never together, so between "push" and    *)
(* "begin", and between "record the result" and "end", any other handler   *)
(* may run.  The client streams an action's output in a POST of its own    *)
(* (outputstream.go) beside the POST of the result.                        *)
(*                                                                         *)
(* Lines are in OutputHub; here an action's view is only begun and ended.  *)
(***************************************************************************)
EXTENDS CompanionHub

VARIABLES
    active,   \* OutputHub.active: the action whose output is live, or None
    toBegin,  \* actions pushed by a handler that has not called Begin yet
    toEnd,    \* actions whose result is recorded, End not yet called
    post,     \* post[id]: the output POST of id, as the aggregator sees it
    ended,    \* ended[id]: what the browsers were told ended id's view
    failed,   \* actions whose client, POST or report was lost
    late      \* actions whose End("done") ran before their Begin

outVars == <<active, toBegin, toEnd, post, ended, failed, late>>
allVars == <<vars, outVars>>

Posts == {"none", "open", "accepted", "closed"}
Ends  == {"none", "done", "disconnected"}

OutInit ==
    /\ Init
    /\ active = None
    /\ toBegin = {} /\ toEnd = {}
    /\ post = [id \in ActionIds |-> "none"]
    /\ ended = [id \in ActionIds |-> "none"]
    /\ failed = {} /\ late = {}

-----------------------------------------------------------------------------
(* OutputHub                                                               *)

Begin(id) ==
    /\ id \in toBegin
    /\ active' = id
    /\ toBegin' = toBegin \ {id}
    /\ UNCHANGED <<vars, toEnd, post, ended, failed, late>>

\* End compares and clears: the first of the two ends wins.
EndUncompared(id, kind) ==          \* mutant: no check that id is active
    /\ active' = None
    /\ ended' = [ended EXCEPT ![id] = kind]

End(id, kind) ==
    IF active = id
    THEN active' = None /\ ended' = [ended EXCEPT ![id] = kind]
    ELSE UNCHANGED <<active, ended>>

-----------------------------------------------------------------------------
(* Handlers that push                                                      *)

PushThenBegin(t) ==
    /\ AdminPush(t)
    /\ toBegin' = toBegin \cup {issued'}
    /\ UNCHANGED <<active, toEnd, post, ended, failed, late>>

-----------------------------------------------------------------------------
(* handleCompanionResult: record, end, then push the swap                  *)

RecordThenEnd(id) ==
    /\ RecordResult(id)
    /\ toEnd' = toEnd \cup {id}
    /\ UNCHANGED <<active, toBegin, post, ended, failed, late>>

EndDone(id) ==
    /\ id \in toEnd
    /\ End(id, "done")
    /\ toEnd' = toEnd \ {id}
    /\ late' = IF id \in toBegin THEN late \cup {id} ELSE late
    /\ UNCHANGED <<vars, toBegin, post, failed>>

PushSwapThenBegin(id) ==
    /\ id \notin toEnd
    /\ PushSwap(id)
    /\ toBegin' = IF issued' = issued THEN toBegin ELSE toBegin \cup {issued'}
    /\ UNCHANGED <<active, toEnd, post, ended, failed, late>>

-----------------------------------------------------------------------------
(* StreamOutput and handleCompanionOutput                                  *)

\* The client opens the POST when it starts the action.
OpenPost(id) ==
    /\ act[id].stage = "exec"
    /\ post[id] = "none"
    /\ post' = [post EXCEPT ![id] = "open"]
    /\ UNCHANGED <<vars, active, toBegin, toEnd, ended, failed, late>>

IsPending(id) == pending = id \/ agentPending = id

\* The handler accepts the POST of an in-flight action and refuses the others.
AcceptPost(id) ==
    /\ post[id] = "open"
    /\ post' = [post EXCEPT ![id] = IF IsPending(id) THEN "accepted" ELSE "closed"]
    /\ UNCHANGED <<vars, active, toBegin, toEnd, ended, failed, late>>

\* The client reports before it closes the sink, so the result's handler has
\* returned when the POST ends -- unless the report was lost.
ReportedEarly(id) ==                \* mutant: the sink closed first
    act[id].stage \in {"posted", "staged", "over"} /\ id \notin toEnd

Reported(id) == act[id].stage = "over" /\ id \notin toEnd

EndPost(id) ==
    /\ post[id] = "accepted"
    /\ post' = [post EXCEPT ![id] = "closed"]
    /\ End(id, "disconnected")
    /\ UNCHANGED <<vars, toBegin, toEnd, late>>

ClosePost(id) == Reported(id) /\ EndPost(id) /\ UNCHANGED failed

\* The POST's connection fails.
CutPost(id) == EndPost(id) /\ failed' = failed \cup {id}

-----------------------------------------------------------------------------
(* The other steps of the hub                                              *)

\* The end of a stream does not touch OutputHub.
Streaming(step) == step /\ UNCHANGED outVars

\* An action may be lost with its client or its report.
Losing(step) ==
    /\ step
    /\ failed' = failed \cup {id \in ActionIds :
                     act[id].stage # "over" /\ act'[id].stage = "over"}
    /\ UNCHANGED <<active, toBegin, toEnd, post, ended, late>>

\* A restart of the aggregator loses its handlers and both hubs.
RestartAll ==
    /\ Restart
    /\ active' = None /\ toBegin' = {} /\ toEnd' = {}
    /\ post' = [id \in ActionIds |-> IF post[id] = "none" THEN "none" ELSE "closed"]
    /\ failed' = failed \cup 1..issued
    /\ UNCHANGED <<ended, late>>

OutNext ==
    \/ \E t \in ActionTypes : PushThenBegin(t)
    \/ \E id \in ActionIds :
        \/ Begin(id) \/ RecordThenEnd(id) \/ EndDone(id) \/ PushSwapThenBegin(id)
        \/ OpenPost(id) \/ AcceptPost(id) \/ ClosePost(id) \/ CutPost(id)
        \/ Losing(Report(id))
    \/ \E c \in Conns :
        Streaming(Connect(c) \/ Forward(c) \/ Disconnect(c) \/ Dial(c))
    \/ \E k \in Kinds :
        Streaming(Receive(k)) \/ Losing(Drop(k)) \/ Losing(Crash(k))
    \/ RestartAll

OutSpec == OutInit /\ [][OutNext]_allVars

-----------------------------------------------------------------------------
(* Properties                                                              *)

\* The browsers are told once how an action ended: whichever of its result
\* and the end of its output POST comes first wins, and the other one never
\* overwrites it.
EndsOnce ==
    [][\A id \in ActionIds : ended[id] # "none" => ended'[id] = ended[id]]_allVars

\* An action is shown as disconnected only if its client, its POST or its
\* report was lost, or its whole life was over before its Begin: the order in
\* which its result and the end of its POST are handled does not matter.
DisconnectedHasCause ==
    \A id \in ActionIds : ended[id] = "disconnected" => id \in failed \cup late

-----------------------------------------------------------------------------
(* What the comments say and the code does not do                          *)

\* output.go, End: "a normal success's clean stream-close must never show as
\* disconnected after handleCompanionResult already recorded done".
CleanCloseIsDone ==
    \A id \in ActionIds : ended[id] = "disconnected" => id \in failed
=============================================================================
