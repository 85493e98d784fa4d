-------------------------- MODULE LiveOutputProofs --------------------------
(***************************************************************************)
(* Proofs about LiveOutput for every number of connections, actions and    *)
(* every channel capacity: the composition still is the hub, with all that *)
(* CompanionHubProofs proves of it; the browsers are told once how an      *)
(* action ended; and "disconnected" always has one of the known causes.    *)
(***************************************************************************)
EXTENDS LiveOutput, CompanionHubProofs

-----------------------------------------------------------------------------
(* The composition is the hub                                              *)

\* A step of the composition is one of the hub's, or leaves the hub alone.
LEMMA HubStep == [OutNext]_allVars => [Next]_vars
<1> SUFFICES ASSUME [OutNext]_allVars PROVE [Next]_vars
  OBVIOUS
<1>1. ASSUME NEW t \in ActionTypes, PushThenBegin(t) PROVE Next
  BY <1>1 DEF PushThenBegin, Next
<1>2. ASSUME NEW id \in ActionIds,
             RecordThenEnd(id) \/ PushSwapThenBegin(id) \/ Losing(Report(id))
      PROVE  Next
  BY <1>2 DEF RecordThenEnd, PushSwapThenBegin, Losing, Next
<1>3. ASSUME NEW id \in ActionIds,
             \/ Begin(id) \/ EndDone(id) \/ OpenPost(id) \/ AcceptPost(id)
             \/ ClosePost(id) \/ CutPost(id)
      PROVE  UNCHANGED vars
  BY <1>3 DEF Begin, EndDone, OpenPost, AcceptPost, ClosePost, CutPost, EndPost
<1>4. ASSUME NEW c \in Conns, Streaming(Connect(c) \/ Forward(c) \/ Disconnect(c) \/ Dial(c))
      PROVE  Next
  BY <1>4 DEF Streaming, Next
<1>5. ASSUME NEW k \in Kinds, Streaming(Receive(k)) \/ Losing(Drop(k)) \/ Losing(Crash(k))
      PROVE  Next
  BY <1>5 DEF Streaming, Losing, Next
<1>6. CASE RestartAll
  BY <1>6 DEF RestartAll, Next
<1>7. CASE UNCHANGED allVars
  BY <1>7 DEF allVars
<1> QED
  BY <1>1, <1>2, <1>3, <1>4, <1>5, <1>6, <1>7 DEF OutNext

\* With its live views beside it the hub behaves as it does alone: whatever holds of
\* CompanionHub holds of the composition.
THEOREM HubInside == OutSpec => Spec
<1>1. OutInit => Init
  BY DEF OutInit
<1> QED
  BY <1>1, HubStep, PTL DEF OutSpec, Spec

\* So at most one action is in flight at a companion here too, as SingleFlight says
\* (CompanionHub.Push, handleCompanionResult).
THEOREM OneFlightBesideViews == OutSpec => ImplementsSingleFlight
  BY HubInside, RefinesSingleFlight, PTL

-----------------------------------------------------------------------------
(* How an action ended                                                     *)

OutTypes ==
    /\ active \in ActionIds \cup {None}
    /\ toBegin \subseteq ActionIds /\ toEnd \subseteq ActionIds
    /\ post \in [ActionIds -> Posts] /\ ended \in [ActionIds -> Ends]

\* Of an action that has not been pushed there is nothing yet.
NothingUnissued ==
    \A id \in ActionIds :
        id > issued => /\ act[id].stage = "new" /\ ended[id] = "none"
                       /\ id \notin toBegin /\ active # id

\* An action with an output POST has reached its client.
PostHasClient ==
    \A id \in ActionIds : post[id] # "none" => act[id].stage \notin {"new", "queued", "wire"}

\* A view that has been ended neither runs nor is to begin.
EndedIsOver ==
    \A id \in ActionIds : ended[id] # "none" => active # id /\ id \notin toBegin

\* Begin is called once for an action.
ActiveHasBegun == active \notin toBegin

\* An action that is over, and of which neither client, POST nor report was lost, was
\* recorded; once the End that follows has run, its view is over and not to begin.
OverIsEnded ==
    \A id \in ActionIds :
        post[id] # "none" /\ act[id].stage \in {"over", "swapdue"}
            /\ id \notin toEnd \cup failed \cup late
        => active # id /\ id \notin toBegin

\* The inductive invariant.  ClosePost may show an action as disconnected only if it
\* is active when OverIsEnded says it is not.
OutInv ==
    /\ TypeOK
    /\ OutTypes
    /\ NothingUnissued
    /\ PostHasClient
    /\ EndedIsOver
    /\ ActiveHasBegun
    /\ OverIsEnded
    /\ DisconnectedHasCause

LEMMA InitOut == OutInit => OutInv
<1> SUFFICES ASSUME OutInit PROVE OutInv
  OBVIOUS
<1>1. Init /\ TypeOK
  BY InitIInv DEF OutInit, IInv
<1>2. OutTypes
  BY DEF OutInit, OutTypes, Posts, Ends
<1>3. \A id \in ActionIds : act[id].stage = "new" /\ id # None
  BY <1>1 DEF Init, New, ActionIds, None
<1> QED
  BY <1>1, <1>2, <1>3 DEF OutInit, OutInv, NothingUnissued, PostHasClient, EndedIsOver,
     ActiveHasBegun, OverIsEnded, DisconnectedHasCause

\* A step that leaves the views alone and moves no action that has a POST to its end.
LEMMA QuietOut ==
    ASSUME OutInv, TypeOK', UNCHANGED outVars, issued' = issued,
           \A id \in ActionIds : \/ act'[id].stage = act[id].stage
                                 \/ /\ act[id].stage \in {"queued", "wire"}
                                    /\ act'[id].stage # "new"
    PROVE  OutInv'
<1> USE DEF outVars
<1>1. OutTypes' /\ EndedIsOver' /\ ActiveHasBegun' /\ DisconnectedHasCause'
  BY DEF OutInv, OutTypes, EndedIsOver, ActiveHasBegun, DisconnectedHasCause
<1>2. NothingUnissued'
  BY DEF OutInv, NothingUnissued
<1>3. \A id \in ActionIds : post[id] # "none" => act'[id].stage = act[id].stage
  BY DEF OutInv, PostHasClient
<1>4. PostHasClient' /\ OverIsEnded'
  BY <1>3 DEF OutInv, PostHasClient, OverIsEnded
<1> QED
  BY <1>1, <1>2, <1>4 DEF OutInv

\* A step that may lose actions, and counts those it loses as failed.
LEMMA LosingOut ==
    ASSUME OutInv, TypeOK', UNCHANGED <<active, toBegin, toEnd, post, ended, late, issued>>,
           failed' = failed \cup {id \in ActionIds :
                                     act[id].stage # "over" /\ act'[id].stage = "over"},
           \A id \in ActionIds : \/ act'[id].stage = act[id].stage
                                 \/ /\ act[id].stage \in {"wire", "exec"}
                                    /\ act'[id].stage \in {"posted", "staged", "over"}
    PROVE  OutInv'
<1>1. OutTypes' /\ EndedIsOver' /\ ActiveHasBegun' /\ DisconnectedHasCause'
  BY DEF OutInv, OutTypes, EndedIsOver, ActiveHasBegun, DisconnectedHasCause
<1>2. NothingUnissued' /\ PostHasClient'
  BY DEF OutInv, NothingUnissued, PostHasClient
<1>3. OverIsEnded'
  BY DEF OutInv, OverIsEnded
<1> QED
  BY <1>1, <1>2, <1>3 DEF OutInv

\* A push: the new action is queued, another handler's may be over.
LEMMA PushOut ==
    ASSUME OutInv, TypeOK', NEW t \in ActionTypes, NEW gone \in SUBSET ActionIds,
           \A id \in gone : act[id].stage = "swapdue",
           Push(t, gone), toBegin' = toBegin \cup {issued'},
           UNCHANGED <<active, toEnd, post, ended, failed, late>>
    PROVE  OutInv'
<1> DEFINE new == issued + 1
<1>1. /\ issued' = new /\ new \in ActionIds /\ new > issued
      /\ \E c : act' = Enqueue(new, t, c, gone)
  BY DEF Push, SlotAccepts, OutInv, TypeOK, ActionIds
<1>2. /\ act'[new].stage = "queued"
      /\ \A id \in ActionIds \ {new} :
            act'[id].stage = act[id].stage \/ (act[id].stage = "swapdue" /\ act'[id].stage = "over")
  BY <1>1 DEF Enqueue, Discard, Over
<1>3. /\ act[new].stage = "new" /\ ended[new] = "none" /\ active # new /\ post[new] = "none"
  BY <1>1 DEF OutInv, NothingUnissued, PostHasClient
<1>4. toBegin' = toBegin \cup {new}
  BY <1>1
<1>5. OutTypes' /\ DisconnectedHasCause'
  BY <1>1, <1>4 DEF OutInv, OutTypes, DisconnectedHasCause
<1>6. NothingUnissued'
  <2>1. \A id \in ActionIds : id > new => id > issued /\ id # new
    BY DEF OutInv, TypeOK, ActionIds
  <2> QED
    BY <1>1, <1>2, <1>4, <2>1 DEF OutInv, NothingUnissued
<1>7. EndedIsOver' /\ ActiveHasBegun'
  BY <1>3, <1>4 DEF OutInv, EndedIsOver, ActiveHasBegun
<1>8. PostHasClient' /\ OverIsEnded'
  BY <1>2, <1>3, <1>4 DEF OutInv, PostHasClient, OverIsEnded
<1> QED
  BY <1>5, <1>6, <1>7, <1>8 DEF OutInv

LEMMA OutStep == OutInv /\ [OutNext]_allVars => OutInv'
<1> SUFFICES ASSUME OutInv, [OutNext]_allVars PROVE OutInv'
  OBVIOUS
<1>0. TypeOK /\ TypeOK' /\ \A id \in ActionIds : id # None
  BY HubStep, TypeStep DEF OutInv, ActionIds, None
<1>1. ASSUME NEW t \in ActionTypes, PushThenBegin(t) PROVE OutInv'
  BY <1>0, <1>1, PushOut DEF PushThenBegin, AdminPush
<1>2. ASSUME NEW id \in ActionIds, PushSwapThenBegin(id) PROVE OutInv'
  <2>1. /\ id \notin toEnd /\ act[id].stage = "swapdue"
        /\ UNCHANGED <<active, toEnd, post, ended, failed, late>>
    BY <1>2 DEF PushSwapThenBegin, PushSwap
  <2>2. CASE Push("swap", {id})
    <3>1. issued' = issued + 1 /\ issued' # issued
      BY <1>0, <2>2 DEF Push, TypeOK
    <3>2. toBegin' = toBegin \cup {issued'}
      BY <1>2, <3>1 DEF PushSwapThenBegin
    <3>3. "swap" \in ActionTypes /\ {id} \in SUBSET ActionIds
      BY DEF ActionTypes
    <3> QED
      BY <1>0, <2>1, <2>2, <3>2, <3>3, PushOut
  <2>3. CASE act' = [act EXCEPT ![id] = Over] /\ issued' = issued
    <3>1. toBegin' = toBegin
      BY <1>2, <2>3 DEF PushSwapThenBegin
    <3>2. /\ act'[id].stage = "over"
          /\ \A x \in ActionIds \ {id} : act'[x] = act[x]
      BY <1>0, <2>3 DEF TypeOK, Over
    <3>3. OutTypes' /\ EndedIsOver' /\ ActiveHasBegun' /\ DisconnectedHasCause'
      BY <2>1, <3>1 DEF OutInv, OutTypes, EndedIsOver, ActiveHasBegun, DisconnectedHasCause
    <3>4. NothingUnissued' /\ PostHasClient' /\ OverIsEnded'
      BY <2>1, <2>3, <3>1, <3>2 DEF OutInv, NothingUnissued, PostHasClient, OverIsEnded
    <3> QED
      BY <1>0, <3>3, <3>4 DEF OutInv
  <2> QED
    BY <1>2, <2>2, <2>3 DEF PushSwapThenBegin, PushSwap
<1>3. ASSUME NEW id \in ActionIds, Begin(id) PROVE OutInv'
  <2>1. id \in toBegin /\ active' = id /\ toBegin' = toBegin \ {id}
        /\ UNCHANGED <<vars, toEnd, post, ended, failed, late>>
    BY <1>3 DEF Begin
  <2> QED
    BY <1>0, <2>1 DEF vars, OutInv, OutTypes, NothingUnissued, PostHasClient, EndedIsOver,
       ActiveHasBegun, OverIsEnded, DisconnectedHasCause
<1>4. ASSUME NEW id \in ActionIds, RecordThenEnd(id) PROVE OutInv'
  <2>1. /\ act[id].stage \in {"posted", "staged"} /\ issued' = issued
        /\ toEnd' = toEnd \cup {id}
        /\ UNCHANGED <<active, toBegin, post, ended, failed, late>>
    BY <1>4 DEF RecordThenEnd, RecordResult
  <2>2. /\ act'[id].stage \in {"over", "swapdue"}
        /\ \A x \in ActionIds \ {id} : act'[x] = act[x]
    BY <1>0, <1>4 DEF RecordThenEnd, RecordResult, MarkerAfter, TypeOK, Over
  <2>3. OutTypes' /\ EndedIsOver' /\ ActiveHasBegun' /\ DisconnectedHasCause'
    BY <2>1 DEF OutInv, OutTypes, EndedIsOver, ActiveHasBegun, DisconnectedHasCause
  <2>4. NothingUnissued' /\ PostHasClient' /\ OverIsEnded'
    BY <2>1, <2>2 DEF OutInv, NothingUnissued, PostHasClient, OverIsEnded
  <2> QED
    BY <1>0, <2>3, <2>4 DEF OutInv
<1>5. ASSUME NEW id \in ActionIds, EndDone(id) PROVE OutInv'
  <2>1. /\ toEnd' = toEnd \ {id} /\ UNCHANGED <<vars, toBegin, post, failed>>
        /\ late' = IF id \in toBegin THEN late \cup {id} ELSE late
        /\ End(id, "done")
    BY <1>5 DEF EndDone
  <2>2. /\ active' = IF active = id THEN None ELSE active
        /\ ended' = IF active = id THEN [ended EXCEPT ![id] = "done"] ELSE ended
    BY <2>1 DEF End
  <2>3. /\ \A x \in ActionIds : active' = x => active = x /\ x # id
        /\ \A x \in ActionIds : ended'[x] # ended[x] => x = id /\ active = id /\ ended'[x] = "done"
    BY <1>0, <2>2 DEF OutInv, OutTypes
  <2>4. OutTypes'
    BY <2>1, <2>2 DEF OutInv, OutTypes, Ends
  <2>5. NothingUnissued' /\ PostHasClient' /\ DisconnectedHasCause'
    BY <2>1, <2>3 DEF vars, OutInv, NothingUnissued, PostHasClient, DisconnectedHasCause
  <2>6. EndedIsOver' /\ ActiveHasBegun'
    <3>1. active' = active \/ active' = None
      BY <2>2
    <3>2. None \notin toBegin
      BY <1>0 DEF OutInv, OutTypes
    <3> QED
      BY <2>1, <2>3, <3>1, <3>2 DEF vars, OutInv, EndedIsOver, ActiveHasBegun
  <2>7. OverIsEnded'
    BY <2>1, <2>3 DEF vars, OutInv, OverIsEnded
  <2> QED
    BY <1>0, <2>4, <2>5, <2>6, <2>7 DEF OutInv
<1>6. ASSUME NEW id \in ActionIds, OpenPost(id) PROVE OutInv'
  <2>1. /\ act[id].stage = "exec" /\ post' = [post EXCEPT ![id] = "open"]
        /\ UNCHANGED <<vars, active, toBegin, toEnd, ended, failed, late>>
    BY <1>6 DEF OpenPost
  <2>2. OutTypes'
    BY <2>1 DEF OutInv, OutTypes, Posts
  <2>3. \A x \in ActionIds \ {id} : post'[x] = post[x]
    BY <2>1 DEF OutInv, OutTypes
  <2> QED
    BY <1>0, <2>1, <2>2, <2>3 DEF vars, OutInv, NothingUnissued, PostHasClient, EndedIsOver,
       ActiveHasBegun, OverIsEnded, DisconnectedHasCause
<1>7. ASSUME NEW id \in ActionIds, AcceptPost(id) PROVE OutInv'
  <2>1. /\ post[id] = "open" /\ UNCHANGED <<vars, active, toBegin, toEnd, ended, failed, late>>
        /\ post' = [post EXCEPT ![id] = IF IsPending(id) THEN "accepted" ELSE "closed"]
    BY <1>7 DEF AcceptPost
  <2>2. OutTypes' /\ \A x \in ActionIds : post'[x] # "none" => post[x] # "none"
    BY <2>1 DEF OutInv, OutTypes, Posts
  <2> QED
    BY <1>0, <2>1, <2>2 DEF vars, OutInv, NothingUnissued, PostHasClient, EndedIsOver,
       ActiveHasBegun, OverIsEnded, DisconnectedHasCause
<1>8. ASSUME NEW id \in ActionIds, ClosePost(id) \/ CutPost(id) PROVE OutInv'
  <2>1. /\ post[id] = "accepted" /\ UNCHANGED <<vars, toBegin, toEnd, late>>
        /\ post' = [post EXCEPT ![id] = "closed"]
        /\ End(id, "disconnected")
    BY <1>8 DEF ClosePost, CutPost, EndPost
  <2>2. /\ active' = IF active = id THEN None ELSE active
        /\ ended' = IF active = id THEN [ended EXCEPT ![id] = "disconnected"] ELSE ended
    BY <2>1 DEF End
  <2>3. /\ \A x \in ActionIds : active' = x => active = x /\ x # id
        /\ \A x \in ActionIds : ended'[x] # ended[x] => x = id /\ active = id
    BY <1>0, <2>2 DEF OutInv, OutTypes
  <2>4. OutTypes' /\ \A x \in ActionIds : post'[x] # "none" => post[x] # "none"
    BY <2>1, <2>2 DEF OutInv, OutTypes, Ends, Posts
  \* What ends the view is a lost POST, or a report whose handler has not ended it.
  <2>5. failed \subseteq failed' /\ (active = id => id \in failed' \cup late')
    <3>1. CASE ClosePost(id)
      BY <2>1, <3>1 DEF ClosePost, Reported, OutInv, OverIsEnded, ActiveHasBegun
    <3>2. CASE CutPost(id)
      BY <3>2 DEF CutPost
    <3> QED
      BY <1>8, <3>1, <3>2
  <2>6. NothingUnissued' /\ PostHasClient'
    BY <2>1, <2>3, <2>4 DEF vars, OutInv, NothingUnissued, PostHasClient
  <2>7. DisconnectedHasCause'
    BY <2>1, <2>3, <2>5 DEF OutInv, DisconnectedHasCause
  <2>8. EndedIsOver' /\ ActiveHasBegun'
    <3>1. active' = active \/ active' = None
      BY <2>2
    <3>2. None \notin toBegin
      BY <1>0 DEF OutInv, OutTypes
    <3> QED
      BY <2>1, <2>3, <3>1, <3>2 DEF vars, OutInv, EndedIsOver, ActiveHasBegun
  <2>9. OverIsEnded'
    BY <2>1, <2>3, <2>4, <2>5 DEF vars, OutInv, OverIsEnded
  <2> QED
    BY <1>0, <2>4, <2>6, <2>7, <2>8, <2>9 DEF OutInv
<1>9. ASSUME NEW id \in ActionIds, Losing(Report(id)) PROVE OutInv'
  <2>1. \A x \in ActionIds :
           \/ act'[x].stage = act[x].stage
           \/ act[x].stage = "exec" /\ act'[x].stage \in {"posted", "staged", "over"}
    BY <1>0, <1>9 DEF Losing, Report, TypeOK, Action, Over
  <2> QED
    BY <1>0, <1>9, <2>1, LosingOut DEF Losing, Report
<1>10. ASSUME NEW k \in Kinds, Losing(Drop(k)) \/ Losing(Crash(k)) PROVE OutInv'
  <2>1. \A x \in ActionIds :
           \/ act'[x].stage = act[x].stage
           \/ act[x].stage \in {"wire", "exec"} /\ act'[x].stage \in {"posted", "staged", "over"}
    BY <1>0, <1>10 DEF Losing, Drop, Crash, Discard, At, Over
  <2> QED
    BY <1>0, <1>10, <2>1, LosingOut DEF Losing, Drop, Crash
<1>11. ASSUME NEW c \in Conns, Streaming(Connect(c) \/ Forward(c) \/ Disconnect(c) \/ Dial(c))
       PROVE  OutInv'
  <2>1. /\ issued' = issued
        /\ \A x \in ActionIds : \/ act'[x].stage = act[x].stage
                                \/ act[x].stage = "queued" /\ act'[x].stage # "new"
    <3>1. CASE Connect(c) \/ Dial(c)
      BY <3>1 DEF Connect, Dial
    <3>2. CASE Forward(c)
      BY <1>0, <3>2 DEF Forward, IsOldest, At, TypeOK, Action, Over
    <3>3. CASE Disconnect(c)
      BY <1>0, <3>3 DEF Disconnect, Discard, At, Over
    <3> QED
      BY <1>11, <3>1, <3>2, <3>3 DEF Streaming
  <2> QED
    BY <1>0, <1>11, <2>1, QuietOut DEF Streaming
<1>12. ASSUME NEW k \in Kinds, Streaming(Receive(k)) PROVE OutInv'
  <2>1. /\ issued' = issued
        /\ \A x \in ActionIds : \/ act'[x].stage = act[x].stage
                                \/ act[x].stage = "wire" /\ act'[x].stage # "new"
    BY <1>0, <1>12 DEF Streaming, Receive, IsOldest, At, TypeOK, Action
  <2> QED
    BY <1>0, <1>12, <2>1, QuietOut DEF Streaming
<1>13. CASE RestartAll
  <2>1. /\ active' = None /\ toBegin' = {} /\ toEnd' = {} /\ UNCHANGED <<ended, late, issued>>
        /\ failed' = failed \cup 1..issued
        /\ post' = [id \in ActionIds |-> IF post[id] = "none" THEN "none" ELSE "closed"]
    BY <1>13 DEF RestartAll, Restart
  <2>2. \A x \in ActionIds :
           \/ act'[x].stage = act[x].stage
           \/ act[x].stage \in {"queued", "swapdue"} /\ act'[x].stage = "over"
    BY <1>0, <1>13 DEF RestartAll, Restart, Discard, Over
  <2>3. \A x \in ActionIds : x > issued \/ x \in failed'
    BY <1>0, <2>1 DEF TypeOK, ActionIds
  <2>4. OutTypes' /\ \A x \in ActionIds : post'[x] # "none" => post[x] # "none"
    BY <2>1 DEF OutInv, OutTypes, Posts
  <2>5. NothingUnissued' /\ PostHasClient' /\ EndedIsOver' /\ ActiveHasBegun' /\ DisconnectedHasCause'
    BY <1>0, <2>1, <2>2, <2>4 DEF OutInv, NothingUnissued, PostHasClient, EndedIsOver,
       ActiveHasBegun, DisconnectedHasCause
  <2>6. OverIsEnded'
    BY <1>0, <2>1 DEF OverIsEnded
  <2> QED
    BY <1>0, <2>4, <2>5, <2>6 DEF OutInv
<1>14. CASE UNCHANGED allVars
  BY <1>0, <1>14, QuietOut DEF allVars, vars
<1> QED
  BY <1>1, <1>2, <1>3, <1>4, <1>5, <1>6, <1>7, <1>8, <1>9, <1>10, <1>11, <1>12, <1>13,
     <1>14 DEF OutNext

LEMMA OutIsInv == OutSpec => []OutInv
  BY InitOut, OutStep, PTL DEF OutSpec

\* An action is shown as disconnected only if its client, its POST or its report was
\* lost, or its whole life was over before its Begin (OutputHub.End, called by
\* handleCompanionResult and handleCompanionOutput in whichever order).
THEOREM DisconnectsAreCaused == OutSpec => []DisconnectedHasCause
<1>1. OutInv => DisconnectedHasCause
  BY DEF OutInv
<1> QED
  BY <1>1, OutIsInv, PTL

\* The browsers are told once how an action ended: the first of its result and the end
\* of its output POST wins, and the other never overwrites it (OutputHub.End).
THEOREM FirstEndWins == OutSpec => EndsOnce
<1>1. OutInv /\ [OutNext]_allVars
        => [\A id \in ActionIds : ended[id] # "none" => ended'[id] = ended[id]]_allVars
  <2> SUFFICES ASSUME OutInv, OutNext, NEW x \in ActionIds, ended[x] # "none"
               PROVE  ended'[x] = ended[x]
    OBVIOUS
  <2>1. active # x
    BY DEF OutInv, EndedIsOver
  <2>2. ASSUME NEW id \in ActionIds, NEW kind, End(id, kind) PROVE ended'[x] = ended[x]
    BY <2>1, <2>2 DEF End, OutInv, OutTypes
  <2>3. ASSUME NEW id \in ActionIds, EndDone(id) \/ ClosePost(id) \/ CutPost(id)
        PROVE  ended'[x] = ended[x]
    BY <2>2, <2>3 DEF EndDone, ClosePost, CutPost, EndPost
  <2> QED
    BY <2>3 DEF OutNext, PushThenBegin, Begin, RecordThenEnd, PushSwapThenBegin, OpenPost,
       AcceptPost, Losing, Streaming, outVars, RestartAll
<1> QED
  BY <1>1, OutIsInv, PTL DEF OutSpec, EndsOnce
=============================================================================
