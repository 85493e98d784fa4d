------------------------- MODULE CompanionHubProofs -------------------------
(***************************************************************************)
(* Proofs about CompanionHub for every number of connections, actions and  *)
(* every channel capacity: its safety invariants, and that it implements   *)
(* SingleFlight.                                                           *)
(***************************************************************************)
EXTENDS CompanionHub, TLAPS

\* A stream request that has not been handled carries nothing and has not
\* been superseded.
DialingIsFresh ==
    \A c \in Conns : state[c] = "dialing" => Outstanding(c) = {} /\ ~closed[c]

\* A connection in a slot has been through Connect.
SlotsAreConnected ==
    \A c \in {streams, agentStreams} \ {NoConn} : state[c] # "dialing"

\* What the companion in the main slot has not ended is what pending names.
SlotActionIsPending ==
    streams \in CompanionConns => \A id \in Outstanding(streams) : pending = id

\* The inductive invariant.  OneActionPerCompanionStream needs
\* SlotActionIsPending (a Push to an unmarked slot finds an empty stream),
\* which needs MarkersHaveStreams and DialingIsFresh (a stream that takes the
\* slot is empty when the marker is cleared).
IInv ==
    /\ TypeOK
    /\ DialingIsFresh
    /\ SlotsAreConnected
    /\ SlotActionIsPending
    /\ OneActionPerCompanionStream
    /\ MarkersHaveStreams
    /\ SlotNotSuperseded
    /\ SlotsAreServed
    /\ OnlyCompanionsApply

-----------------------------------------------------------------------------
\* The initial state satisfies every conjunct.
LEMMA InitIInv == Init => IInv
<1> SUFFICES ASSUME Init PROVE IInv
  OBVIOUS
<1> USE HubAssumption DEF Init
<1>1. TypeOK
  <2>1. New \in Action
    BY DEF New, Action, Stages
  <2>2. closed \in [Conns -> BOOLEAN] /\ panicked \in BOOLEAN
    BY ZenonT(20)
  <2>3. /\ state \in [Conns -> {"gone", "dialing", "serving"}]
        /\ client \in [Kinds -> Conns \cup {NoConn}]
        /\ act \in [ActionIds -> Action]
        /\ issued \in 0..MaxActions
    BY <2>1
  <2> QED
    BY <2>2, <2>3 DEF TypeOK, None
<1>2. \A c \in Conns : Outstanding(c) = {}
  BY DEF Outstanding, At, New, Conns
<1>3. OnlyCompanionsApply
  BY DEF OnlyCompanionsApply, New
<1> QED
  BY <1>1, <1>2, <1>3 DEF IInv, DialingIsFresh, SlotsAreConnected,
     SlotActionIsPending, OneActionPerCompanionStream, MarkersHaveStreams,
     SlotNotSuperseded, SlotsAreServed, None, Conns

\* Variables keep their types.
LEMMA TypeStep == TypeOK /\ [Next]_vars => TypeOK'
<1> SUFFICES ASSUME TypeOK, [Next]_vars PROVE TypeOK'
  OBVIOUS
<1> USE HubAssumption DEF TypeOK, Conns, Kinds, KindOf, hubVars
<1>a. Over \in Action /\ [Over EXCEPT !.stage = "swapdue"] \in Action
  BY DEF Over, Action, Stages
<1>b. ASSUME NEW ids PROVE Discard(ids) \in [ActionIds -> Action]
  BY <1>a DEF Discard
<1>d. ASSUME NEW id \in ActionIds
      PROVE  /\ [act EXCEPT ![id].stage = "wire"] \in [ActionIds -> Action]
             /\ [act EXCEPT ![id].stage = "exec"] \in [ActionIds -> Action]
             /\ [act EXCEPT ![id].stage = "posted"] \in [ActionIds -> Action]
             /\ [act EXCEPT ![id].stage = "staged"] \in [ActionIds -> Action]
  BY DEF Action, Stages
<1>1. ASSUME NEW c \in Conns, Connect(c) PROVE TypeOK'
  <2>1. ASSUME NEW prev PROVE Supersede(prev) \in [Conns -> BOOLEAN]
    BY DEF Supersede
  <2>2. closed' \in [Conns -> BOOLEAN]
    BY <1>1, <2>1 DEF Connect, ConnectBesideCompanion, ConnectCompanion, ConnectAgent
  <2> QED
    BY <1>1, <2>2 DEF Connect, ConnectBesideCompanion, ConnectCompanion,
       ConnectAgent, Panic, Accept, TakeSlot, MayTakeSlot, None
<1>2. ASSUME NEW c \in Conns, Forward(c) PROVE TypeOK'
  <2>1. PICK id \in ActionIds :
          act' = [act EXCEPT ![id] =
                    IF client[KindOf(c)] = c THEN [@ EXCEPT !.stage = "wire"]
                                             ELSE Over]
    BY <1>2 DEF Forward
  <2>2. act' \in [ActionIds -> Action]
    BY <2>1, <1>a, <1>d
  <2> QED
    BY <2>2, <1>2 DEF Forward
<1>3. ASSUME NEW c \in Conns, Disconnect(c) PROVE TypeOK'
  BY <1>3, <1>b DEF Disconnect, LeaveSlot, LeaveAgentStreams, None
<1>4. ASSUME NEW t \in ActionTypes, NEW ended, Push(t, ended),
             UNCHANGED <<streams, agentStreams, closed, state, client, panicked>>
      PROVE TypeOK'
  <2>1. issued + 1 \in ActionIds /\ issued + 1 \in 0..MaxActions
    BY <1>4 DEF Push, SlotAccepts, ActionIds
  <2>2. ASSUME NEW c \in Conns
        PROVE  Enqueue(issued + 1, t, c, ended) \in [ActionIds -> Action]
    BY <2>1, <1>b DEF Enqueue, Action, Stages
  <2>3. act' \in [ActionIds -> Action]
    BY <1>4, <2>2 DEF Push, SlotAccepts, RoutedToAgent
  <2> QED
    BY <1>4, <2>1, <2>3 DEF Push, SlotAccepts
<1>5. ASSUME NEW id \in ActionIds, RecordResult(id) PROVE TypeOK'
  BY <1>5, <1>a DEF RecordResult, MarkerAfter, None
<1>6. ASSUME NEW id \in ActionIds, PushSwap(id) PROVE TypeOK'
  BY <1>6, <1>4, <1>a DEF PushSwap, ActionTypes
<1>7. ASSUME NEW id \in ActionIds, Report(id) PROVE TypeOK'
  <2>1. act' \in [ActionIds -> Action]
    <3>1. [act EXCEPT ![id] = Over] \in [ActionIds -> Action]
      BY <1>a
    <3> QED
      <4>1. \/ act' = [act EXCEPT ![id].stage = "posted"]
            \/ act' = [act EXCEPT ![id].stage = "staged"]
            \/ act' = [act EXCEPT ![id] = Over]
        BY <1>7 DEF Report
      <4> QED
        BY <1>d, <3>1, <4>1
  <2> QED
    BY <2>1, <1>7 DEF Report
<1>8. ASSUME NEW c \in Conns, Dial(c) PROVE TypeOK'
  BY <1>8 DEF Dial
<1>9. ASSUME NEW k \in Kinds, Receive(k) PROVE TypeOK'
  <2>1. PICK id \in ActionIds : act' = [act EXCEPT ![id].stage = "exec"]
    BY <1>9 DEF Receive
  <2>2. act' \in [ActionIds -> Action]
    BY <2>1, <1>d
  <2> QED
    BY <2>2, <1>9 DEF Receive
<1>10. ASSUME NEW k \in Kinds, Drop(k) \/ Crash(k) PROVE TypeOK'
  BY <1>10, <1>b DEF Drop, Crash
<1>11. CASE Restart
  BY <1>11, <1>b DEF Restart, None
<1>12. CASE UNCHANGED vars
  BY <1>12 DEF vars
<1> QED
  BY <1>1, <1>2, <1>3, <1>4, <1>5, <1>6, <1>7, <1>8, <1>9, <1>10, <1>11, <1>12
     DEF Next, AdminPush

\* Every variable keeps its type in every reachable state.
THEOREM TypeCorrect == Spec => []TypeOK
<1>1. Init => TypeOK
  BY InitIInv DEF IInv
<1> QED
  BY <1>1, TypeStep, PTL DEF Spec

-----------------------------------------------------------------------------
(* Every action but a push keeps what is outstanding or removes some of it. *)

Live == {"queued", "wire", "exec"}

KeepsActions ==
    \A id \in ActionIds :
        act'[id].stage \in Live => /\ act[id].stage \in Live
                                  /\ act'[id].via = act[id].via
                                  /\ act'[id].type = act[id].type

\* Discarding actions adds none.
LEMMA DiscardKeeps ==
    ASSUME NEW ids, act' = Discard(ids)
    PROVE  KeepsActions
  BY DEF KeepsActions, Discard, Over, Live

\* Neither does moving one action from a live stage to another stage.
LEMMA MoveKeeps ==
    ASSUME TypeOK, NEW id \in ActionIds, NEW st,
           act[id].stage \in Live \/ st \notin Live,
           act' = [act EXCEPT ![id].stage = st]
    PROVE  KeepsActions
  BY DEF TypeOK, Action, KeepsActions

\* Nor does ending one.
LEMMA EndKeeps ==
    ASSUME TypeOK, NEW id \in ActionIds,
           \/ act' = [act EXCEPT ![id] = Over]
           \/ act' = [act EXCEPT ![id] = [Over EXCEPT !.stage = "swapdue"]]
    PROVE  KeepsActions
  BY DEF TypeOK, Over, Live, KeepsActions

\* An action that keeps or removes actions lets no stream grow.
LEMMA KeepsShrinks ==
    ASSUME KeepsActions
    PROVE  \A c : Outstanding(c)' \subseteq Outstanding(c)
  BY DEF KeepsActions, Outstanding, At, Live

\* Only Push adds an outstanding action, and it changes no connection.
PushAlone ==
    \E t \in ActionTypes, ended \in SUBSET ActionIds :
        /\ Push(t, ended)
        /\ UNCHANGED <<streams, agentStreams, closed, state, client, panicked>>

LEMMA OnlyPushAdds ==
    ASSUME TypeOK, [Next]_vars, ~PushAlone
    PROVE  KeepsActions
<1>1. ASSUME UNCHANGED act PROVE KeepsActions
  BY <1>1 DEF KeepsActions
<1>2. ASSUME NEW c \in Conns, Forward(c) PROVE KeepsActions
  <2>1. PICK id \in ActionIds :
          /\ act[id].stage = "queued"
          /\ \/ act' = [act EXCEPT ![id] = [@ EXCEPT !.stage = "wire"]]
             \/ act' = [act EXCEPT ![id] = Over]
    BY <1>2 DEF Forward, IsOldest, At
  <2> QED
    BY <2>1, MoveKeeps, EndKeeps DEF Live
<1>3. ASSUME NEW id \in ActionIds, Report(id) PROVE KeepsActions
  <2>1. act[id].stage = "exec"
    BY <1>3 DEF Report
  <2>2. \/ act' = [act EXCEPT ![id].stage = "posted"]
        \/ act' = [act EXCEPT ![id].stage = "staged"]
        \/ act' = [act EXCEPT ![id] = Over]
    BY <1>3 DEF Report
  <2> QED
    BY <2>1, <2>2, MoveKeeps, EndKeeps DEF Live
<1>4. ASSUME NEW k \in Kinds, Receive(k) PROVE KeepsActions
  <2>1. PICK id \in ActionIds : /\ act[id].stage = "wire"
                                /\ act' = [act EXCEPT ![id].stage = "exec"]
    BY <1>4 DEF Receive, IsOldest, At
  <2> QED
    BY <2>1, MoveKeeps DEF Live
<1>5. ASSUME NEW id \in ActionIds, RecordResult(id) PROVE KeepsActions
  <2>1. \/ act' = [act EXCEPT ![id] = [Over EXCEPT !.stage = "swapdue"]]
        \/ act' = [act EXCEPT ![id] = Over]
    BY <1>5 DEF RecordResult, MarkerAfter, TypeOK
  <2> QED
    BY <2>1, EndKeeps
<1>6. ASSUME NEW id \in ActionIds, PushSwap(id) PROVE KeepsActions
  BY <1>6, EndKeeps DEF PushSwap, PushAlone, ActionTypes
<1>7. ASSUME NEW c \in Conns, Disconnect(c) PROVE KeepsActions
  BY <1>7, DiscardKeeps DEF Disconnect, LeaveSlot, LeaveAgentStreams
<1>8. ASSUME NEW k \in Kinds, Drop(k) \/ Crash(k) PROVE KeepsActions
  BY <1>8, DiscardKeeps DEF Drop, Crash
<1>9. ASSUME Restart PROVE KeepsActions
  BY <1>9, DiscardKeeps DEF Restart
<1>10. ASSUME NEW c \in Conns, Connect(c) \/ Dial(c) PROVE KeepsActions
  BY <1>10, <1>1 DEF Connect, Dial
<1> QED
  BY <1>1, <1>2, <1>3, <1>4, <1>5, <1>6, <1>7, <1>8, <1>9, <1>10
     DEF Next, AdminPush, PushAlone, vars

-----------------------------------------------------------------------------
(* The inductive step.                                                     *)

\* Connect: a dialling connection is empty and open, so the slot it takes
\* starts unmarked or, if unmarked already, empty.
LEMMA ConnectStep ==
    ASSUME IInv, NEW c \in Conns, Connect(c)
    PROVE  /\ DialingIsFresh' /\ SlotsAreConnected' /\ SlotActionIsPending'
           /\ OneActionPerCompanionStream' /\ MarkersHaveStreams'
           /\ SlotNotSuperseded' /\ SlotsAreServed' /\ OnlyCompanionsApply'
<1> USE HubAssumption DEF IInv, Conns, KindOf
<1>1. /\ state[c] = "dialing" /\ c # streams /\ c # agentStreams /\ c # NoConn
      /\ Outstanding(c) = {} /\ ~closed[c]
  BY DEF Connect, SlotsAreConnected, DialingIsFresh
<1>2. \A d : Outstanding(d)' = Outstanding(d)
  BY DEF Connect, Outstanding, At
<1>3. OneActionPerCompanionStream' /\ OnlyCompanionsApply'
  BY <1>2 DEF Connect, OneActionPerCompanionStream, OnlyCompanionsApply
<1>4. /\ \A d \in Conns \ {c} : state'[d] = state[d]
      /\ \A d \in Conns : closed'[d] => closed[d] \/ d \in {streams, agentStreams}
      /\ state'[c] \in {"serving", "gone"}
      /\ ~panicked' => state'[c] = "serving" /\ ~panicked
      /\ streams' \in {streams, c} /\ agentStreams' \in {agentStreams, c}
  BY <1>1 DEF TypeOK, Connect, ConnectBesideCompanion, ConnectCompanion,
     ConnectAgent, TakeSlot, MayTakeSlot, Supersede, Accept, Panic, hubVars
<1>5. DialingIsFresh'
  BY <1>2, <1>4 DEF DialingIsFresh, SlotsAreConnected, TypeOK
<1>6. SlotsAreConnected'
  BY <1>4 DEF SlotsAreConnected, TypeOK
<1>7. SlotsAreServed'
  BY <1>4 DEF SlotsAreServed, TypeOK
<1>8. SlotActionIsPending'
  BY <1>1, <1>2 DEF SlotActionIsPending, Connect, ConnectBesideCompanion,
     ConnectCompanion, ConnectAgent, TakeSlot, MayTakeSlot, Supersede, hubVars
<1>9. MarkersHaveStreams'
  BY <1>1 DEF MarkersHaveStreams, TypeOK, Connect, ConnectBesideCompanion,
     ConnectCompanion, ConnectAgent, TakeSlot, MayTakeSlot, Supersede, hubVars
<1>10. SlotNotSuperseded'
  BY <1>1 DEF SlotNotSuperseded, TypeOK, Connect, ConnectBesideCompanion,
     ConnectCompanion, ConnectAgent, TakeSlot, MayTakeSlot, Supersede, hubVars
<1> QED
  BY <1>3, <1>5, <1>6, <1>7, <1>8, <1>9, <1>10

\* Push: the stream of an unmarked slot is empty.
LEMMA PushStep ==
    ASSUME IInv, NEW t \in ActionTypes, NEW ended, Push(t, ended),
           UNCHANGED <<streams, agentStreams, closed, state, client, panicked>>
    PROVE  /\ DialingIsFresh' /\ SlotsAreConnected' /\ SlotActionIsPending'
           /\ OneActionPerCompanionStream' /\ MarkersHaveStreams'
           /\ SlotNotSuperseded' /\ SlotsAreServed' /\ OnlyCompanionsApply'
<1> USE HubAssumption DEF IInv, Conns, KindOf
<1> DEFINE new == issued + 1
           target == IF RoutedToAgent(t) THEN agentStreams ELSE streams
<1>1. new \in ActionIds /\ new # None
  BY DEF Push, SlotAccepts, ActionIds, None, TypeOK
<1>2. /\ target \in Conns /\ state[target] # "dialing"
      /\ act' = Enqueue(new, t, target, ended)
  BY DEF Push, SlotAccepts, RoutedToAgent, TypeOK, SlotsAreConnected
<1>3. \A d : Outstanding(d)' \subseteq Outstanding(d) \cup (IF d = target THEN {new} ELSE {})
  BY <1>2 DEF Outstanding, At, Enqueue, Discard, Over
<1>4. target \in CompanionConns => /\ Outstanding(target) = {}
                                   /\ pending' = new /\ streams = target
  BY DEF Push, SlotAccepts, RoutedToAgent, TypeOK, SlotActionIsPending, Outstanding, At, ActionIds, None
<1>5. DialingIsFresh' /\ SlotsAreConnected' /\ SlotNotSuperseded' /\ SlotsAreServed'
  BY <1>2, <1>3 DEF DialingIsFresh, SlotsAreConnected, SlotNotSuperseded, SlotsAreServed
<1>6. OneActionPerCompanionStream'
  BY <1>3, <1>4 DEF OneActionPerCompanionStream
<1>7. SlotActionIsPending'
  BY <1>3, <1>4 DEF SlotActionIsPending, Push, SlotAccepts, RoutedToAgent, TypeOK
<1>8. MarkersHaveStreams'
  BY DEF MarkersHaveStreams, Push, SlotAccepts, RoutedToAgent
<1>9. OnlyCompanionsApply'
  BY <1>1, <1>2 DEF OnlyCompanionsApply, Enqueue, Discard, Over, Push, SlotAccepts, RoutedToAgent, TypeOK
<1> QED
  BY <1>5, <1>6, <1>7, <1>8, <1>9

\* Every step preserves the inductive invariant.
LEMMA IInvStep == IInv /\ [Next]_vars => IInv'
<1> SUFFICES ASSUME IInv, [Next]_vars PROVE IInv'
  OBVIOUS
<1> DEFINE Rest == /\ DialingIsFresh' /\ SlotsAreConnected' /\ SlotActionIsPending'
                   /\ OneActionPerCompanionStream' /\ MarkersHaveStreams'
                   /\ SlotNotSuperseded' /\ SlotsAreServed' /\ OnlyCompanionsApply'
<1>0. TypeOK'
  BY TypeStep DEF IInv
<1>1. ASSUME NEW c \in Conns, Connect(c) PROVE Rest
  BY <1>1, ConnectStep
<1>2. ASSUME NEW t \in ActionTypes, NEW ended, Push(t, ended),
             UNCHANGED <<streams, agentStreams, closed, state, client, panicked>>
      PROVE  Rest
  BY <1>2, PushStep
<1>3. ASSUME KeepsActions PROVE Rest
  <2> USE <1>3, HubAssumption DEF IInv, Conns, KindOf
  <2>a. /\ \A c : Outstanding(c)' \subseteq Outstanding(c)
        /\ OneActionPerCompanionStream' /\ OnlyCompanionsApply'
    BY KeepsShrinks DEF OneActionPerCompanionStream, OnlyCompanionsApply, KeepsActions, Live
  <2>1. ASSUME UNCHANGED <<hubVars, closed, state, panicked>> PROVE Rest
    BY <2>1, <2>a DEF hubVars, DialingIsFresh, SlotsAreConnected, SlotActionIsPending,
       MarkersHaveStreams, SlotNotSuperseded, SlotsAreServed
  <2>2. ASSUME NEW c \in Conns, Disconnect(c) PROVE Rest
    <3>1. DialingIsFresh' /\ SlotsAreConnected'
      BY <2>2, <2>a DEF TypeOK, Disconnect, LeaveSlot, LeaveAgentStreams, DialingIsFresh, SlotsAreConnected
    <3>2. SlotActionIsPending' /\ MarkersHaveStreams'
      BY <2>2, <2>a DEF TypeOK, Disconnect, LeaveSlot, LeaveAgentStreams, SlotActionIsPending, MarkersHaveStreams
    <3>3. SlotNotSuperseded' /\ SlotsAreServed'
      BY <2>2 DEF TypeOK, Disconnect, LeaveSlot, LeaveAgentStreams, SlotNotSuperseded, SlotsAreServed
    <3> QED
      BY <2>a, <3>1, <3>2, <3>3
  <2>3. ASSUME NEW id \in ActionIds, RecordResult(id) PROVE Rest
    <3>1. SlotActionIsPending'
      BY <2>3, <2>a DEF RecordResult, MarkerAfter, SlotActionIsPending, Outstanding, At
    <3> QED
      BY <2>3, <2>a, <3>1 DEF RecordResult, MarkerAfter, DialingIsFresh, SlotsAreConnected,
         MarkersHaveStreams, SlotNotSuperseded, SlotsAreServed
  <2>4. ASSUME NEW c \in Conns, Dial(c) PROVE Rest
    BY <2>4, <2>a DEF Dial, Unused, hubVars, TypeOK, DialingIsFresh, SlotsAreConnected,
       SlotActionIsPending, MarkersHaveStreams, SlotNotSuperseded, SlotsAreServed
  <2>5. ASSUME Restart PROVE Rest
    BY <2>5, <2>a DEF Restart, DialingIsFresh, SlotsAreConnected,
       SlotActionIsPending, MarkersHaveStreams, SlotNotSuperseded, SlotsAreServed
  <2>6. ASSUME NEW c \in Conns, Forward(c) PROVE Rest
    BY <2>6, <2>1 DEF Forward
  <2>7. ASSUME NEW id \in ActionIds, Report(id) PROVE Rest
    BY <2>7, <2>1 DEF Report
  <2>8. ASSUME NEW k \in Kinds, Receive(k) \/ Drop(k) \/ Crash(k) PROVE Rest
    BY <2>8, <2>1 DEF Receive, Drop, Crash
  <2>9. CASE UNCHANGED vars
    BY <2>9, <2>1 DEF vars, hubVars
  <2>10. ASSUME NEW id \in ActionIds, PushSwap(id) PROVE Rest
    BY <2>10, <2>1, <1>2 DEF PushSwap, ActionTypes
  <2> QED
    BY <1>1, <1>2, <2>2, <2>3, <2>4, <2>5, <2>6, <2>7, <2>8, <2>9, <2>10
       DEF Next, AdminPush
<1>4. ASSUME ~KeepsActions PROVE Rest
  BY <1>2, <1>4, OnlyPushAdds DEF PushAlone, IInv
<1> QED
  BY <1>0, <1>3, <1>4 DEF IInv

\* The inductive invariant holds in every reachable state.
LEMMA IInvHolds == Spec => []IInv
  BY InitIInv, IInvStep, PTL DEF Spec

\* Nothing ever queues up behind an action a companion has not ended, for any
\* interleaving of reconnects, preemptions, crashes, restarts and late results.
THEOREM OneActionPerStream == Spec => []OneActionPerCompanionStream
<1>1. IInv => OneActionPerCompanionStream
  BY DEF IInv
<1> QED
  BY <1>1, IInvHolds, PTL

\* An in-flight marker never outlives the stream whose end would clear it, for any
\* number of late handlers and lost results (Push, Disconnect, RecordResult).
THEOREM MarkersAreResolvable == Spec => []MarkersHaveStreams
<1>1. IInv => MarkersHaveStreams
  BY DEF IInv
<1> QED
  BY <1>1, IInvHolds, PTL

\* A live holder of the main slot has never been told that it was superseded,
\* whatever connections preempt each other (Connect).
THEOREM HolderIsCurrent == Spec => []SlotNotSuperseded
<1>1. IInv => SlotNotSuperseded
  BY DEF IInv
<1> QED
  BY <1>1, IInvHolds, PTL

\* A slot never outlives the handler that serves it, but for a panic in Connect:
\* a late teardown neither leaves its own entry nor removes another's.
THEOREM HoldersAreServed == Spec => []SlotsAreServed
<1>1. IInv => SlotsAreServed
  BY DEF IInv
<1> QED
  BY <1>1, IInvHolds, PTL

\* An action that needs root never reaches an agent, for any order of connects,
\* preemptions and pushes (requiresCompanion, Push).
THEOREM AgentsNeverApply == Spec => []OnlyCompanionsApply
<1>1. IInv => OnlyCompanionsApply
  BY DEF IInv
<1> QED
  BY <1>1, IInvHolds, PTL

-----------------------------------------------------------------------------
(* Action properties.                                                      *)

\* A companion's stream in the main slot gives way only to a companion's, or
\* ends: the agent never takes the slot over.
THEOREM CompanionKeepsSlot == Spec => CompanionNotDemoted
<1> DEFINE A == (streams \in CompanionConns)
                => streams' \in CompanionConns \/ (streams' = NoConn /\ state'[streams] = "gone")
<1>1. ASSUME TypeOK, [Next]_vars PROVE [A]_vars
  <2> USE HubAssumption DEF Conns, KindOf
  <2>1. ASSUME NEW c \in Conns, Connect(c) PROVE A
    BY <2>1 DEF Connect, ConnectBesideCompanion, ConnectCompanion, ConnectAgent,
       TakeSlot, MayTakeSlot, Supersede, hubVars
  <2>2. ASSUME NEW c \in Conns, Disconnect(c) PROVE A
    <3>1. state'[c] = "gone" /\ (streams' = streams \/ (streams = c /\ streams' = NoConn))
      BY <2>2, <1>1 DEF Disconnect, LeaveSlot, LeaveAgentStreams, TypeOK
    <3> QED
      BY <3>1
  <2>3. CASE Restart
    <3>1. streams' = NoConn /\ \A c \in Conns : state'[c] = "gone"
      BY <2>3 DEF Restart
    <3> QED
      BY <3>1
  <2>4. CASE UNCHANGED streams
    BY <2>4
  <2> QED
    BY <1>1, <2>1, <2>2, <2>3, <2>4 DEF Next, AdminPush, Forward, Dial, RecordResult,
       PushSwap, Report, Receive, Drop, Crash, hubVars, vars
<1> QED
  BY <1>1, TypeCorrect, PTL DEF Spec, CompanionNotDemoted

\* The main slot's marker is cleared by its own action's result or with its own
\* stream: no stale result and no late teardown clears a newer one.
THEOREM OwnEventClearsMarker == Spec => MarkerClearedByItsOwn
<1> DEFINE A == pending # None /\ pending' # pending
                => /\ pending' = None
                   /\ \/ act[pending].stage \in {"posted", "staged"}
                         /\ act'[pending].stage \in {"over", "swapdue"}
                      \/ state'[streams] = "gone"
                      \/ streams' # streams
<1>1. ASSUME IInv, [Next]_vars PROVE [A]_vars
  <2> USE HubAssumption DEF Conns, KindOf, IInv, TypeOK
  <2>1. ASSUME NEW c \in Conns, Connect(c) PROVE A
    <3>1. pending' = pending \/ (pending' = None /\ streams' = c)
      BY <2>1 DEF Connect, ConnectBesideCompanion, ConnectCompanion, ConnectAgent,
         TakeSlot, MayTakeSlot, Supersede, hubVars
    <3>2. streams # c
      BY <2>1, <1>1 DEF Connect, SlotsAreConnected
    <3> QED
      BY <3>1, <3>2
  <2>2. ASSUME NEW c \in Conns, Disconnect(c) PROVE A
    BY <2>2 DEF Disconnect, LeaveSlot, LeaveAgentStreams
  <2>3. CASE Restart
    <3>1. /\ pending' = None /\ \A c \in Conns : state'[c] = "gone"
          /\ pending # None => streams \in Conns
      BY <2>3, <1>1 DEF Restart, MarkersHaveStreams
    <3> QED
      BY <3>1
  <2>4. ASSUME NEW id \in ActionIds, RecordResult(id) PROVE A
    <3>1. /\ act[id].stage \in {"posted", "staged"}
          /\ pending' = pending \/ (pending = id /\ pending' = None)
      BY <2>4 DEF RecordResult, MarkerAfter
    <3>2. act'[id] \in {Over, [Over EXCEPT !.stage = "swapdue"]}
      BY <2>4, <1>1 DEF RecordResult, MarkerAfter
    <3>3. act'[id].stage \in {"over", "swapdue"}
      BY <3>2 DEF Over
    <3> QED
      BY <3>1, <3>3
  <2>5. ASSUME NEW t, NEW ended, Push(t, ended) PROVE A
    BY <2>5 DEF Push, SlotAccepts
  <2>6. CASE UNCHANGED pending
    BY <2>6
  <2> QED
    BY <1>1, <2>1, <2>2, <2>3, <2>4, <2>5, <2>6 DEF Next, AdminPush, Forward, Dial,
       PushSwap, Report, Receive, Drop, Crash, hubVars, vars
<1> QED
  BY <1>1, IInvHolds, PTL DEF Spec, MarkerClearedByItsOwn

-----------------------------------------------------------------------------
(* Refinement: the actions in flight at the companion, as SingleFlight      *)
(* counts them, start from none and never exceed one.                       *)

\* A step that adds nothing to the actions in flight stutters or finishes.
LEMMA ShrinkIsFinish ==
    ASSUME IInv, InFlight' \subseteq InFlight
    PROVE  [Flight!Next]_InFlight
<1>1. \A i, j \in InFlight : i = j
  BY DEF IInv, OneActionPerCompanionStream, InFlight, Outstanding, At
<1> QED
  BY <1>1 DEF Flight!Next, Flight!Finish

LEMMA FlightStep == IInv /\ [Next]_vars => [Flight!Next]_InFlight
<1> SUFFICES ASSUME IInv, [Next]_vars PROVE [Flight!Next]_InFlight
  OBVIOUS
<1> USE HubAssumption DEF Conns, KindOf
<1>1. CASE PushAlone
  <2>1. PICK t \in ActionTypes, ended \in SUBSET ActionIds : Push(t, ended)
    BY <1>1 DEF PushAlone
  <2>2. client' = client
    BY <1>1 DEF PushAlone
  <2> DEFINE new == issued + 1
  <2>3. InFlight' \subseteq InFlight \cup {new}
    <3>1. PICK c : act' = Enqueue(new, t, c, ended)
      BY <2>1 DEF Push, SlotAccepts
    <3>2. \A id \in ActionIds \ {new} : act'[id] \in {act[id], Over}
      BY <3>1 DEF Enqueue, Discard
    <3> QED
      BY <3>2, <2>2 DEF InFlight, Over
  <2>4. CASE new \notin InFlight'
    BY <2>3, <2>4, ShrinkIsFinish
  <2>5. CASE new \in InFlight'
    <3>1. /\ ~RoutedToAgent(t) /\ pending = None
          /\ client["companion"] = streams /\ streams \in CompanionConns
      BY <2>1, <2>2, <2>5 DEF Push, SlotAccepts, Enqueue, Discard, InFlight, RoutedToAgent, IInv, TypeOK
    <3>2. InFlight = {}
      BY <3>1 DEF IInv, SlotActionIsPending, InFlight, Outstanding, At, None, ActionIds
    <3>3. InFlight' = {new} /\ new \in ActionIds
      BY <2>3, <2>5, <3>2 DEF InFlight
    <3> QED
      BY <3>2, <3>3 DEF Flight!Next, Flight!Start
  <2> QED
    BY <2>4, <2>5
<1>2. CASE ~PushAlone
  <2>1. KeepsActions
    BY <1>2, OnlyPushAdds DEF IInv
  <2>2. CASE UNCHANGED client
    <3>1. InFlight' \subseteq InFlight
      BY <2>1, <2>2 DEF KeepsActions, Live, InFlight
    <3> QED
      BY <3>1, ShrinkIsFinish
  <2>3. ASSUME NEW c \in Conns, Dial(c) PROVE InFlight' \subseteq InFlight
    BY <2>3, <2>1 DEF Dial, Unused, KeepsActions, Live, InFlight, Outstanding, At,
       IInv, TypeOK, Kinds
  <2>4. ASSUME NEW k \in Kinds, Drop(k) \/ Crash(k) PROVE InFlight' \subseteq InFlight
    BY <2>4, <2>1 DEF Drop, Crash, KeepsActions, Live, InFlight, IInv, TypeOK, Kinds
  <2> QED
    BY <1>2, <2>2, <2>3, <2>4, ShrinkIsFinish
       DEF Next, vars, Connect, Forward, Disconnect, AdminPush, RecordResult,
           PushSwap, Report, Receive, Restart
<1> QED
  BY <1>1, <1>2

\* The hub, its stream handlers and their clients implement SingleFlight.
THEOREM RefinesSingleFlight == Spec => ImplementsSingleFlight
<1>1. Init => Flight!Init
  BY HubAssumption DEF Init, Flight!Init, InFlight, New
<1> QED
  BY <1>1, FlightStep, IInvHolds, PTL DEF Spec, ImplementsSingleFlight, Flight!Spec
=============================================================================
