---------------------------- MODULE CompanionHub ----------------------------
(***************************************************************************)
(* The aggregator's CompanionHub (internal/aggregator/companion.go), the   *)
(* SSE handler that serves its streams (handleCompanionStream in           *)
(* server.go) and the stream loop of the clients on the other end          *)
(* (agentstream/stream.go), for ONE agent ID.  Every map of the hub is     *)
(* indexed by the agent ID and every operation touches one key, under the  *)
(* hub's mutex, so one key shows every behaviour of the hub.               *)
(*                                                                         *)
(* A host runs two client processes: the agent and the companion.  Each    *)
(* holds at most one stream, reads one action at a time and runs it to its *)
(* end before it reads the next.  A connection is a Go streamEntry, the    *)
(* handler goroutine serving it and the socket to the client; the two ends *)
(* notice its loss independently.                                          *)
(***************************************************************************)
EXTENDS Integers, FiniteSets

CONSTANTS
    AgentConns,      \* connections an agent process may open
    CompanionConns,  \* connections a companion process may open
    NoConn,          \* "no entry in the map"
    MaxActions,      \* bound on the number of actions ever pushed
    ChanCap,         \* capacity of a stream's channel: make(chan Action, 4)
    PostMayFail      \* whether the POST of a result may be lost

ASSUME HubAssumption ==
    /\ AgentConns \cap CompanionConns = {}
    /\ NoConn \notin AgentConns \cup CompanionConns
    /\ MaxActions \in Nat
    /\ ChanCap \in Nat \ {0}
    /\ PostMayFail \in BOOLEAN

Conns     == AgentConns \cup CompanionConns
ActionIds == 1..MaxActions
None      == 0                \* the empty action ID
Kinds     == {"agent", "companion"}

\* The kind a connection was opened with (the X-Client-Kind header).
KindOf(c) == IF c \in AgentConns THEN "agent" ELSE "companion"

\* "apply" stands for every action a companion runs on packages,
\* "selfupdate" for the update of a binary, whose result may be staged.
ActionTypes == {"apply", "selfupdate", "recheck", "swap"}
RequiresCompanion(t) == t \notin {"recheck", "swap"}

VARIABLES
    streams,       \* the connection in the main slot, or NoConn
    agentStreams,  \* the connection in agentStreams, or NoConn
    pending,       \* in-flight action of the main slot, or None
    agentPending,  \* in-flight action of agentStreams, or None
    closed,        \* closed[c]: c's superseded channel has been closed
    state,         \* state[c]: "gone", "dialing" (request sent), "serving"
    client,        \* client[k]: the connection process k dialled or reads
    act,           \* act[id]: where action id is
    issued,        \* number of action IDs handed out
    panicked       \* some Connect closed a closed channel

hubVars == <<streams, agentStreams, pending, agentPending>>
vars == <<streams, agentStreams, pending, agentPending, closed, state,
          client, act, issued, panicked>>

-----------------------------------------------------------------------------
(* An action's life: queued in the channel, written to the wire, run by    *)
(* the client, its result posted; "swapdue" is the moment between the      *)
(* recording of a staged result and the push of the swap it calls for.     *)
Stages == {"new", "queued", "wire", "exec", "posted", "staged", "swapdue",
           "over"}
Action == [stage : Stages, type : ActionTypes \cup {"none"},
           via : Conns \cup {NoConn}]
New  == [stage |-> "new",  type |-> "none", via |-> NoConn]
Over == [stage |-> "over", type |-> "none", via |-> NoConn]

At(c, stages) == {id \in ActionIds : act[id].via = c /\ act[id].stage \in stages}
Outstanding(c) == At(c, {"queued", "wire", "exec"})
Discard(ids) == [id \in ActionIds |-> IF id \in ids THEN Over ELSE act[id]]

\* Channels and sockets are FIFO, and identifiers grow in push order.
IsOldest(id, ids) == id \in ids /\ \A other \in ids : id <= other

Running(k) == \E id \in ActionIds :
                 act[id].stage = "exec" /\ KindOf(act[id].via) = k

-----------------------------------------------------------------------------
Init ==
    /\ streams = NoConn /\ agentStreams = NoConn
    /\ pending = None /\ agentPending = None
    /\ closed = [c \in Conns |-> FALSE]
    /\ state = [c \in Conns |-> "gone"]
    /\ client = [k \in Kinds |-> NoConn]
    /\ act = [id \in ActionIds |-> New]
    /\ issued = 0
    /\ panicked = FALSE

-----------------------------------------------------------------------------
(* CompanionHub.Connect                                                    *)

\* Closing a closed channel panics: net/http drops the connection, the
\* deferred unlock runs, and what Connect wrote before stays written.
Panic(c) ==
    /\ panicked' = TRUE
    /\ state' = [state EXCEPT ![c] = "gone"]

Accept(c) ==
    /\ state' = [state EXCEPT ![c] = "serving"]
    /\ UNCHANGED panicked

PrevSuperseded == agentStreams # NoConn /\ closed[agentStreams]

SupersedeSlot(prev) ==              \* mutant: the slot's entry is signalled
    [d \in Conns |-> closed[d] \/ d = streams]

Supersede(prev) == [d \in Conns |-> closed[d] \/ d = prev]

\* An agent connects while a companion holds the main slot.
ConnectBesideCompanion(c) ==
    /\ KindOf(c) = "agent" /\ streams # NoConn /\ KindOf(streams) = "companion"
    /\ \/ /\ PrevSuperseded
          /\ Panic(c)
          /\ UNCHANGED <<hubVars, closed>>
       \/ /\ ~PrevSuperseded
          /\ Accept(c)
          /\ closed' = Supersede(agentStreams)
          /\ agentStreams' = c
          /\ agentPending' = IF agentStreams = NoConn THEN agentPending ELSE None
          /\ UNCHANGED <<streams, pending>>

\* Every other Connect takes the main slot; it clears the slot's marker if
\* the slot was held.
TakeSlotKeepingMarker(c) ==         \* mutant: the marker survives its stream
    streams' = c /\ pending' = pending

TakeSlot(c) ==
    /\ streams' = c
    /\ pending' = IF streams = NoConn THEN pending ELSE None

ConnectCompanionAsAgent(c) ==       \* mutant: tracked in agentStreams too
    /\ KindOf(c) = "companion"
    /\ TakeSlot(c)
    /\ UNCHANGED closed
    /\ Accept(c)
    /\ agentStreams' = c
    /\ UNCHANGED agentPending

ConnectCompanion(c) ==
    /\ KindOf(c) = "companion"
    /\ TakeSlot(c)
    /\ closed' = IF streams \in AgentConns THEN Supersede(streams) ELSE closed
    /\ Accept(c)
    /\ UNCHANGED <<agentStreams, agentPending>>

MayTakeSlotAlways(c) == TRUE        \* mutant: no arbitration

MayTakeSlot(c) == streams = NoConn \/ KindOf(streams) = "agent"

ConnectAgent(c) ==
    /\ KindOf(c) = "agent" /\ MayTakeSlot(c)
    /\ TakeSlot(c)
    /\ \/ /\ PrevSuperseded
          /\ Panic(c)
          /\ UNCHANGED <<agentStreams, agentPending, closed>>
       \/ /\ ~PrevSuperseded
          /\ Accept(c)
          /\ closed' = Supersede(agentStreams)
          /\ agentStreams' = c
          /\ agentPending' = IF agentStreams = NoConn THEN agentPending ELSE None

\* The handler of a stream request starts: it may run after its client has
\* given up on the connection.
Connect(c) ==
    /\ state[c] = "dialing"
    /\ ConnectBesideCompanion(c) \/ ConnectCompanion(c) \/ ConnectAgent(c)
    /\ UNCHANGED <<client, act, issued>>

-----------------------------------------------------------------------------
(* handleCompanionStream                                                   *)

\* The handler writes the oldest queued action to its client.
Forward(c) ==
    /\ state[c] = "serving"
    /\ \E id \in ActionIds :
        /\ IsOldest(id, At(c, {"queued"}))
        /\ act' = [act EXCEPT ![id] =
                     IF client[KindOf(c)] = c THEN [@ EXCEPT !.stage = "wire"]
                                              ELSE Over]
    /\ UNCHANGED <<hubVars, closed, state, client, issued, panicked>>

\* CompanionHub.Disconnect: an entry is removed, with its marker, only by the
\* connection that holds it.
LeaveSlotKeepingMarker(c) ==        \* mutant: the marker stays
    /\ streams' = IF streams = c THEN NoConn ELSE streams
    /\ UNCHANGED pending

LeaveSlot(c) ==
    IF streams = c THEN streams' = NoConn /\ pending' = None
                   ELSE UNCHANGED <<streams, pending>>

LeaveAgentStreamsIfNotSlot(c) ==    \* mutant: "else if"
    IF streams # c /\ agentStreams = c
    THEN agentStreams' = NoConn /\ agentPending' = None
    ELSE UNCHANGED <<agentStreams, agentPending>>

LeaveAgentStreams(c) ==
    IF agentStreams = c THEN agentStreams' = NoConn /\ agentPending' = None
                        ELSE UNCHANGED <<agentStreams, agentPending>>

\* The handler returns -- its client is gone, the connection failed, or it was
\* superseded -- and its deferred Disconnect runs.
Disconnect(c) ==
    /\ state[c] = "serving"
    /\ state' = [state EXCEPT ![c] = "gone"]
    /\ closed' = [closed EXCEPT ![c] = FALSE]
    /\ LeaveSlot(c)
    /\ LeaveAgentStreams(c)
    /\ act' = Discard(At(c, {"queued"}))
    /\ UNCHANGED <<client, issued, panicked>>

-----------------------------------------------------------------------------
(* CompanionHub.Push                                                       *)

RoutedToAgent(t) == ~RequiresCompanion(t) /\ agentStreams # NoConn

HasRoom(c) == Cardinality(At(c, {"queued"})) < ChanCap

Enqueue(id, t, c, ended) ==
    [Discard(ended) EXCEPT ![id] = [stage |-> "queued", type |-> t, via |-> c]]

SlotAcceptsQueueing(t) ==           \* mutant: no ErrActionInFlight check
    /\ streams # NoConn
    /\ RequiresCompanion(t) => KindOf(streams) = "companion"
    /\ HasRoom(streams)

SlotAcceptsAnyKind(t) ==            \* mutant: no ErrCompanionRequired check
    streams # NoConn /\ pending = None /\ HasRoom(streams)

SlotAccepts(t) ==
    /\ streams # NoConn
    /\ RequiresCompanion(t) => KindOf(streams) = "companion"
    /\ pending = None
    /\ HasRoom(streams)

\* The error returns (no stream, companion required, in flight, channel full)
\* change nothing and are the steps these guards leave out.  `ended` are the
\* actions whose handler has nothing left to do when the push succeeds.
Push(t, ended) ==
    /\ issued < MaxActions
    /\ issued' = issued + 1
    /\ \/ /\ RoutedToAgent(t)
          /\ HasRoom(agentStreams)
          /\ act' = Enqueue(issued + 1, t, agentStreams, ended)
          /\ agentPending' = issued + 1
          /\ UNCHANGED pending
       \/ /\ ~RoutedToAgent(t)
          /\ SlotAccepts(t)
          /\ act' = Enqueue(issued + 1, t, streams, ended)
          /\ pending' = issued + 1
          /\ UNCHANGED agentPending

\* handleAdminAction, handleAdminApply, handleAdminSelfUpdate, handleAdminRecheck
AdminPush(t) ==
    /\ t # "swap"
    /\ Push(t, {})
    /\ UNCHANGED <<streams, agentStreams, closed, state, client, panicked>>

-----------------------------------------------------------------------------
(* handleCompanionResult                                                   *)

MarkerAfterAnyResult(marker, id) == None   \* mutant: any result clears it

MarkerAfter(marker, id) == IF marker = id THEN None ELSE marker

\* CompanionHub.RecordResult: only the current marker is cleared.
RecordResult(id) ==
    /\ act[id].stage \in {"posted", "staged"}
    /\ pending' = MarkerAfter(pending, id)
    /\ agentPending' = MarkerAfter(agentPending, id)
    /\ act' = [act EXCEPT ![id] = IF @.stage = "staged"
                                  THEN [Over EXCEPT !.stage = "swapdue"]
                                  ELSE Over]
    /\ UNCHANGED <<streams, agentStreams, closed, state, client, issued,
                   panicked>>

\* A staged result makes the handler push the swap, after RecordResult has
\* released the mutex; a failed push is only logged.
PushSwap(id) ==
    /\ act[id].stage = "swapdue"
    /\ \/ /\ Push("swap", {id})
          /\ UNCHANGED <<streams, agentStreams, closed, state, client, panicked>>
       \/ /\ act' = [act EXCEPT ![id] = Over]
          /\ UNCHANGED <<hubVars, closed, state, client, issued, panicked>>

-----------------------------------------------------------------------------
(* agentstream.Run and the clients' action handlers                        *)

Unused(c) ==
    /\ state[c] = "gone"
    /\ c \notin {streams, agentStreams}
    /\ c # client[KindOf(c)]
    /\ Outstanding(c) = {}

\* runOnce sends the stream request.
Dial(c) ==
    /\ client[KindOf(c)] = NoConn
    /\ Unused(c)
    /\ state' = [state EXCEPT ![c] = "dialing"]
    /\ client' = [client EXCEPT ![KindOf(c)] = c]
    /\ closed' = [closed EXCEPT ![c] = FALSE]
    /\ UNCHANGED <<hubVars, act, issued, panicked>>

\* onAction is called synchronously: the next frame is read only after it
\* returns.
Receive(k) ==
    /\ client[k] # NoConn
    /\ ~Running(k)
    /\ \E id \in ActionIds :
        /\ IsOldest(id, At(client[k], {"wire"}))
        /\ act' = [act EXCEPT ![id].stage = "exec"]
    /\ UNCHANGED <<hubVars, closed, state, client, issued, panicked>>

\* The client has run the action and posts its result, once: a failed POST is
\* logged and not retried.
Report(id) ==
    /\ act[id].stage = "exec"
    /\ \/ act' = [act EXCEPT ![id].stage = "posted"]
       \/ /\ act[id].type = "selfupdate"
          /\ act' = [act EXCEPT ![id].stage = "staged"]
       \/ PostMayFail /\ act' = [act EXCEPT ![id] = Over]
    /\ UNCHANGED <<hubVars, closed, state, client, issued, panicked>>

\* An idle client's read fails, ends, or returns the superseded frame.
Drop(k) ==
    /\ client[k] # NoConn
    /\ ~Running(k)
    /\ client' = [client EXCEPT ![k] = NoConn]
    /\ act' = Discard(At(client[k], {"wire"}))
    /\ UNCHANGED <<hubVars, closed, state, issued, panicked>>

\* The client process dies (a self-update restarts it), with what it runs.
Crash(k) ==
    /\ client[k] # NoConn
    /\ client' = [client EXCEPT ![k] = NoConn]
    /\ act' = Discard(At(client[k], {"wire", "exec"}))
    /\ UNCHANGED <<hubVars, closed, state, issued, panicked>>

\* The aggregator restarts: nothing of the hub is persisted.
Restart ==
    /\ streams' = NoConn /\ agentStreams' = NoConn
    /\ pending' = None /\ agentPending' = None
    /\ closed' = [c \in Conns |-> FALSE]
    /\ state' = [c \in Conns |-> "gone"]
    /\ act' = Discard({id \in ActionIds : act[id].stage \in {"queued", "swapdue"}})
    /\ UNCHANGED <<client, issued, panicked>>

-----------------------------------------------------------------------------
Next ==
    \/ \E c \in Conns : Connect(c) \/ Forward(c) \/ Disconnect(c) \/ Dial(c)
    \/ \E t \in ActionTypes : AdminPush(t)
    \/ \E id \in ActionIds : RecordResult(id) \/ PushSwap(id) \/ Report(id)
    \/ \E k \in Kinds : Receive(k) \/ Drop(k) \/ Crash(k)
    \/ Restart

Spec == Init /\ [][Next]_vars

(***************************************************************************)
(* Fairness.  Handlers and clients are goroutines that keep running; a     *)
(* handler notices a client that is gone (its request context ends, or the *)
(* 30 s heartbeat fails to write) and a superseded channel; a client whose *)
(* stream ended notices and dials again (nextRetryDelay is bounded).       *)
(* Nothing is assumed of administrators, failures or restarts.             *)
(***************************************************************************)
NoticeEnd(c)  == /\ closed[c] \/ client[KindOf(c)] # c
                 /\ Disconnect(c)
NoticeLoss(k) == /\ client[k] # NoConn
                 /\ state[client[k]] = "gone"
                 /\ Drop(k)

Fairness ==
    /\ \A c \in Conns : /\ WF_vars(Connect(c))
                        /\ WF_vars(Forward(c))
                        /\ WF_vars(NoticeEnd(c))
    /\ \A k \in Kinds : /\ WF_vars(Receive(k))
                        /\ WF_vars(NoticeLoss(k))
                        /\ WF_vars(\E c \in Conns : KindOf(c) = k /\ Dial(c))
    /\ \A id \in ActionIds : WF_vars(Report(id)) /\ WF_vars(RecordResult(id))

FairSpec == Spec /\ Fairness

-----------------------------------------------------------------------------
(* Properties                                                              *)

\* The type of every variable of the hub and its environment.
TypeOK ==
    /\ streams \in Conns \cup {NoConn}
    /\ agentStreams \in AgentConns \cup {NoConn}
    /\ pending \in ActionIds \cup {None}
    /\ agentPending \in ActionIds \cup {None}
    /\ closed \in [Conns -> BOOLEAN]
    /\ state \in [Conns -> {"gone", "dialing", "serving"}]
    /\ client \in [Kinds -> Conns \cup {NoConn}]
    /\ act \in [ActionIds -> Action]
    /\ issued \in 0..MaxActions
    /\ panicked \in BOOLEAN

\* Push hands a companion no second action while its stream carries one
\* (queued, on the wire or running): nothing ever queues up behind a running
\* apply, whatever reconnects, preemptions, restarts and late results happen.
OneActionPerCompanionStream ==
    \A c \in CompanionConns : \A i, j \in Outstanding(c) : i = j

\* An in-flight marker never outlives the stream it was pushed on, so no Push
\* is refused with ErrActionInFlight on behalf of a stream that is gone.
MarkersHaveStreams ==
    /\ pending # None => streams # NoConn
    /\ agentPending # None => agentStreams # NoConn

\* The holder of the main slot has never been told to tear down: a live slot
\* is not lost to a superseded signal, and Connect's close of the holder's
\* channel cannot panic.
SlotNotSuperseded == streams # NoConn => ~closed[streams]

\* Unless a Connect panicked, each slot is held by a connection whose handler
\* is running: the entry of a handler that returned is never left behind.
SlotsAreServed ==
    ~panicked => \A c \in {streams, agentStreams} \ {NoConn} : state[c] = "serving"

\* An action that needs root never reaches an agent process, whichever stream
\* held the slot when it was pushed.
OnlyCompanionsApply ==
    \A id \in ActionIds :
        act[id].stage \in {"queued", "wire", "exec"}
            /\ RequiresCompanion(act[id].type)
        => act[id].via \in CompanionConns

\* The companion outranks the agent: while a companion's stream holds the main
\* slot, only that stream's end frees it; no agent takes it over.
CompanionNotDemoted ==
    [][(streams \in CompanionConns)
        => streams' \in CompanionConns \/ (streams' = NoConn /\ state'[streams] = "gone")
      ]_vars

\* A marker is cleared by the result of its own action or because its stream
\* ended or was replaced; a stale result, or the teardown of a replaced
\* stream, never clears a newer marker.
MarkerClearedByItsOwn ==
    [][pending # None /\ pending' # pending
        => /\ pending' = None
           /\ \/ act[pending].stage \in {"posted", "staged"}
                 /\ act'[pending].stage \in {"over", "swapdue"}
              \/ state'[streams] = "gone"
              \/ streams' # streams
      ]_vars

\* Every in-flight marker is eventually cleared, so a host is never blocked by
\* an action that will not resolve.
MarkerResolves ==
    \A id \in ActionIds : /\ pending = id ~> pending # id
                          /\ agentPending = id ~> agentPending # id

\* The actions handed to the companion reading its stream, as SingleFlight
\* counts them.
InFlight == {id \in ActionIds :
                /\ act[id].stage \in {"queued", "wire", "exec"}
                /\ act[id].via \in CompanionConns
                /\ client["companion"] = act[id].via}

\* The hub and its clients implement SingleFlight.
Flight == INSTANCE SingleFlight WITH Ids <- ActionIds, inflight <- InFlight
ImplementsSingleFlight == Flight!Spec

-----------------------------------------------------------------------------
(* What the comments say and the code does not do                          *)

\* companion.go, streamEntry and ConnectResult: superseded is "closed exactly
\* once".
SupersededClosedOnce == ~panicked

\* presence.go: a host counts as reachable with "any live stream (agent or
\* companion)".
Connected == streams # NoConn
AnyLiveStreamConnects ==
    /\ agentStreams # NoConn
    /\ state[agentStreams] = "serving" /\ ~closed[agentStreams]
    /\ client["agent"] = agentStreams
    => Connected
=============================================================================
