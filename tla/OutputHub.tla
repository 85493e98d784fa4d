------------------------------ MODULE OutputHub ------------------------------
(***************************************************************************)
(* The lines of an action's live output, from the command that prints them *)
(* to the browser that shows them: the client's OutputSink, its POST, the  *)
(* aggregator's OutputHub and the handler of a browser's event stream.     *)
(*                                                                         *)
(* One agent ID.  Its actions are 1..MaxActions; they may overlap, as a    *)
(* recheck on the agent's stream and an apply on the companion's do.  When *)
(* actions are pushed and markers cleared is the hub's matter              *)
(* (CompanionHub, LiveOutput); here it is any order those allow.           *)
(***************************************************************************)
EXTENDS Naturals, Sequences

CONSTANTS
    Browsers,     \* pages that may watch the host
    MaxActions,   \* bound on actions
    MaxLines,     \* MaxLines[id]: bound on the lines of an action
    SinkCap,      \* capacity of OutputSink.ch (1000 in the code)
    SubCap,       \* capacity of a subscriber's channel (32 in the code)
    MaxPane       \* bound on what a page shows

ASSUME OutputAssumption ==
    /\ {MaxActions, MaxPane} \subseteq Nat
    /\ MaxLines \in [1..MaxActions -> Nat]
    /\ {SinkCap, SubCap} \subseteq Nat \ {0}

VARIABLES
    active,    \* OutputHub.active, 0 when the key is absent
    backlog,   \* OutputHub.backlog
    watch,     \* watch[b]: "on" while b's channel is in OutputHub.subs
    chan,      \* chan[b]: the channel
    replay,    \* replay[b]: the snapshot its handler has still to write
    pane,      \* pane[b]: what the page shows
    base,      \* base[b]: how much of it is from earlier connections
    missed,    \* missed[b]: an event was dropped on this connection
    stage,     \* stage[id]: where the action is
    toBegin,   \* the actions pushed, Begin not yet called
    printed,   \* printed[id]: lines given to Push so far
    sink,      \* sink[id]: OutputSink.ch, and what is on its way from there
    dropped,   \* dropped[id]: OutputSink.dropped
    post,      \* post[id]: the output POST as the aggregator sees it
    told       \* told[id]: how far a reader of what left the sink has come

hubVars    == <<active, backlog>>
subVars    == <<watch, chan, replay, pane, base, missed>>
clientVars == <<stage, printed, dropped>>
lineVars   == <<sink, told>>
vars == <<hubVars, subVars, clientVars, lineVars, post, toBegin>>

Actions == 1..MaxActions
EndKinds == {"done", "disconnected"}

\* A line, the marker of n dropped lines, or the end of an action.
Items == [kind : {"line", "gap"}, id : Actions, n : Nat]
Events == Items \cup [kind : EndKinds, id : Actions]

Line(i, k)   == [kind |-> "line", id |-> i, n |-> k]
Gap(i, k)    == [kind |-> "gap", id |-> i, n |-> k]
EndOf(i, k)  == [kind |-> k, id |-> i]

\* How far a reader who has come as far as line k comes by reading an item: a
\* marker stands for the lines behind the last one read.
Reads(k, item) == IF item.kind = "gap" THEN k + item.n ELSE item.n

on(b) == watch[b] = "on"

Init ==
    /\ active = 0 /\ backlog = <<>>
    /\ watch = [b \in Browsers |-> "off"]
    /\ chan = [b \in Browsers |-> <<>>]
    /\ replay = [b \in Browsers |-> <<>>]
    /\ pane = [b \in Browsers |-> <<>>]
    /\ base = [b \in Browsers |-> 0]
    /\ missed = [b \in Browsers |-> FALSE]
    /\ stage = [id \in Actions |-> "none"]
    /\ toBegin = {}
    /\ printed = [id \in Actions |-> 0]
    /\ sink = [id \in Actions |-> <<>>]
    /\ dropped = [id \in Actions |-> 0]
    /\ post = [id \in Actions |-> "none"]
    /\ told = [id \in Actions |-> 0]

-----------------------------------------------------------------------------
(* OutputHub                                                               *)

\* Every subscriber gets the event, or drops it when its channel is full.
broadcast(event) ==
    LET full == {b \in Browsers : on(b) /\ Len(chan[b]) = SubCap} IN
    /\ chan' = [b \in Browsers |-> IF on(b) /\ b \notin full
                                   THEN Append(chan[b], event) ELSE chan[b]]
    /\ missed' = [b \in Browsers |-> missed[b] \/ b \in full]
    /\ UNCHANGED <<watch, replay, pane, base>>

StartView(id) == active' = id /\ backlog' = <<>>

\* The pushing handler calls Begin after Push has returned.
Begin(id) ==
    /\ id \in toBegin
    /\ toBegin' = toBegin \ {id}
    /\ StartView(id)
    /\ UNCHANGED <<subVars, clientVars, lineVars, post>>

PublishUnchecked(id, item) ==       \* mutant: late lines are published too
    /\ backlog' = IF active = id THEN Append(backlog, item) ELSE backlog
    /\ broadcast(item)

Publish(id, item) ==
    IF active = id
    THEN backlog' = Append(backlog, item) /\ broadcast(item)
    ELSE UNCHANGED <<backlog, subVars>>

EndSilently(id, kind) ==            \* mutant: no event for the end
    IF active = id
    THEN active' = 0 /\ backlog' = <<>> /\ UNCHANGED subVars
    ELSE UNCHANGED <<hubVars, subVars>>

EndIntoBacklog(id, kind) ==         \* mutant: the end is kept for late pages
    IF active = id
    THEN /\ active' = 0
         /\ backlog' = Append(backlog, EndOf(id, kind))
         /\ broadcast(EndOf(id, kind))
    ELSE UNCHANGED <<hubVars, subVars>>

End(id, kind) ==
    IF active = id
    THEN active' = 0 /\ backlog' = <<>> /\ broadcast(EndOf(id, kind))
    ELSE UNCHANGED <<hubVars, subVars>>

SnapshotLost(b) ==                  \* mutant: registered, nothing to replay
    /\ watch' = [watch EXCEPT ![b] = "on"]
    /\ chan' = [chan EXCEPT ![b] = <<>>]
    /\ replay' = [replay EXCEPT ![b] = <<>>]
    /\ missed' = [missed EXCEPT ![b] = FALSE]

\* Snapshot and registration under one lock.
Subscribe(b) ==
    /\ watch' = [watch EXCEPT ![b] = "on"]
    /\ chan' = [chan EXCEPT ![b] = <<>>]
    /\ replay' = [replay EXCEPT ![b] = backlog]
    /\ missed' = [missed EXCEPT ![b] = FALSE]

-----------------------------------------------------------------------------
(* A browser and the handler of its event stream                           *)

\* openLiveOutput clears the pane before it connects.
Open(b) ==
    /\ ~on(b)
    /\ Subscribe(b)
    /\ pane' = [pane EXCEPT ![b] = <<>>]
    /\ base' = [base EXCEPT ![b] = 0]
    /\ UNCHANGED <<hubVars, clientVars, lineVars, post, toBegin>>

\* An EventSource that lost its connection dials again by itself, and the
\* page goes on below what its pane shows.
Reconnect(b) ==
    /\ watch[b] = "lost"
    /\ Subscribe(b)
    /\ base' = [base EXCEPT ![b] = Len(pane[b])]
    /\ UNCHANGED <<pane, hubVars, clientVars, lineVars, post, toBegin>>

\* The handler writes its snapshot before it looks at the channel.
WriteReplay(b) ==
    /\ replay[b] # <<>>
    /\ Len(pane[b]) < MaxPane
    /\ pane' = [pane EXCEPT ![b] = Append(@, Head(replay[b]))]
    /\ replay' = [replay EXCEPT ![b] = Tail(@)]
    /\ UNCHANGED <<watch, chan, base, missed, hubVars, clientVars, lineVars, post, toBegin>>

\* The page closes its stream when it is told that an action ended.
WriteEvent(b) ==
    /\ replay[b] = <<>> /\ chan[b] # <<>>
    /\ Len(pane[b]) < MaxPane
    /\ pane' = [pane EXCEPT ![b] = Append(@, Head(chan[b]))]
    /\ IF Head(chan[b]).kind \in EndKinds
       THEN watch' = [watch EXCEPT ![b] = "off"] /\ chan' = [chan EXCEPT ![b] = <<>>]
       ELSE chan' = [chan EXCEPT ![b] = Tail(@)] /\ UNCHANGED watch
    /\ UNCHANGED <<replay, base, missed, hubVars, clientVars, lineVars, post, toBegin>>

\* The page is closed, or its connection fails; the handler unsubscribes.
Leave(b, why) ==
    /\ on(b)
    /\ watch' = [watch EXCEPT ![b] = why]
    /\ chan' = [chan EXCEPT ![b] = <<>>]
    /\ replay' = [replay EXCEPT ![b] = <<>>]
    /\ UNCHANGED <<pane, base, missed, hubVars, clientVars, lineVars, post, toBegin>>

-----------------------------------------------------------------------------
(* The client: the command, its sink, its POST                             *)

\* The aggregator pushes an action; the client may have it before Begin.
Receive(id) ==
    /\ stage[id] = "none" /\ (id > 1 => stage[id - 1] # "none")
    /\ stage' = [stage EXCEPT ![id] = "running"]
    /\ toBegin' = toBegin \cup {id}
    /\ post' = [post EXCEPT ![id] = "open"]
    /\ UNCHANGED <<hubVars, subVars, printed, dropped, lineVars>>

Room(id) == Len(sink[id]) < SinkCap

\* OutputSink.Push: a marker for the lines dropped before, then the line, each
\* only if it fits.  The pump may empty the channel in between, so the line
\* behind a marker is a step of its own; a marker that does not fit takes its
\* line with it.
PushMarker(id) ==
    /\ stage[id] = "running" /\ printed[id] < MaxLines[id]
    /\ dropped[id] > 0 /\ Room(id)
    /\ sink' = [sink EXCEPT ![id] = Append(@, Gap(id, dropped[id]))]
    /\ dropped' = [dropped EXCEPT ![id] = 0]
    /\ stage' = [stage EXCEPT ![id] = "pushing"]
    /\ UNCHANGED <<printed, told, post, toBegin, hubVars, subVars>>

LineOrForget(id) ==                 \* mutant: a drop behind a marker not counted
    /\ sink' = IF Room(id) THEN [sink EXCEPT ![id] = Append(@, Line(id, printed[id] + 1))]
                           ELSE sink
    /\ dropped' = [dropped EXCEPT ![id] = IF Room(id) \/ stage[id] = "pushing" THEN @ ELSE @ + 1]

LineOrDrop(id) ==
    IF Room(id)
    THEN sink' = [sink EXCEPT ![id] = Append(@, Line(id, printed[id] + 1))] /\ UNCHANGED dropped
    ELSE dropped' = [dropped EXCEPT ![id] = @ + 1] /\ UNCHANGED sink

PushLine(id) ==
    /\ \/ stage[id] = "pushing"
       \/ stage[id] = "running" /\ (dropped[id] = 0 \/ ~Room(id))
    /\ printed[id] < MaxLines[id]
    /\ LineOrDrop(id)
    /\ printed' = [printed EXCEPT ![id] = @ + 1]
    /\ stage' = [stage EXCEPT ![id] = "running"]
    /\ UNCHANGED <<told, post, toBegin, hubVars, subVars>>

\* The report of the action's result is lost.
LoseReport(id) ==
    /\ stage[id] = "running"
    /\ stage' = [stage EXCEPT ![id] = "reported"]
    /\ UNCHANGED <<printed, dropped, lineVars, post, toBegin, hubVars, subVars>>

\* sink.Close() and cancelStream(), or the death of the client: from here on
\* the body of the POST may end at any moment.
Stop(id, how) ==
    /\ stage' = [stage EXCEPT ![id] = how]
    /\ UNCHANGED <<printed, dropped, lineVars, post, toBegin, hubVars, subVars>>

Close(id) == stage[id] = "reported" /\ Stop(id, "closed")
Kill(id)  == stage[id] \in {"running", "pushing", "reported"} /\ Stop(id, "killed")

-----------------------------------------------------------------------------
(* handleCompanionResult and handleCompanionOutput                         *)

\* The result is recorded, which ends IsPending, and then the view ended; the
\* client goes on when both are done.
RecordResult(id) ==
    /\ stage[id] = "running"
    /\ stage' = [stage EXCEPT ![id] = "recorded"]
    /\ UNCHANGED <<printed, dropped, lineVars, post, toBegin, hubVars, subVars>>

EndDone(id) ==
    /\ stage[id] = "recorded"
    /\ stage' = [stage EXCEPT ![id] = "reported"]
    /\ End(id, "done")
    /\ UNCHANGED <<printed, dropped, lineVars, post, toBegin>>

\* Only an action in flight may publish.  The hub may forget one before its
\* result: its stream ended, or another recheck took the agent's marker.
AcceptPost(id) ==
    /\ post[id] = "open" /\ stage[id] \notin {"closed", "killed"}
    /\ \E answer \in {"accepted", "closed"} :
        /\ answer = "accepted" => stage[id] \in {"running", "pushing"}
        /\ post' = [post EXCEPT ![id] = answer]
    /\ UNCHANGED <<hubVars, subVars, clientVars, lineVars, toBegin>>

\* The pump writes the next line, the handler reads and publishes it.
Scan(id) ==
    /\ post[id] = "accepted"
    /\ sink[id] # <<>>
    /\ sink' = [sink EXCEPT ![id] = Tail(@)]
    /\ told' = [told EXCEPT ![id] = Reads(@, Head(sink[id]))]
    /\ Publish(id, Head(sink[id]))
    /\ UNCHANGED <<active, clientVars, post, toBegin>>

\* The body ends because its client has stopped, or because it is cut; what
\* was still on its way is lost.
EndPost(id) ==
    /\ post[id] = "accepted"
    /\ post' = [post EXCEPT ![id] = "closed"]
    /\ End(id, "disconnected")
    /\ UNCHANGED <<clientVars, lineVars, toBegin>>

Stopped(id)   == stage[id] \in {"closed", "killed"}
ClosePost(id) == Stopped(id) /\ EndPost(id)
CutPost(id)   == ~Stopped(id) /\ EndPost(id)

-----------------------------------------------------------------------------
Next ==
    \/ \E b \in Browsers :
        \/ Open(b) \/ Reconnect(b) \/ WriteReplay(b) \/ WriteEvent(b)
        \/ Leave(b, "off") \/ Leave(b, "lost")
    \/ \E id \in Actions :
        \/ Receive(id) \/ Begin(id) \/ PushMarker(id) \/ PushLine(id)
        \/ LoseReport(id) \/ Close(id) \/ Kill(id)
        \/ RecordResult(id) \/ EndDone(id)
        \/ AcceptPost(id) \/ Scan(id) \/ ClosePost(id) \/ CutPost(id)

Spec == Init /\ [][Next]_vars

\* Handlers run on, and a client that runs an action ends it, reports it and
\* closes its stream.
Fairness ==
    /\ \A b \in Browsers : WF_vars(WriteReplay(b)) /\ WF_vars(WriteEvent(b))
    /\ \A id \in Actions :
        /\ WF_vars(PushLine(id)) /\ WF_vars(Begin(id)) /\ WF_vars(EndDone(id)) /\ WF_vars(ClosePost(id))
        /\ WF_vars(RecordResult(id)) /\ WF_vars(Close(id))

FairSpec == Spec /\ Fairness

-----------------------------------------------------------------------------
(* Properties                                                              *)

\* The type of every variable.
TypeOK ==
    /\ active \in Actions \cup {0}
    /\ backlog \in Seq(Items)
    /\ watch \in [Browsers -> {"off", "on", "lost"}]
    /\ chan \in [Browsers -> Seq(Events)] /\ replay \in [Browsers -> Seq(Items)]
    /\ pane \in [Browsers -> Seq(Events)] /\ base \in [Browsers -> Nat]
    /\ missed \in [Browsers -> BOOLEAN]
    /\ stage \in [Actions -> {"none", "running", "pushing", "recorded", "reported",
                              "closed", "killed"}]
    /\ toBegin \subseteq Actions
    /\ printed \in [Actions -> Nat] /\ dropped \in [Actions -> Nat]
    /\ sink \in [Actions -> Seq(Items)] /\ told \in [Actions -> Nat]
    /\ post \in [Actions -> {"none", "open", "accepted", "closed"}]

\* An item takes the reader from k to l, and a line is the one he waits for.
Continues(k, item, l) == l = Reads(k, item) /\ (item.kind = "line" => item.n = k + 1)

\* Whoever reads what leaves the sink knows of every line the command has
\* printed, as a line or inside a marker, up to the drops not yet announced:
\* a marker stands where its lines are missing and counts all of them.
SinkAccountsForAll ==
    \A id \in Actions :
        \E come \in [0..Len(sink[id]) -> 0..printed[id]] :
            /\ come[0] = told[id] /\ come[Len(sink[id])] = printed[id] - dropped[id]
            /\ \A i \in 1..Len(sink[id]) : Continues(come[i - 1], sink[id][i], come[i])

\* What b was sent on this connection and has still to be sent.
Sent(b) == SubSeq(pane[b], base[b] + 1, Len(pane[b])) \o replay[b] \o chan[b]

\* A page that kept up gets each line of the running action once and in
\* order, whenever it connected, from the snapshot or from the channel: what it
\* was sent ends with the backlog, and nothing before is of that action.
WatcherSeesAll ==
    \A b \in Browsers :
        on(b) /\ ~missed[b] /\ active # 0 =>
            \E k \in 0..Len(Sent(b)) :
                /\ Sent(b) = SubSeq(Sent(b), 1, k) \o backlog
                /\ \A i \in 1..k : Sent(b)[i].id # active

\* On one connection nothing of an action follows its end, however late its
\* lines and its second end arrive.
NothingAfterEnd ==
    \A b \in Browsers :
        LET sent == Sent(b) IN
        \A i, j \in 1..Len(sent) :
            i < j /\ sent[i].kind \in EndKinds => sent[j].id # sent[i].id

\* A page that watches an action with an accepted POST is told of an end,
\* unless it leaves, was too slow, or the view goes to another action.
EndReachesPage ==
    \A b \in Browsers, id \in Actions :
        on(b) /\ active = id /\ post[id] = "accepted"
            ~> ~on(b) \/ missed[b] \/ Len(pane[b]) = MaxPane \/ active \notin {0, id}
=============================================================================
