------------------------------ MODULE AdminPage ------------------------------
\* One open admin page (the script of templates.go) against the aggregator that
\* serves it: the events stream with its one-slot channel (AdminHub), the poll
\* of /widgets/hosts behind it, and the console of one approved host, whose
\* output stream and watchers end in a reload.  The page renders two things
\* that change: what the host last reported and the action it is running.
EXTENDS Integers, Sequences

CONSTANTS MaxChanges,    \* bound: changes of what the page shows of the host
          MaxActions,    \* bound: actions asked for
          MaxPageFaults  \* bound: broken streams, failed requests, stops, sleeps

ASSUME AdminPageAssumption ==
    MaxChanges \in Nat /\ MaxActions \in Nat /\ MaxPageFaults \in Nat

VARIABLES serving,   \* the aggregator runs
          starts,    \* how often it was started
          fleet,     \* the host's LastSeen and what comes with it, as a counter
          action,    \* its action in flight: "none", "running", or the "swap" after one
          asked,     \* actions asked for so far
          slot,      \* the channel of this page's subscription: "none" without one
          wire,      \* events written to the stream and not yet dispatched
          page,      \* "loading" or "ready"
          hidden,    \* the tab is in the background and frozen
          stream,    \* esAdmin: "connecting", "open" or "closed"
          timers,    \* reconnects scheduled
          snapshot,  \* lastHostsSnapshot, Unset before the priming poll
          polls,     \* pollHostsOnce: requests (any number) the server has not answered,
          replies,   \* and answers the script has not looked at
          console,   \* the host's output EventSource, or Closed
          click,     \* a POST of this page that is out: its button, or "none"
          watch,     \* the reload timers a finished action left
          unseen,    \* an action this page's subscription was told of, and whose
                     \* console the page has not opened since
          pageFaults

Unset == -1
Events == {"registry", "action"}
Expects == {"report", "version", "restart"}
Closed == [pc |-> "closed", expect |-> "report", baseline |-> Unset]

serverVars == <<serving, starts, fleet, action, asked>>
streamVars == <<slot, wire, stream, timers>>
pollVars == <<snapshot, polls, replies>>
consoleVars == <<console, click, watch>>
pageVars == <<serverVars, streamVars, page, hidden, pollVars, consoleVars, unseen,
              pageFaults>>

InitPage ==
    /\ serving = TRUE /\ starts = 1 /\ fleet = 0 /\ action = "none" /\ asked = 0
    /\ slot = "none" /\ wire = <<>> /\ stream = "closed" /\ timers = 0
    /\ page = "loading" /\ hidden = FALSE
    /\ snapshot = Unset /\ polls = FALSE /\ replies = {}
    /\ console = Closed /\ click = "none" /\ watch = {}
    /\ unseen = FALSE /\ pageFaults = 0

Fault == pageFaults < MaxPageFaults /\ pageFaults' = pageFaults + 1

\* broadcast, as this page's subscription sees it: a full slot drops the event.
Tell(ev) == slot' = IF slot = "empty" THEN ev ELSE slot

\* openLiveOutput is idempotent while a stream is open.
openLiveOutput(expect) ==
    console' = IF console # Closed THEN console
               ELSE [pc |-> "connecting", expect |-> expect, baseline |-> Unset]

\* location.reload(): the browser drops every stream, timer and request.
Reload ==
    /\ page' = "loading"
    /\ slot' = "none" /\ wire' = <<>> /\ stream' = "closed" /\ timers' = 0
    /\ snapshot' = Unset /\ polls' = FALSE /\ replies' = {}
    /\ console' = Closed /\ click' = "none" /\ watch' = {}
    /\ unseen' = FALSE

\* connectAdminStream: the old stream, if any, is closed first.
connectAdminStream ==
    /\ stream' = "connecting" /\ slot' = "none" /\ wire' = <<>> /\ unseen' = FALSE

(* The aggregator *)

\* A report, a decision or a mute changes what the page shows and is notified;
\* forgetting a host is not.
ReportArrives(notified) ==
    /\ serving /\ fleet < MaxChanges
    /\ fleet' = fleet + 1
    /\ IF notified THEN Tell("registry") ELSE UNCHANGED slot
    /\ UNCHANGED <<serving, starts, action, asked, wire, stream, timers, page, hidden,
                   pollVars, consoleVars, unseen, pageFaults>>

\* Push and beginAgentOutput: the marker is set before the page is told.
Push ==
    /\ serving /\ action = "none"
    /\ action' = "running"
    /\ Tell("action")
    /\ unseen' = (unseen \/ (slot # "none" /\ console = Closed))

\* Telegram, the API or another tab pushes an action.
PushElsewhere ==
    /\ asked < MaxActions /\ asked' = asked + 1
    /\ Push
    /\ UNCHANGED <<serving, starts, fleet, wire, stream, timers, page, hidden, pollVars,
                   consoleVars, pageFaults>>

\* The action's result: "done" ends the console that subscribed in time, and the
\* reload is left to a watcher; a console that was still connecting waits on.
Watcher ==
    [kind |-> console.expect,
     since |-> IF console.expect = "report" THEN console.baseline
               ELSE IF console.expect = "version" THEN fleet ELSE starts]

ActionDone ==
    /\ serving /\ action # "none"
    /\ action' = "none"
    /\ IF console.pc = "watching"
       THEN console' = Closed /\ watch' = watch \cup {Watcher}
       ELSE UNCHANGED <<console, watch>>
    /\ UNCHANGED <<serving, starts, fleet, asked, streamVars, page, hidden, pollVars,
                   click, unseen, pageFaults>>

\* A staged self-update: the swap is pushed in the same request, and a console
\* that expects a version subscribes again.
ActionStaged ==
    /\ serving /\ action = "running"
    /\ action' = "swap"
    /\ Tell("action")
    /\ console' = CASE console.pc = "watching" /\ console.expect = "report" -> Closed
                    [] console.pc = "watching" -> [console EXCEPT !.pc = "connecting"]
                    [] OTHER -> console
    /\ watch' = IF console.pc = "watching" /\ console.expect = "report"
                THEN watch \cup {Watcher} ELSE watch
    /\ unseen' = (unseen \/ (slot # "none" /\ console' = Closed))
    /\ UNCHANGED <<serving, starts, fleet, asked, wire, stream, timers, page, hidden, pollVars,
                   click, pageFaults>>

\* The companion's stream is gone: "disconnected" closes the console for good.
ActionDisconnected ==
    /\ serving /\ action # "none"
    /\ action' = "none"
    /\ console' = IF console.pc = "watching" THEN Closed ELSE console
    /\ UNCHANGED <<serving, starts, fleet, asked, streamVars, page, hidden, pollVars,
                   click, watch, unseen, pageFaults>>

\* onerror of the events stream: closed, and a reconnect scheduled.
BreakStream ==
    /\ stream' = "closed" /\ timers' = timers + 1
    /\ slot' = "none" /\ wire' = <<>> /\ unseen' = FALSE

\* Every stream ends (shutdownCtx) and the markers go with the process; the
\* browser reconnects an output stream by itself.
AggregatorStops ==
    /\ serving /\ Fault
    /\ serving' = FALSE /\ action' = "none"
    /\ IF stream = "open" THEN BreakStream ELSE UNCHANGED <<streamVars, unseen>>
    /\ console' = IF console = Closed THEN Closed ELSE [console EXCEPT !.pc = "connecting"]
    /\ UNCHANGED <<starts, fleet, asked, page, hidden, pollVars, click, watch>>

AggregatorStarts ==
    /\ ~ serving
    /\ serving' = TRUE /\ starts' = starts + 1
    /\ UNCHANGED <<fleet, action, asked, streamVars, page, hidden, pollVars, consoleVars,
                   unseen, pageFaults>>

(* The page *)

\* handleAdmin renders, and the script runs: the pane of a pending action is
\* opened, the events stream is connected and the priming poll is sent.
Load ==
    /\ serving /\ page = "loading"
    /\ page' = "ready"
    /\ IF action # "none" THEN openLiveOutput("report") ELSE UNCHANGED console
    /\ stream' = "connecting" /\ polls' = TRUE
    /\ UNCHANGED <<serverVars, slot, wire, timers, hidden, snapshot, replies, click, watch,
                   unseen, pageFaults>>

\* handleAdminEvents subscribes the page.
Subscribe ==
    /\ serving /\ stream = "connecting"
    /\ stream' = "open" /\ slot' = "empty"
    /\ UNCHANGED <<serverVars, wire, timers, page, hidden, pollVars, consoleVars, unseen,
                   pageFaults>>

WriteAdminEvent ==
    /\ slot \in Events
    /\ wire' = Append(wire, slot) /\ slot' = "empty"
    /\ UNCHANGED <<serverVars, stream, timers, page, hidden, pollVars, consoleVars, unseen,
                   pageFaults>>

\* The connection breaks, or is refused by an aggregator that is down.
StreamError ==
    /\ \/ stream \in {"connecting", "open"} /\ Fault
       \/ stream = "connecting" /\ ~ serving /\ UNCHANGED pageFaults
    /\ BreakStream
    /\ UNCHANGED <<serverVars, page, hidden, pollVars, consoleVars>>

OnRegistry ==
    /\ ~ hidden /\ wire # <<>> /\ Head(wire) = "registry"
    /\ Reload
    /\ UNCHANGED <<serverVars, hidden, pageFaults>>

OnAction ==
    /\ ~ hidden /\ wire # <<>> /\ Head(wire) = "action"
    /\ wire' = Tail(wire)
    /\ openLiveOutput("report")
    /\ unseen' = FALSE
    /\ UNCHANGED <<serverVars, slot, stream, timers, page, hidden, pollVars, click, watch,
                   pageFaults>>

Reconnect ==
    /\ ~ hidden /\ timers > 0
    /\ timers' = timers - 1
    /\ connectAdminStream
    /\ UNCHANGED <<serverVars, page, hidden, pollVars, consoleVars, pageFaults>>

\* The interval's poll; one at a time here, besides those of Show and Online.
PollTick ==
    /\ page = "ready" /\ ~ hidden /\ ~ polls /\ replies = {}
    /\ polls' = TRUE
    /\ UNCHANGED <<serverVars, streamVars, page, hidden, snapshot, replies, consoleVars,
                   unseen, pageFaults>>

AnswerPoll ==
    /\ polls /\ polls' = FALSE
    /\ \/ serving /\ replies' = replies \cup {fleet} /\ UNCHANGED pageFaults
       \/ ~ serving /\ UNCHANGED <<replies, pageFaults>>
       \/ Fault /\ UNCHANGED replies
    /\ UNCHANGED <<serverVars, streamVars, page, hidden, snapshot, consoleVars, unseen>>

HandleReplyRenewed(n) ==                \* mutant: each answer is the new snapshot
    /\ ~ hidden /\ n \in replies
    /\ snapshot' = n /\ replies' = replies \ {n}
    /\ UNCHANGED <<serverVars, hidden, pageFaults, streamVars, page, polls, consoleVars,
                   unseen>>

\* pollHostsOnce's answer: the first one is the snapshot, a different one reloads.
HandleReply(n) ==
    /\ ~ hidden /\ n \in replies
    /\ \/ /\ snapshot \in {Unset, n}
          /\ snapshot' = n /\ replies' = replies \ {n}
          /\ UNCHANGED <<streamVars, page, polls, consoleVars, unseen>>
       \/ snapshot \notin {Unset, n} /\ Reload
    /\ UNCHANGED <<serverVars, hidden, pageFaults>>

Hide ==
    /\ ~ hidden /\ Fault
    /\ hidden' = TRUE
    /\ UNCHANGED <<serverVars, streamVars, page, pollVars, consoleVars, unseen>>

\* visibilitychange
Show ==
    /\ hidden
    /\ hidden' = FALSE
    /\ polls' = (polls \/ page = "ready")
    /\ IF page = "ready" /\ stream = "closed" THEN connectAdminStream
                                              ELSE UNCHANGED <<stream, slot, wire, unseen>>
    /\ UNCHANGED <<serverVars, timers, page, snapshot, replies, consoleVars, pageFaults>>

\* The browser is online again.
Online ==
    /\ page = "ready" /\ ~ hidden /\ Fault
    /\ connectAdminStream
    /\ polls' = TRUE
    /\ UNCHANGED <<serverVars, timers, page, hidden, snapshot, replies, consoleVars>>

\* A button of this page: postApply, forceRecheck and postSelfUpdate open the
\* console first and post then.
Click(button) ==
    /\ page = "ready" /\ ~ hidden /\ click = "none"
    /\ asked < MaxActions /\ asked' = asked + 1
    /\ openLiveOutput(IF button = "restart" THEN "version" ELSE button)
    /\ click' = button
    /\ unseen' = FALSE
    /\ UNCHANGED <<serving, starts, fleet, action, streamVars, page, hidden, pollVars, watch, pageFaults>>

\* Accepted: an update of the aggregator also starts watchAggregatorRestart.
PostAccepted ==
    /\ click # "none" /\ Push
    /\ click' = "none"
    /\ watch' = IF click = "restart"
                THEN watch \cup {[kind |-> "restart", since |-> starts]} ELSE watch
    /\ UNCHANGED <<serving, starts, fleet, asked, wire, stream, timers, page, hidden, pollVars,
                   console, pageFaults>>

\* Refused (the host is busy, or not connected) or lost: closeLiveOutput, also of a console that was open before.
PostFails ==
    /\ click # "none"
    /\ click' = "none" /\ console' = Closed
    /\ UNCHANGED <<serverVars, streamVars, page, hidden, pollVars, watch, unseen,
                   pageFaults>>

\* The output stream subscribes at the server; the last_seen to compare with is
\* fetched beside it, once.
ConsoleConnects ==
    /\ serving /\ console.pc = "connecting"
    /\ console' = [console EXCEPT !.pc = "watching",
                       !.baseline = IF @ = Unset /\ console.expect = "report" THEN fleet ELSE @]
    /\ UNCHANGED <<serverVars, streamVars, page, hidden, pollVars, click, watch, unseen,
                   pageFaults>>

\* watchReportUpdated, watchComponentVersion and watchAggregatorRestart: a tick
\* that finds the change reloads; after two minutes the watcher gives up.
WatchFires(w) ==
    /\ serving /\ ~ hidden /\ w \in watch
    /\ w.since # IF w.kind = "restart" THEN starts ELSE fleet
    /\ Reload
    /\ UNCHANGED <<serverVars, hidden, pageFaults>>

WatchGivesUp(w) ==
    /\ w \in watch
    /\ watch' = watch \ {w}
    /\ UNCHANGED <<serverVars, streamVars, page, hidden, pollVars, console, click, unseen,
                   pageFaults>>

PollStep == PollTick \/ AnswerPoll \/ \E n \in 0..MaxChanges : HandleReply(n)
EventStep == Subscribe \/ WriteAdminEvent \/ OnRegistry \/ OnAction

PageNext ==
    \/ \E notified \in BOOLEAN : ReportArrives(notified)
    \/ PushElsewhere \/ ActionDone \/ ActionStaged \/ ActionDisconnected
    \/ AggregatorStops \/ AggregatorStarts
    \/ Load \/ PollStep \/ EventStep \/ StreamError \/ Reconnect
    \/ Hide \/ Show \/ Online
    \/ \E button \in Expects : Click(button)
    \/ PostAccepted \/ PostFails \/ ConsoleConnects
    \/ \E w \in watch : WatchFires(w) \/ WatchGivesUp(w)

\* The service manager starts the aggregator, the operator comes back to the tab,
\* a page that is visible keeps its interval, and the streams are served.
PageFairness ==
    /\ WF_pageVars(AggregatorStarts) /\ WF_pageVars(Show) /\ WF_pageVars(Load)
    /\ WF_pageVars(PollStep) /\ WF_pageVars(EventStep)

PageSpec == InitPage /\ [][PageNext]_pageVars /\ PageFairness

\* PageKeepsUp: a page that has its snapshot of the hosts reloads after every later
\* change, also when the change is not notified, its event is dropped, or the
\* stream is down or the tab asleep when it happens (pollHostsOnce); and a page whose
\* subscription was there when an action was pushed opens its console, or loses
\* the subscription, also when the event is dropped behind another one (broadcast,
\* connectAdminStream).
PageKeepsUp ==
    /\ \A n \in 0..MaxChanges : (snapshot = n /\ fleet > n) ~> page = "loading"
    /\ unseen ~> ~ unseen
=============================================================================
