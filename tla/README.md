# Specifications of update-detector

TLA+ models of the parts of update-detector whose order of events matters, with
the TLC runs that check them on small instances and TLAPS proofs of the main
results for every instance. `PROJECT.json` is the index: components, runs,
mutants, the source lines behind every definition, findings, hazards, theorems.

## 1. The system

An **agent** on each host detects pending updates and reports them to one
**aggregator**. A **companion** on the host, running as root, applies updates
the aggregator pushes to it. Agent and companion hold a server-sent-events
stream to the aggregator; everything else is a request of its own.

| Component | State | Operations | What must hold |
|---|---|---|---|
| CompanionHub (`aggregator/companion.go`) | per agent ID: main slot, agent stream, two in-flight markers, result log, versions, presence flags | Connect, Disconnect, Push, RecordResult, Connected, IsPending | one privileged action at a time; a marker belongs to a live stream; the companion outranks the agent; late teardowns and results do no harm |
| Stream endpoint and client (`server.go`, `agentstream/`) | the handler, its channel, the socket; the client's loop | connect, forward, heartbeat, superseded; dial, read, run, report, retry | an action runs once or is lost with its stream |
| OutputHub and its POST (`output.go`, `companion/output*.go`) | active action, backlog, subscribers; the sink of the client | Begin, Publish, End, Subscribe; Push, Close | a view ends once and correctly; no line twice |
| PresenceWatcher (`presence.go`) | per host: online, offlineSince, alerted | a round per minute | alerts are debounced, paired, sent once per outage, not lost |
| Registry (`registry.go`) | records: status, token hash, last report, mute; one JSON file | Enroll, Report, Authenticate, SetStatus, Forget, mutes, NoteContact | memory and file agree; the latest report is the latest |
| Alert settings, notification targets (`alertconfig.go`, `notifystore.go`) | one JSON file each | Get, Set, Delete | no admin's change is lost |
| Report endpoint, update alerts (`server.go`, `notify.go`) | none of its own | read baseline, Report, diff, send | each change announced once |
| AdminHub (`adminhub.go`) | one-slot channel per page | Subscribe, Notify, NotifyAction | a page learns what it must |
| Self-update check, versions (`selfupdate/`, `version/`) | channel, latest tag | Refresh, SetChannel, Compare | the tag shown meets the channel |
| Agent process (`cmd/update-detector`, `state/`, `aggregatorclient/`, `httpserver/`) | previous status (memory, disk), identity, recheck channel | check, notify, save, report, enrol, recheck | no change missed, across crashes |
| Companion process (`cmd/update-detector-companion`, `companion/`) | the running action; the binary and its staged files | Apply, self-update, staged swap | the host is left with a running companion and a whole binary; a success is one |
| Checkers (`checker/`) | none of their own; the previous status | Check: packages, reboot, release | what the host needs is in the status, or an error is |
| Admin page (`templates.go`, its script) | two event streams, a snapshot, watchers | poll, reload, open and close consoles | the page catches up with what it missed |
| Telegram bot (`telegrambot/`) | update offset | poll, press, apply | one press, one apply |

Components meet in these places. The hub is shared by the stream handlers, the
result and output endpoints, every admin handler that pushes, and the watcher.
The registry is shared by every handler. OutputHub is called by the handlers
that push and by the two endpoints that end an action, each time *after* the
hub's mutex was released. The agent and the companion of a host share one
identity, so one agent ID has two clients.

Hard behaviours: two ends of a connection noticing its loss at different times;
a reconnect overtaking the teardown of the connection before it; results that
arrive after their stream was replaced; one action served by three requests
(push, result, output) in any order; a polling watcher over state that changes
between polls; crashes between notifying, saving and reporting; files written
next to memory; a binary that is staged by one process and swapped by another,
either of which may be stopped; checks of a host that changes meanwhile.

## 2. Modules

| Module | What it is |
|---|---|
| `SingleFlight` | abstract specification: the privileged actions of a host reach its companion one at a time |
| `CompanionHub` | the hub, the stream handlers and the client loops of one agent ID |
| `LiveOutput` | `CompanionHub` composed with OutputHub's begin and end, and the client's output POST |
| `OutputHub` | the lines of a live view: sink, POST, backlog, subscribers, pages |
| `Applier` | the plans of the four appliers: commands, what they ask for, what their failure means |
| `Host` | what actions do to a host: `Applier`, the companion, its files and service, the agent's swap |
| `AgentLoop` | the agent's loop, its detection cycle, its state file, rechecks, crashes |
| `Checkers` | the parts of a check on each platform, over a host that changes meanwhile |
| `Presence` | the watcher over one host's record, streams and alert settings |
| `Reports` | the record of one agent, the registry's file, and the handlers of its reports |
| `Enrolment` | who a host is: identity file, socket, companion, the registry's records |
| `Settings` | the alert settings and the notification targets, their files, their handlers |
| `AdminHub` | the hub of the admin pages, whose broadcasts take no lock |
| `AdminPage` | the script of an open admin page against the aggregator that serves it |
| `Version` | tags, their order, channels |
| `SelfUpdateCheck` | `Version` under the refreshes of a timer and of admins |
| `TelegramBot` | the apply button's poller, and Telegram as it sees it |
| `CompanionHubProofs`, `LiveOutputProofs`, `OutputHubProofs`, `PresenceProofs`, `ReportsProofs`, `HostProofs`, `CheckersProofs` | inductive invariants, lemmas and theorems about the module of the name |
| `PartsProofs` | the same about `AgentLoop`, `Settings`, `Enrolment`, `TelegramBot` and `Version`, none of which uses another |
| `MC*` | the instances TLC checks |

**CompanionHub.** `streams`, `agentStreams`, `pending`, `agentPending` are the
hub's maps at one key; every operation holds the hub's mutex and touches one
key, so each is one action and one key shows every behaviour. A connection is a
`streamEntry` with the handler serving it and the socket: `state[c]` is the
handler's side, `client[k]` the side of process `k`, and they change
independently. `closed[c]` is the `superseded` channel. `act[id]` follows an
action from the channel to its result. `Connect` is split by the branches of the
code; a `close` of a closed channel is the `Panic` outcome, with what was written
before it left in place. `Disconnect` is the handler's return at any moment,
`Drop` the client's loss of the stream, `Crash` the death of a process,
`Restart` the aggregator's. `Push` is used by all admin handlers and by the swap
that follows a staged result, which is a step of its own because the mutex was
released; its second argument names the staged action, over once the swap is
queued. Left out: the log of results, versions and presence flags (shown, never
read by the hub), authentication, and backoff times (fairness instead).

**LiveOutput.** `active` is OutputHub's map at the key. `toBegin` and `toEnd` are
the handlers between two critical sections. `post[id]` is the output POST.
`ended`, `failed` and `late` are history. The hub's actions are used as they are.

**OutputHub.** The other half of a live view, with when actions are pushed and
markers cleared left to any order the hub allows. `sink[id]` is the client's
channel with what is on its way from there, `dropped[id]` its counter; a line
behind a marker is a step of its own, because the pump may empty the channel in
between. `backlog` and `chan[b]` are OutputHub's; `replay[b]` is the snapshot that
`Subscribe` returned and the handler has not written yet. `pane[b]` is what the
page shows, `base[b]` how much of it is from an earlier connection of the same
EventSource. A line is its number; `told` follows what a reader of the sink's
output knows. Accepting a POST is a choice that may refuse it while the action
runs, for the hub may have forgotten the action.

**Presence.** A round reads settings, registry and hub in turn; no handler writes
two of them, so the reads commute with the writes and a round is one action. Time
is counted in rounds, `MaxGap` letting a slow round delay the next; `down` is the
age of `offlineSince`, `mute` what is left of `MutedUntil`, and both need not be
told apart beyond the longest grace period. `outage`, `alerts` and `sent` are
history, kept from what the rounds saw and not from the watcher's state. A
settings change is any new pair of values. Delivery is not modelled.

**AgentLoop.** `runCheck` is `pc` under the mutex `owner`; `loop` is the main loop's
`select`, `slot` the one-slot recheck channel, `pushed` the stream's goroutine
that waits for a cycle. A status is the number of its check and `level` its count
of updates, standing for each of the four things `Diff` compares. A check that
partly fails carries the previous count over. `Crash` may come anywhere. A state
file that cannot be read back is left out: `Save` replaces it in one rename.

**Reports.** `handleReport` is three steps, for `Get`, `Report` and `NoteContact`
each lock the registry for themselves. Reports have the numbers of their
`CheckedAt` and may overtake each other before and inside their handlers; the
sender gives up after fifteen seconds, so several are in flight. `saved` is the
record in the file: memory is changed first and a write may fail. `news`, `excused`
and `decided` are history.

**AdminHub.** The map of subscribers, a broadcast as one step per subscriber,
because nothing locks it, and both outcomes of a map written while it is ranged
over: the runtime notices and ends the process, or it does not.

**Applier, Host.** `Plan` turns an action into the commands its applier runs;
each carries the upgrades it asks for and what its failure does (`gate`, `main`,
`error`, `note`). `Host` runs them one by one against `pending`, what the package
manager would still apply, and a command may install some of what it asks for and
fail. `job` is the companion's one action with its phase, and `swap` the step of
the agent's `CompleteCompanionSwap`; the two are not coordinated. `tmp`, `new`
and `exe` are the three files of a staged binary, a version or `Partial` or
`Empty`; `tag` is what the container's image tag resolves to. A stop of the
companion's service is two steps, because its context is cancelled before its
process ends and what runs meanwhile still returns. `shown` is the status the
agent serves and Apply validates against; `missed` and `cause` are history.
Package names with a KB number and others are told apart because the Windows
applier sends them to different tools. How an action arrives and its result
leaves is `CompanionHub`'s.

**Checkers.** `Check` is one step per part, in the order of the code, and updates
appear, are installed and the host restarts in between. What a part falls back on,
and which tools share one part, follow each platform. Parsers are abstracted to
which rows they keep. Reading a reboot file or keys is one part.

**Enrolment.** `WriteFile` truncates first, so the identity file is torn between
`CreateIdentity` and `SaveIdentity`. The socket serves what the agent holds in
memory; the companion keeps what it fetched as long as it lives. `registry` and
`registryFile` differ after a failed save, until the next save or restart. A
token is part of its id.

**Settings.** A handler is two steps, for it reads the store, combines and only
then calls the setter; the setter is one, memory and file being under one mutex.
A failed write leaves the memory changed. `acked`, `ackedTargets` and `refused` are
what the admins were told.

**AdminPage.** One page: the events stream, its server side with the one-slot
channel, the poll behind it, the snapshot both compare with, and the console
with its watchers. A reload starts over. `fleet` counts what a poll can see of the
host; `action` is what it runs. The browser may lose a stream, freeze the tab or
come online, all within `MaxPageFaults`. It uses the atomic broadcast: what the
missing lock does is `AdminHub`'s subject.

**Version, SelfUpdateCheck.** A tag is what `parseTag` looks at: its numeric parts,
its suffix, the suffix's number. `Compare` and `MeetsChannel` are total on the
texts, `dev` and garbled ones included. A refresh is three steps: the list is
fetched without the mutex, the channel read under it, the tag stored under it again.

**TelegramBot.** Telegram keeps an update until an offset confirms it and redelivers
the rest. The offset is memory. The handler pushes, answers and clears the
button in three steps; each call may fail, a stop cancels all of them, and a kill
comes anywhere.

## 3. Runs

| Run | Bounds | Shows |
|---|---|---|
| `CompanionHub` | 2 connections per process, 2 actions, channel of 1, POSTs may be lost | types, the hub's safety properties, refinement of `SingleFlight` |
| `CompanionHubLive` | as above, 1 action, POSTs arrive | every marker resolves |
| `LiveOutput` | 1 connection per process, 2 actions | a view ends once, and as disconnected only for a cause |
| `OutputHub` | 1 page, actions of 3 and 1 lines, sink and channel of 1, 2 lines shown | drops are announced where they happened; a page that keeps up gets each line once |
| `OutputHubLive` | 1 page, 2 actions of 1 line, channel of 2 | nothing follows an end; a watching page is told of it |
| `Reports` | 3 reports, 2 updates | a decision holds; a rise reaches the host's bot |
| `Host` | `Host`: 2 names, 2 versions, 1 arrival, 1 fault, on each platform; `AgentLoop`: 4 checks, 2 updates | the binary is whole, a stopped companion has a cause, a reported update is in place, a stale status is rechecked; no rise is missed, no recheck forgotten |
| `Parts` | see below | what the seven small parts promise |
| `AnyLiveStreamConnects` | as `CompanionHub` | violated: see findings |
| `SupersededClosedOnce` | as `CompanionHub` | violated |
| `CleanCloseIsDone` | 1 connection per process, 1 action | violated |
| `BroadcastIsLocked` | 2 pages, 2 handlers | violated |

Two runs check several modules at once. `MCHost` holds `Host` and `AgentLoop`,
`MCParts` the seven modules below; the modules of one such run share no variable
and no action reads another's. Each behaviour chooses one of them (`part`) and
leaves the rest where they start, so that a run explores their sum and not their
product; a property of one module's variables that holds of all its own behaviours
holds of any interleaving with the others. The liveness properties are of the
behaviours in which their part runs.

| Part of `Parts` | Bounds | Shows |
|---|---|---|
| `TelegramBot` | 1 button, 2 presses, 1 lost call, 1 restart | every press is handled |
| `SelfUpdateCheck` | 1 admin and the timer, 2 tags at first, 2 later, 1 channel request, 1 failure | the shown tag settles on a best one of the channel in effect |
| `Settings` | 2 editors, 1 host, 2 tokens, 2 graces, 3 edits, 2 failures or restarts | what was acknowledged is on disk |
| `Enrolment` | 2 identities, 3 decisions, 3 crashes or losses | a host has one identity |
| `Checkers` | 3 updates, 2 releases, 2 changes, 1 fault, on each platform | no need of the host is lost between the parts of a check |
| `AdminPage` | 1 change, 1 action, 1 fault | a page reloads after a change, and opens the console of an action |
| `Presence` | grace 3, mute 2, gap 2, 1 restart | alerts are debounced, paired, once per outage, not lost |

`MCParts` also evaluates `HighestIsBest`: the scan of `highestRelease` agrees with
`Best`, its reference definition, on all lists of three out of six tags and on
every channel.

Bounds. Two connections per process let a new one coexist with the late handler
of the old one; a third adds only another late handler, and connections are
reused once nothing refers to them. Two actions suffice for a stale result
beside a newer marker, for one action queued behind another, and for two views
of one host. A channel of one makes "busy" and "full" reachable; larger ones only
postpone them. Three lines are the fewest for a drop, its marker and a line behind
it; pages do not know of each other, so one is enough. Action IDs are random in
the code and taken as distinct. Grace 3 exceeds gap 2, so an alert needs several
rounds, and a mute can both outlast and be outlasted by it. Four checks are two
cycles with a crash and a failed save between them; three reports are one that is
overtaken by another and one compared with the outcome. `MaxChecks`, `MaxReports`
and `MaxPane` stop an otherwise endless counter.


In `Host`, one name of each kind and two versions tell a right from a wrong one; a
fault is needed once, since the interesting cases are one stop, reboot or agent
crash within an action or swap, and a second one meets a state the first one
leads to. On Windows, whose runs are largest, what is pending varies at first and
nothing arrives later. In `Settings` three edits are two that race and one after
them; two failures are a failed write and a restart. In `Enrolment` two identities
are the right and a wrong one. In `Checkers` one update is known to one tool
only, one is a kernel, and one a row the parser skips. In `SelfUpdateCheck` the
later tags are a beta of the next minor version and a release below it.

Fairness. `CompanionHub`'s `FairSpec` assumes that running goroutines continue: a
handler starts, writes what is queued, and notices a client that is gone (its
context ends, or the 30 s heartbeat fails) or its superseded channel; a client
reads, runs and reports an action, notices a lost stream and dials again (the
backoff is bounded). Nothing is assumed of administrators, losses, crashes or
restarts. `MarkerResolves` also needs `PostMayFail = FALSE`: a client posts a
result once, and on a stream that stays up nothing else clears the marker.
`OutputHub`'s `FairSpec` assumes that the handlers write what they have, that the
pushing and the result's handler go on, and that a client that runs an action
ends it and closes its stream. `Presence` needs only its ticker (`Round`).
`TelegramBot` assumes that the poller goes on and that a process told to stop is
replaced; `SelfUpdateCheck` that its ticker fires and that a refresh that was
begun ends, within its HTTP timeout. `AdminPage` assumes that the aggregator is
started again, that a tab that is shown keeps its interval and its streams are
served, and that somebody looks at it again. All of it is weak fairness.

Deadlock is checked in every passing run but `Parts`: there the parts whose
environment alone drives them come to rest once its bounds are spent.

Every property of a passing run has a mutant: a plausible bug of the mapped code
that makes TLC find the property violated. The mutants stand in the modules just
above the definition they change.

## 4. Findings

1. `AnyLiveStreamConnects`: an agent connected beside a companion is not promoted
   when the companion leaves. Its live stream serves rechecks, yet `Connected` is
   false: the page shows the host offline and the watcher alerts.
2. `SupersededClosedOnce`: companion preempts agent, agent reconnects before its
   old handler returned: `close` of a closed channel. The panic is confined to
   the request, but when the companion has left meanwhile it leaves an entry in
   the main slot that no handler removes (`SlotsAreServed` is stated up to it).
3. `CleanCloseIsDone`: an action that ends between `Push` and `Begin` is shown as
   disconnected though its result was recorded.
4. `BroadcastIsLocked`: `Notify` and `NotifyAction` range over the subscribers
   without the mutex their comment asks for. A page that opens or closes meanwhile
   is a race on the map, which the runtime may end with a fatal error.

Met while modelling, not stated as runs:

- A host rejected and approved again within one poll interval keeps its
  `offlineSince`, against the comment at `presence.go:186-189`.
- A report that was overtaken is stored as the last one and is the next baseline,
  against `server.go:353-356`.
- A recheck takes the live view from an apply that is still running, against
  `output.go:74-77`. Both clients cancel their POST right after `sink.Close()`, so
  what is buffered may be lost, against `Close`'s comment.
- A failed enrolment is never retried, against the log message at `main.go:313` of
  the agent. A host that was forgotten, or whose record was lost with a failed
  save, enrols again only when its agent restarts. An agent that dies within the
  first write of its identity file never starts again: the torn file is an error.
- The companion reports its own failed update as a success when its context is
  cancelled, taking the cancellation for the restart that its update asked for
  (`update-detector-companion/main.go:119-130`); a stop by an operator or by the
  swap of an earlier update looks the same. `SuccessIsInstalled` therefore excepts
  a companion that is being stopped.
- A download that succeeds with an empty body is staged and swapped in: with
  `EmptyBodies = TRUE`, TLC finds `BinaryIsWhole` violated.
- A refresh that read the old channel may store its tag after that of the change;
  the next tick puts it right (`server.go:1348-1349`).
- Of two partial changes of the alert settings the later one may undo the earlier
  (`server.go:229`); a save with a blank token that races a clear brings the token
  back; and a change whose save failed is not undone in memory, so a later save
  makes it durable after all.
- The admin page misses a change between its rendering and its priming poll until
  the next one (`templates.go:1164`); a second click whose POST is refused closes
  the console of the action that runs; and an action pushed while its events
  stream is down is not shown before a reload.

## 5. Proofs

`CompanionHubProofs` proves for any sets of connections, number of actions and
channel capacity (assumption `HubAssumption`: the two kinds of connections are
disjoint, `NoConn` is neither) the type invariant, `OneActionPerCompanionStream`,
`MarkersHaveStreams`, `SlotNotSuperseded`, `SlotsAreServed`, `OnlyCompanionsApply`,
`CompanionNotDemoted`, `MarkerClearedByItsOwn` and the refinement of
`SingleFlight`. The one-at-a-time promise is not inductive: `Push` looks at the
marker, not at the stream. The strengthening `SlotActionIsPending` says that what
the companion in the slot has not ended is what the marker names; it is kept by
a stream taking the slot, which clears the marker, because a connection that was
only dialled carries nothing (`DialingIsFresh`) and a marker never outlives its
stream (`MarkersHaveStreams`). `SlotNotSuperseded` needs that a slot's holder went
through `Connect` (`SlotsAreConnected`), so a new dial never reuses it.

`LiveOutputProofs` first proves that `LiveOutput` *is* the hub: each of its steps is
one of `CompanionHub`'s or leaves the hub alone (`HubStep`), so every theorem above
holds with live views beside it (`HubInside`, `OneFlightBesideViews`). Then, for any
connections, actions and capacity, `EndsOnce` and `DisconnectedHasCause`, from one
invariant, `OutInv`. That an ended view is neither active nor to begin
(`EndedIsOver`) gives the first. The second turns on `ClosePost`, which shows
"disconnected" if the view is still active: `OverIsEnded` says that by then it is
not, for an action whose client, POST and report survived, because the handler
that recorded the result has run `End`, or `toEnd` says it has yet to. This in
turn needs that `Begin` is called once for an action (`ActiveHasBegun`).

`OutputHubProofs` proves the type invariant, `SinkAccountsForAll`, `WatcherSeesAll`
and `NothingAfterEnd` for any number of pages, actions and lines and any
capacities. For the sink (`SinkInv`): a command that has put the marker of its
drops in the channel owes the line behind it and no drop (`MarkersCountAll`), so
what a reader has been told goes on without a gap that no marker counts. For the
pages (`ViewInv`): what one was sent and has still to be sent is one sequence,
split over pane, snapshot and channel, which every step but a subscription keeps,
cuts short, or lengthens by one event (`PageStep`, `BroadcastStep`, the lemmas on
`Parts`). In it everything is of actions whose view has begun, and an action's
end, which cannot be the active one's, is its last event (`PagesAreOrderly`).

`PresenceProofs` proves the type invariant, `OneAlertPerOutage`, `AlertAfterGrace`,
`RecoveryPairsAlert` and `DueAlertIsSent` for any bounds
(`PresenceAssumption`) from one invariant, `StateIsOutage`: the watcher's entry is
exactly what its rounds saw of the outage.

`ReportsProofs` proves the type invariant, `DecisionHolds`, which is inductive as it
stands, and `RiseReachesBot` for any number of reports (`ReportsAssumption`). The
latter speaks of moments when no handler is under way; its strengthening `Owed`
says that in between some handler has stored a report counting at least as much
as the latest, and will announce it. That a new report is stored against a
baseline that is still owed is the case that needs it.

`HostProofs` proves the type invariant and four properties of `Host` for any names,
versions, arrivals and faults. `CompanionDownHasCause` needs that a service that is *going* down has
its cause already (`ServiceInv`). `StaleStatusHasRecheck` needs the same of what a
running cycle has found, since it may be stale by the time it is shown, and that a
job that has changed something (`Dirty`) still reaches its recheck: only the
head of an applier's plan is a gate (`WellGated`), so an apply whose gate fails
has changed nothing. `BinaryIsWhole` and `SuccessIsInstalled` hold
when no download succeeds with an empty body (`EmptyBodies = FALSE`, a hypothesis
of the two theorems); their invariant `FilesInv` says how much of its work a job
has put in place at each phase (`Progress`), that a report without error is true
(`ReportTruth`), and that a service that is stopped runs no job, so that a swap's
rename never meets a job's staging.

`CheckersProofs` proves `HiddenNeedHasError` for any updates, releases, host changes
and failures, on each platform. It takes the property of a finished check apart
into what the parts behind a running one have secured (`CheckersInv`): updates that
stayed available are listed or their part failed (`ListSoFar`), a kernel is
counted or awaits its restart, whichever of the two it was when each part looked
(`KernelSoFar`), and an offered release is still offered (`OfferSoFar`). The last
needs that releases only come and never go, and that version numbers are what
`versionNumber` (`release.go:203`) reads: nothing, or two integers
(`CheckersAssumption`).

`PartsProofs` holds the proofs of five small modules. Of `AgentLoop`, for any number
of checks (`AgentAssumption`): the type invariant, `RiseIsAnnounced` and
`RecheckIsComing`. A rise is measured from the file and announced from
memory; `Announced` says that whatever the status in memory, or that of the cycle
once it has notified, counts above the file was told since the file was written.
It needs that memory is never empty when the file is not (`Known`), and that the
callers and the mutex agree (`Procs`).

Of `Settings` and `Enrolment`, for any number of editors, hosts, tokens, crashes and
decisions: `AckedIsOnDisk` and `OneIdentityPerHost`. A write of one host's target
takes along the others', so what is in *memory* must also be what was acknowledged,
wherever nothing was refused (`MemoryIsAcked`). For identities the invariant is
that nobody knows the host until the first write is done (`NobodyKnown`).

Of `TelegramBot`, for any number of presses, losses and restarts: Telegram drops a
press only once it was handled, and a process applies a press at most once. Between
the two stands the offset: it never runs ahead of the update in hand
(`OffsetIsBehind`), and only updates behind it have been applied by this process
(`ApplyIsBehindOffset`).

Of `Version`: `Compare` is antisymmetric and transitive on all texts that parse, a
pre-release is older than its release, and channels are nested: facts no run checks
beyond the tags of its instance.

Every invariant and every action property that a passing run checks is stated by a
theorem. Only model-checked are the liveness properties (`MarkerResolves`,
`EndReachesPage`, `OutageIsAnnounced`, `PressIsHandled`, `LatestSettlesHere`,
`PageKeepsUp`), which are out of the prover's reach with their fairness, and
`HighestIsBest`: that `highestRelease`, a fold, finds a best tag of every list is an
induction over data. `AdminHub`, `AdminPage` and `SelfUpdateCheck` have no theorem:
what the runs check of them is liveness, or is violated.

## 6. Plan

Done: the hub and its clients, live views, the watcher, the agent, reports, the
execution of actions and the swap, enrolment, settings, the checkers, the admin
page, the self-update check and versions, the apply button; proofs of every
safety property the passing runs check. Next, in this order:

1. Safety steps towards the liveness properties: that the tag `SelfUpdateCheck`
   stores is a best one of the list and channel its refresh read, and that a page's
   snapshot of `AdminPage` is one the aggregator served.
2. The result log of the hub and the message about a finished apply.
3. A second host on the admin page: a reload that one host's report causes closes
   the consoles of all.

## 7. Not modelled

Rendering and the forms of the admin pages other than those named; configuration
from the environment and service wrappers; how deployments are detected (the
outcome is an input of `Host`); the parsing of package managers' output beyond
which rows are kept; delivery and wording of messages; the splitting of output
into lines, a pure function; installers and scripts: none has an order of events
of its own. What an installer script does on the host when an update calls it is
one step of `Host`; the files and settings that it or a recreated container carries
over are left out. Times other than the grace period and mutes. Several hosts: no
operation touches two keys.

## 8. Running

    tlc -workers 2 -config CompanionHub.cfg MCCompanionHub.tla
    tlapm CompanionHubProofs.tla

and likewise for the other runs (`PROJECT.json` names the module of each) and
proof modules.
