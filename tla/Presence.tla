------------------------------ MODULE Presence ------------------------------
(***************************************************************************)
(* The PresenceWatcher (internal/aggregator/presence.go) and what it reads *)
(* of ONE host: the host's record in the registry, the alert settings, and *)
(* whether the hub has a stream for it.  The watcher's state of one host   *)
(* depends on nothing of the others.                                       *)
(*                                                                         *)
(* A round reads the settings, the registry and the hub one after the      *)
(* other; no handler writes two of them, so a round is one step.  Time     *)
(* passes between rounds, in units of presenceCheckInterval; ages and what *)
(* is left of a mute are kept instead of times.                            *)
(***************************************************************************)
EXTENDS Integers

CONSTANTS
    MaxAfter,     \* longest grace period an admin may set
    MaxMute,      \* longest temporary mute
    MaxGap,       \* most time between two rounds: a slow round delays the next
    MaxRestarts   \* bound on the restarts of the aggregator

ASSUME PresenceAssumption ==
    /\ MaxAfter \in Nat \ {0} /\ MaxMute \in Nat
    /\ MaxGap \in Nat \ {0} /\ MaxRestarts \in Nat

VARIABLES
    entry,      \* the host's AgentRecord in the registry
    settings,   \* AlertStore.settings
    connected,  \* hub.Connected(id)
    st,         \* PresenceWatcher.states[id]
    restarts,   \* number of restarts so far
    outage,     \* (history) time since a round first found the host down, no
                \* round having found it up or untracked since; Up if none has
    announced,  \* (history) alerts sent about that outage; 2 is "several"
    message     \* (history) the message the last step sent

watchVars == <<entry, settings, connected, st, restarts, outage, announced, message>>

RecordStatuses == {"none", "pending", "approved", "rejected"}
Record   == [status : RecordStatuses, seen : BOOLEAN, notifyDown : BOOLEAN,
             mute : 0..MaxMute]
Settings == [enabled : BOOLEAN, after : 1..MaxAfter]
State    == [online : BOOLEAN, down : 0..MaxAfter, alerted : BOOLEAN]
Untracked == [online |-> TRUE, down |-> 0, alerted |-> FALSE]   \* no entry: a
                    \* new entry starts as this, so the two need no telling apart
Up == -1

\* Ages need not be told apart beyond the longest grace period.
Older(age, gap) == IF age + gap > MaxAfter THEN MaxAfter ELSE age + gap

Unknown == [status |-> "none", seen |-> FALSE, notifyDown |-> TRUE, mute |-> 0]

InitWatch ==
    /\ entry = Unknown
    /\ settings \in Settings
    /\ connected = FALSE
    /\ st = Untracked
    /\ restarts = 0
    /\ outage = Up /\ announced = 0 /\ message = "none"

-----------------------------------------------------------------------------
(* The registry, the settings and the hub                                  *)

WriteRecord(rec) == /\ entry' = rec
              /\ message' = "none"
              /\ UNCHANGED <<settings, connected, st, restarts, outage, announced>>

\* Registry.Enroll of a host that is not known; re-enrolling changes nothing
\* the watcher reads.
EnrollHost == entry.status = "none" /\ WriteRecord([Unknown EXCEPT !.status = "pending"])

\* Registry.SetStatus: approve, reject or revoke.
SetHostStatus(status) ==
    entry.status # "none" /\ WriteRecord([entry EXCEPT !.status = status])

\* Registry.Forget does not look at the host's streams.
ForgetHost == entry.status # "none" /\ WriteRecord(Unknown)

\* Registry.Report sets LastSeen.
Report == entry.status = "approved" /\ WriteRecord([entry EXCEPT !.seen = TRUE])

SetNotifyDown(enabled) ==
    /\ entry.status # "none"
    /\ WriteRecord([entry EXCEPT !.notifyDown = enabled, !.mute = 0])

SetMutedUntilUncapped(rounds) ==    \* mutant: no maxMuteFor check
    /\ entry.status # "none"
    /\ WriteRecord([entry EXCEPT !.notifyDown = TRUE, !.mute = rounds])

\* handleAdminNotifyDown refuses a mute longer than maxMuteFor.
SetMutedUntil(rounds) ==
    /\ entry.status # "none" /\ rounds <= MaxMute
    /\ WriteRecord([entry EXCEPT !.notifyDown = TRUE, !.mute = rounds])

NotifyDownEffective(rec) == rec.notifyDown /\ rec.mute = 0

\* AlertStore.Set, with whatever the admin's request and the stored settings
\* combine to.
ChangeAlerts(new) ==
    /\ settings' = new
    /\ message' = "none"
    /\ UNCHANGED <<entry, connected, st, restarts, outage, announced>>

\* A stream of the host starts or ends.
Flip ==
    /\ connected' = ~connected
    /\ message' = "none"
    /\ UNCHANGED <<entry, settings, st, restarts, outage, announced>>

-----------------------------------------------------------------------------
(* checkOnce                                                               *)

Tracked(rec) == rec.status = "approved" /\ rec.seen

Wanted(rec) == settings.enabled /\ NotifyDownEffective(rec)

\* The recovery branch: the stretch is over whether or not it is announced.
BackOnlineIfAnnounced(rec) ==       \* mutant: a muted return keeps "alerted"
    IF st.alerted /\ ~Wanted(rec) THEN st ELSE Untracked

BackOnline(rec) == Untracked

\* The disconnected branch: debounced, and tracked while muted.
WentDownKeepingAge(age) ==          \* mutant: offlineSince is not set anew
    [st EXCEPT !.online = FALSE, !.down = age]

WentDownAnew(age) ==                \* mutant: offlineSince set by every round
    [st EXCEPT !.online = FALSE, !.down = 0]

WentDown(age) ==
    [st EXCEPT !.online = FALSE, !.down = IF st.online THEN 0 ELSE age]

AlertDueLate(down, rec) ==          \* mutant: "> after"
    ~down.alerted /\ Wanted(rec) /\ down.down > settings.after

AlertDueAgain(down, rec) ==         \* mutant: "alerted" not looked at
    Wanted(rec) /\ down.down >= settings.after

AlertDue(down, rec) ==
    ~down.alerted /\ Wanted(rec) /\ down.down >= settings.after

Drop == Untracked                   \* delete(w.states, id)

SkipHost(rec) ==
    /\ ~Tracked(rec)
    /\ st' = Drop
    /\ outage' = Up /\ announced' = 0 /\ message' = "none"

FindUp(rec) ==
    /\ Tracked(rec) /\ connected
    /\ st' = BackOnline(rec)
    /\ message' = IF st.alerted /\ Wanted(rec) THEN "online" ELSE "none"
    /\ outage' = Up /\ announced' = 0

FindDown(rec, gap) ==
    /\ Tracked(rec) /\ ~connected
    /\ outage' = IF outage = Up THEN 0 ELSE Older(outage, gap)
    /\ LET down == WentDown(Older(st.down, gap))
       IN  \/ /\ AlertDue(down, rec)
              /\ st' = [down EXCEPT !.alerted = TRUE]
              /\ announced' = IF announced < 2 THEN announced + 1 ELSE announced
              /\ message' = "offline"
           \/ /\ ~AlertDue(down, rec)
              /\ st' = down
              /\ message' = "none"
              /\ UNCHANGED announced

\* What is left of the record's mute when gap units have passed.
Aged(rec, gap) == [rec EXCEPT !.mute = IF @ > gap THEN @ - gap ELSE 0]

\* One round, gap units after the one before.
CheckOnce(gap) ==
    /\ entry' = Aged(entry, gap)
    /\ \/ SkipHost(Aged(entry, gap))
       \/ FindUp(Aged(entry, gap))
       \/ FindDown(Aged(entry, gap), gap)
    /\ UNCHANGED <<settings, connected, restarts>>

\* The registry and the settings are on disk; the hub and the watcher are not.
RestartWatcher ==
    /\ restarts < MaxRestarts
    /\ restarts' = restarts + 1
    /\ connected' = FALSE
    /\ st' = Untracked
    /\ outage' = Up /\ announced' = 0 /\ message' = "none"
    /\ UNCHANGED <<entry, settings>>

Round == \E gap \in 1..MaxGap : CheckOnce(gap)

WatchNext ==
    \/ EnrollHost \/ ForgetHost \/ Report \/ Flip \/ RestartWatcher \/ Round
    \/ \E status \in {"approved", "rejected"} : SetHostStatus(status)
    \/ \E enabled \in BOOLEAN : SetNotifyDown(enabled)
    \/ \E rounds \in 1..(MaxMute + 1) : SetMutedUntil(rounds)
    \/ \E new \in Settings : ChangeAlerts(new)

\* The ticker of PresenceWatcher.Run.
WatchSpec == InitWatch /\ [][WatchNext]_watchVars /\ WF_watchVars(Round)

-----------------------------------------------------------------------------
(* Properties                                                              *)

\* The type of every variable.
WatchTypeOK ==
    /\ entry \in Record /\ settings \in Settings
    /\ connected \in BOOLEAN /\ st \in State
    /\ restarts \in 0..MaxRestarts
    /\ outage \in {Up} \cup 0..MaxAfter /\ announced \in 0..2
    /\ message \in {"none", "offline", "online"}

\* An outage is announced at most once, however often the alerts are muted,
\* switched off and on, and their grace period changed, while it lasts.
OneAlertPerOutage == announced <= 1

\* "Went offline" is sent only when every round of the last grace period found
\* the host disconnected: no flap a round saw is ever reported as an outage.
AlertAfterGrace == [][message' = "offline" => outage' >= settings.after]_watchVars

\* "Is back online" is sent only for an outage that was announced.
RecoveryPairsAlert == [][message' = "online" => announced = 1]_watchVars

\* A round that finds the host down for the grace period announces it unless it
\* is muted: unmuting or re-enabling never restarts the debounce.
DueAlertIsSent ==
    [][Round /\ outage' >= settings.after /\ announced = 0 /\ Wanted(entry')
        => message' = "offline"]_watchVars

\* A host that stays down, with its alerts on, is eventually announced.
OutageIsAnnounced ==
    <>[](~connected /\ Tracked(entry) /\ Wanted(entry)) => <>[](announced = 1)

=============================================================================
