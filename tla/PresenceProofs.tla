--------------------------- MODULE PresenceProofs ---------------------------
(***************************************************************************)
(* What Presence promises, for every grace period, mute, gap between       *)
(* rounds and number of restarts.                                          *)
(***************************************************************************)
EXTENDS Presence, TLAPS

\* The watcher's state of the host is exactly what the rounds saw of the
\* outage: it is online, or the outage is as old as offlineSince says and was
\* announced if "alerted" says so.
StateIsOutage ==
    /\ st.online => outage = Up /\ ~st.alerted
    /\ ~st.online => outage = st.down
    /\ st.alerted => announced = 1
    /\ ~st.alerted => announced = 0

IInv == WatchTypeOK /\ StateIsOutage

\* Every operation but a round and a restart leaves the watcher and the
\* history of the outage alone.
WatcherUntouched == UNCHANGED <<st, outage, announced, restarts>>

-----------------------------------------------------------------------------
(* One step *)

LEMMA OlderType ==
    ASSUME NEW age \in 0..MaxAfter, NEW gap \in 1..MaxGap
    PROVE  Older(age, gap) \in 0..MaxAfter
BY PresenceAssumption DEF Older

LEMMA InitInv == InitWatch => IInv
<1> SUFFICES ASSUME InitWatch PROVE IInv
  OBVIOUS
<1>1. Unknown \in Record /\ Untracked \in State
  BY PresenceAssumption DEF Unknown, Untracked, Record, State, RecordStatuses
<1>2. connected \in BOOLEAN
  BY Zenon DEF InitWatch
<1>3. WatchTypeOK
  BY <1>1, <1>2, PresenceAssumption DEF InitWatch, WatchTypeOK
<1>4. StateIsOutage
  BY DEF InitWatch, StateIsOutage, Untracked
<1> QED  BY <1>3, <1>4 DEF IInv

\* A write of the registry keeps the types, the watcher and its silence.
LEMMA WriteInv ==
    ASSUME IInv, NEW rec \in Record, WriteRecord(rec)
    PROVE  IInv' /\ message' = "none"
BY PresenceAssumption DEF IInv, WatchTypeOK, StateIsOutage, WriteRecord

LEMMA RegistryInv ==
    ASSUME IInv,
           \/ EnrollHost \/ ForgetHost \/ Report
           \/ \E status \in {"approved", "rejected"} : SetHostStatus(status)
           \/ \E enabled \in BOOLEAN : SetNotifyDown(enabled)
           \/ \E rounds \in 1..(MaxMute + 1) : SetMutedUntil(rounds)
    PROVE  IInv' /\ message' = "none"
<1>0. entry \in Record /\ Unknown \in Record /\ 0 \in 0..MaxMute
  BY PresenceAssumption DEF IInv, WatchTypeOK, Unknown, Record, RecordStatuses
<1>1. CASE EnrollHost
  <2> DEFINE rec == [Unknown EXCEPT !.status = "pending"]
  <2>1. rec \in Record
    BY <1>0, Zenon DEF Record, RecordStatuses
  <2>2. WriteRecord(rec)
    BY <1>1 DEF EnrollHost
  <2> HIDE DEF rec
  <2> QED  BY <2>1, <2>2, WriteInv
<1>2. CASE ForgetHost
  <2> DEFINE rec == Unknown
  <2>1. rec \in Record
    BY <1>0, Zenon DEF Record, RecordStatuses
  <2>2. WriteRecord(rec)
    BY <1>2 DEF ForgetHost
  <2> HIDE DEF rec
  <2> QED  BY <2>1, <2>2, WriteInv
<1>3. CASE Report
  <2> DEFINE rec == [entry EXCEPT !.seen = TRUE]
  <2>1. rec \in Record
    BY <1>0, Zenon DEF Record, RecordStatuses
  <2>2. WriteRecord(rec)
    BY <1>3 DEF Report
  <2> HIDE DEF rec
  <2> QED  BY <2>1, <2>2, WriteInv
<1>4. CASE \E status \in {"approved", "rejected"} : SetHostStatus(status)
  <2>0. PICK status \in {"approved", "rejected"} : SetHostStatus(status)
    BY <1>4
  <2> DEFINE rec == [entry EXCEPT !.status = status]
  <2>1. rec \in Record
    BY <1>0, Zenon DEF Record, RecordStatuses
  <2>2. WriteRecord(rec)
    BY <2>0 DEF SetHostStatus
  <2> HIDE DEF rec
  <2> QED  BY <2>1, <2>2, WriteInv
<1>5. CASE \E enabled \in BOOLEAN : SetNotifyDown(enabled)
  <2>0. PICK enabled \in BOOLEAN : SetNotifyDown(enabled)
    BY <1>5
  <2> DEFINE rec == [entry EXCEPT !.notifyDown = enabled, !.mute = 0]
  <2>1. rec \in Record
    BY <1>0, Zenon DEF Record, RecordStatuses
  <2>2. WriteRecord(rec)
    BY <2>0 DEF SetNotifyDown
  <2> HIDE DEF rec
  <2> QED  BY <2>1, <2>2, WriteInv
<1>6. CASE \E rounds \in 1..(MaxMute + 1) : SetMutedUntil(rounds)
  <2>0. PICK rounds \in 1..(MaxMute + 1) : SetMutedUntil(rounds)
    BY <1>6
  <2> DEFINE rec == [entry EXCEPT !.notifyDown = TRUE, !.mute = rounds]
  <2>1. rec \in Record
    <3>1. rounds \in 0..MaxMute
      <4>1. rounds \in 1..(MaxMute + 1) /\ rounds <= MaxMute
        BY <2>0 DEF SetMutedUntil
      <4> QED  BY <4>1, PresenceAssumption
    <3> QED  BY <3>1, <1>0, Zenon DEF Record
  <2>2. WriteRecord(rec)
    BY <2>0 DEF SetMutedUntil
  <2> HIDE DEF rec
  <2> QED  BY <2>1, <2>2, WriteInv
<1> QED  BY <1>1, <1>2, <1>3, <1>4, <1>5, <1>6

-----------------------------------------------------------------------------
(* A round *)

LEMMA AgedType ==
    ASSUME NEW rec \in Record, NEW gap \in 1..MaxGap
    PROVE  Aged(rec, gap) \in Record
BY PresenceAssumption DEF Aged, Record

\* A round that does not find the host down ends the outage.
LEMMA OutageEnds ==
    ASSUME IInv, NEW rec \in Record, SkipHost(rec) \/ FindUp(rec)
    PROVE  /\ st' = Untracked /\ outage' = Up /\ announced' = 0
           /\ message' \in {"none", "online"}
           /\ message' = "online" => announced = 1
BY DEF IInv, StateIsOutage, SkipHost, FindUp, Drop, BackOnline

\* A round that finds the host down: the outage starts or grows, and an alert
\* is sent when it is due and was not sent.
LEMMA OutageGrows ==
    ASSUME IInv, NEW rec \in Record, NEW gap \in 1..MaxGap, FindDown(rec, gap)
    PROVE  /\ st' \in State /\ ~st'.online /\ outage' = st'.down
           /\ st'.alerted => announced' = 1
           /\ ~st'.alerted => announced' = 0
           /\ message' \in {"none", "offline"}
           /\ message' = "offline" => outage' >= settings.after
           /\ outage' >= settings.after /\ announced = 0 /\ Wanted(rec)
                => message' = "offline"
<1> DEFINE age  == Older(st.down, gap)
           down == WentDown(age)
<1>1. /\ st \in State /\ settings \in Settings
      /\ st.down \in 0..MaxAfter /\ st.online \in BOOLEAN /\ st.alerted \in BOOLEAN
  BY DEF IInv, WatchTypeOK, State
<1>2. age \in 0..MaxAfter
  BY <1>1, OlderType
<1>3. /\ down \in State /\ down.online = FALSE /\ down.alerted = st.alerted
      /\ st.online => down.down = 0
      /\ ~st.online => down.down = age
  <2>1. CASE st.online
    <3>1. 0 \in 0..MaxAfter
      BY PresenceAssumption
    <3>2. down = [st EXCEPT !.online = FALSE, !.down = 0]
      BY <2>1, Zenon DEF WentDown
    <3> QED  BY <3>1, <3>2, <2>1, <1>1 DEF State
  <2>2. CASE ~st.online
    BY <2>2, <1>1, <1>2 DEF WentDown, State
  <2> QED  BY <2>1, <2>2, Zenon
<1>4. outage' = down.down
  <2>1. CASE st.online
    BY <2>1, <1>3 DEF FindDown, IInv, StateIsOutage
  <2>2. CASE ~st.online
    BY <2>2, <1>1, <1>3 DEF FindDown, IInv, StateIsOutage, Up
  <2> QED  BY <2>1, <2>2
<1>5. CASE /\ AlertDue(down, rec) /\ st' = [down EXCEPT !.alerted = TRUE]
           /\ announced' = IF announced < 2 THEN announced + 1 ELSE announced
           /\ message' = "offline"
  <2>1. /\ st' \in State /\ ~st'.online /\ st'.alerted /\ st'.down = down.down
    BY <1>3, <1>5 DEF State
  <2>2. announced = 0 /\ down.down >= settings.after
    BY <1>3, <1>5 DEF AlertDue, IInv, StateIsOutage
  <2>3. announced' = 1
    BY <2>2, <1>5
  <2>4. outage' = st'.down /\ outage' >= settings.after
    BY <2>1, <2>2, <1>4
  <2>5. message' = "offline"
    BY <1>5
  <2> QED  BY <2>1, <2>3, <2>4, <2>5, Zenon
<1>6. CASE ~AlertDue(down, rec) /\ st' = down /\ message' = "none" /\ announced' = announced
  <2>1. outage' >= settings.after /\ Wanted(rec) => st.alerted
    BY <1>3, <1>4, <1>6 DEF AlertDue
  <2>2. st.alerted => announced = 1
    BY DEF IInv, StateIsOutage
  <2>3. ~st.alerted => announced = 0
    BY DEF IInv, StateIsOutage
  <2> QED  BY <2>1, <2>2, <2>3, <1>3, <1>4, <1>6
<1>7. \/ /\ AlertDue(down, rec) /\ st' = [down EXCEPT !.alerted = TRUE]
         /\ announced' = IF announced < 2 THEN announced + 1 ELSE announced
         /\ message' = "offline"
      \/ ~AlertDue(down, rec) /\ st' = down /\ message' = "none" /\ announced' = announced
  BY Zenon DEF FindDown
<1> QED  BY <1>5, <1>6, <1>7, Zenon

\* The facts of a round that every theorem uses.
LEMMA RoundFacts ==
    ASSUME IInv, Round
    PROVE  /\ IInv'
           /\ message' = "offline" => outage' >= settings.after
           /\ message' = "online" => announced = 1
           /\ outage' >= settings.after /\ announced = 0 /\ Wanted(entry')
                => message' = "offline"
<1>1. PICK gap \in 1..MaxGap : CheckOnce(gap)
  BY DEF Round
<1> DEFINE rec == Aged(entry, gap)
<1>2. /\ entry \in Record /\ settings \in Settings /\ connected \in BOOLEAN
      /\ restarts \in 0..MaxRestarts
  BY DEF IInv, WatchTypeOK
<1>3. rec \in Record
  BY <1>2, AgedType
<1>4. /\ entry' = rec /\ UNCHANGED <<settings, connected, restarts>>
      /\ SkipHost(rec) \/ FindUp(rec) \/ FindDown(rec, gap)
  BY <1>1 DEF CheckOnce
<1> HIDE DEF rec
<1>6. ASSUME st' \in State, outage' \in {Up} \cup 0..MaxAfter, announced' \in 0..2,
             message' \in {"none", "offline", "online"}
      PROVE  WatchTypeOK'
  BY <1>2, <1>3, <1>4, <1>6 DEF WatchTypeOK
<1>7. CASE SkipHost(rec) \/ FindUp(rec)
  <2>1. /\ st' = Untracked /\ outage' = Up /\ announced' = 0
        /\ message' \in {"none", "online"}
        /\ message' = "online" => announced = 1
    BY <1>3, <1>7, OutageEnds
  <2>2. Untracked \in State /\ Untracked.online /\ ~Untracked.alerted
    BY PresenceAssumption DEF Untracked, State
  <2>3. WatchTypeOK'
    <3>1. st' \in State
      BY <2>1, <2>2, Zenon
    <3>2. /\ outage' \in {Up} \cup 0..MaxAfter /\ announced' \in 0..2
          /\ message' \in {"none", "offline", "online"}
      BY <2>1
    <3> QED  BY <3>1, <3>2, <1>6
  <2>4. StateIsOutage'
    BY <2>1, <2>2 DEF StateIsOutage
  <2>5. ~(outage' >= settings.after) /\ message' # "offline"
    BY <2>1, <1>2 DEF Up, Settings
  <2>6. message' = "online" => announced = 1
    BY <2>1
  <2> QED  BY <2>3, <2>4, <2>5, <2>6, Zenon DEF IInv
<1>8. CASE FindDown(rec, gap)
  <2>1. /\ st' \in State /\ ~st'.online /\ outage' = st'.down
        /\ st'.alerted => announced' = 1
        /\ ~st'.alerted => announced' = 0
        /\ message' \in {"none", "offline"}
        /\ message' = "offline" => outage' >= settings.after
        /\ outage' >= settings.after /\ announced = 0 /\ Wanted(rec)
             => message' = "offline"
    BY <1>3, <1>8, OutageGrows
  <2>2. outage' \in 0..MaxAfter
    BY <2>1 DEF State
  <2>3. WatchTypeOK'
    BY <2>1, <2>2, <1>6
  <2>4. StateIsOutage'
    BY <2>1 DEF StateIsOutage
  <2> QED  BY <2>1, <2>3, <2>4, <1>4 DEF IInv
<1> QED  BY <1>4, <1>7, <1>8

\* The steps that send nothing.
LEMMA SilentFacts ==
    ASSUME IInv, WatchNext, ~Round
    PROVE  IInv' /\ message' = "none"
<1>1. CASE Flip
  BY <1>1 DEF Flip, IInv, WatchTypeOK, StateIsOutage
<1>2. CASE RestartWatcher
  <2>1. Untracked \in State /\ Untracked.online /\ ~Untracked.alerted
    BY PresenceAssumption DEF Untracked, State
  <2>2. connected' \in BOOLEAN /\ st' \in State
    BY <2>1, <1>2, Zenon DEF RestartWatcher
  <2>3. WatchTypeOK'
    BY <2>2, <1>2, PresenceAssumption DEF RestartWatcher, IInv, WatchTypeOK
  <2>4. StateIsOutage' /\ message' = "none"
    BY <2>1, <1>2 DEF RestartWatcher, StateIsOutage
  <2> QED  BY <2>3, <2>4 DEF IInv
<1>3. CASE \E new \in Settings : ChangeAlerts(new)
  BY <1>3 DEF ChangeAlerts, IInv, WatchTypeOK, StateIsOutage
<1> QED  BY <1>1, <1>2, <1>3, RegistryInv DEF WatchNext

LEMMA StutterFacts ==
    ASSUME IInv, UNCHANGED watchVars
    PROVE  IInv'
BY DEF IInv, WatchTypeOK, StateIsOutage, watchVars

-----------------------------------------------------------------------------
(* Theorems *)

\* The watcher's entry of the host agrees with what its rounds have seen.
THEOREM StateAgrees == WatchSpec => []IInv
<1>1. IInv /\ [WatchNext]_watchVars => IInv'
  BY RoundFacts, SilentFacts, StutterFacts
<1> QED  BY InitInv, <1>1, PTL DEF WatchSpec

\* The watcher's entry, the record and the settings stay well typed, for any
\* bounds: in particular no age of an outage leaves its range (checkOnce).
THEOREM WatchIsTyped == WatchSpec => []WatchTypeOK
<1>1. IInv => WatchTypeOK
  BY DEF IInv
<1> QED  BY <1>1, StateAgrees, PTL

\* presence.go, checkOnce: "exactly one alert per offline stretch".
THEOREM AlertsOnce == WatchSpec => []OneAlertPerOutage
<1>1. IInv => OneAlertPerOutage
  BY DEF IInv, WatchTypeOK, StateIsOutage, OneAlertPerOutage
<1> QED  BY <1>1, StateAgrees, PTL

\* No alert before the grace period, whatever else happens in between.
THEOREM AlertsAreDebounced == WatchSpec => AlertAfterGrace
<1>1. IInv /\ [WatchNext]_watchVars => [message' = "offline" => outage' >= settings.after]_watchVars
  BY RoundFacts, SilentFacts
<1> QED  BY <1>1, StateAgrees, PTL DEF WatchSpec, AlertAfterGrace

\* A recovery is announced only for an announced outage.
THEOREM RecoveriesArePaired == WatchSpec => RecoveryPairsAlert
<1>1. IInv /\ [WatchNext]_watchVars => [message' = "online" => announced = 1]_watchVars
  BY RoundFacts, SilentFacts
<1> QED  BY <1>1, StateAgrees, PTL DEF WatchSpec, RecoveryPairsAlert

\* No due alert is lost to a mute, the switch or a change of the grace period.
THEOREM DueAlertsAreSent == WatchSpec => DueAlertIsSent
<1>1. IInv => [Round /\ outage' >= settings.after /\ announced = 0 /\ Wanted(entry')
                => message' = "offline"]_watchVars
  BY RoundFacts
<1> QED  BY <1>1, StateAgrees, PTL DEF DueAlertIsSent
=============================================================================
