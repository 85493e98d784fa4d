----------------------------- MODULE PartsProofs -----------------------------
(***************************************************************************)
(* Proofs about the small parts, each for itself: what the files promise   *)
(* (Settings, Enrolment), the apply button's poller (TelegramBot), how     *)
(* versions compare (Version), and the agent's loop (AgentLoop).  The      *)
(* parts share no state.                                                   *)
(***************************************************************************)
EXTENDS Settings, Enrolment, TelegramBot, Version, AgentLoop, TLAPS

-----------------------------------------------------------------------------
(* Settings *)

Map(f) == f = [h \in Hosts |-> f[h]]

\* A failed write leaves the memory ahead of the file, and a later write of
\* another host's target takes it along: so the memory, too, must agree with
\* what was acknowledged wherever nothing was refused.
MemoryIsAcked == \A h \in Hosts : h \notin refused => targets[h] = ackedTargets[h]

SettingsInv ==
    /\ Map(targets) /\ Map(targetsFile) /\ Map(ackedTargets)
    /\ \A e \in Editors : request[e].pc = "target" => request[e].host \in Hosts
    /\ request = [e \in Editors |-> request[e]]
    /\ MemoryIsAcked
    /\ AckedIsOnDisk

LEMMA SettingsInit == InitSettings => SettingsInv
BY DEF InitSettings, SettingsInv, Map, MemoryIsAcked, AckedIsOnDisk, NoEntry, Nothing

\* The first half of a request touches neither store.
LEMMA BeginKeeps ==
    ASSUME SettingsInv, NEW e \in Editors, NEW r, Begin(e, r),
           r.pc = "target" => r.host \in Hosts, UNCHANGED <<memory, files, answers>>
    PROVE  SettingsInv'
<1>1. request' = [request EXCEPT ![e] = r]
  BY DEF Begin
<1>2. /\ request' = [f \in Editors |-> request'[f]]
      /\ \A f \in Editors : request'[f].pc = "target" => request'[f].host \in Hosts
  BY <1>1 DEF SettingsInv
<1> QED
  BY <1>2 DEF SettingsInv, memory, files, answers, Map, MemoryIsAcked, AckedIsOnDisk

LEMMA PostStep ==
    ASSUME SettingsInv, NEW e \in Editors,
           \/ \E enabled \in {{}, {TRUE}, {FALSE}}, after \in Graces \cup {None} :
                PostAlertSettings(e, enabled, after)
           \/ \E h \in Hosts :
                \/ \E token \in Tokens \cup {None}, enabled \in BOOLEAN :
                     PostTarget(e, h, token, enabled)
                \/ PostClear(e, h)
    PROVE  SettingsInv'
<1>1. ASSUME NEW enabled, NEW after, PostAlertSettings(e, enabled, after)
      PROVE  SettingsInv'
  <2>1. PICK r : Begin(e, r) /\ r.pc = "alerts"
    BY <1>1 DEF PostAlertSettings
  <2> QED
    BY <1>1, <2>1, BeginKeeps DEF PostAlertSettings
<1>2. ASSUME NEW h \in Hosts, NEW token, NEW enabled, PostTarget(e, h, token, enabled)
      PROVE  SettingsInv'
  <2>1. PICK r : Begin(e, r) /\ r.pc = "target" /\ r.host = h
    BY <1>2 DEF PostTarget
  <2> QED
    BY <1>2, <2>1, BeginKeeps DEF PostTarget
<1>3. ASSUME NEW h \in Hosts, PostClear(e, h)
      PROVE  SettingsInv'
  <2>1. PICK r : Begin(e, r) /\ r.pc = "target" /\ r.host = h
    BY <1>3 DEF PostClear
  <2> QED
    BY <1>3, <2>1, BeginKeeps DEF PostClear
<1> QED
  BY <1>1, <1>2, <1>3

\* A request that ends has none any more; the others keep theirs.
LEMMA EndKeeps ==
    ASSUME SettingsInv, NEW e \in Editors, End(e)
    PROVE  /\ \A f \in Editors : request'[f].pc = "target" => request'[f].host \in Hosts
           /\ request' = [f \in Editors |-> request'[f]]
BY DEF SettingsInv, End, Nothing

LEMMA SetAlertsStep ==
    ASSUME SettingsInv, NEW e \in Editors, SetAlerts(e)
    PROVE  SettingsInv'
<1>1. UNCHANGED <<targets, targetsFile, ackedTargets>>
  BY DEF SetAlerts
<1>2. \A h \in Hosts : h \in refused' <=> h \in refused
  BY SettingsAssumption DEF SetAlerts
<1>3. "alerts" \in refused' \/ alertsFile' = acked'
  BY DEF SetAlerts
<1>4. MemoryIsAcked' /\ AckedIsOnDisk'
  BY <1>1, <1>2, <1>3 DEF SettingsInv, MemoryIsAcked, AckedIsOnDisk
<1> QED
  BY <1>1, <1>4, EndKeeps DEF SettingsInv, SetAlerts, Map

LEMMA SetTargetStep ==
    ASSUME SettingsInv, NEW e \in Editors, SetTarget(e)
    PROVE  SettingsInv'
<1> DEFINE h == request[e].host
           v == request[e].value
<1>1. h \in Hosts
  BY DEF SettingsInv, SetTarget
<1>2. UNCHANGED <<alerts, alertsFile, acked>>
  BY DEF SetTarget
<1>3. CASE UNCHANGED <<targets, targetsFile, ackedTargets, refused>>
  BY <1>2, <1>3, EndKeeps DEF SettingsInv, SetTarget, Map, MemoryIsAcked, AckedIsOnDisk
<1>4. CASE /\ targets' = [targets EXCEPT ![h] = v]
           /\ targetsFile' = targets'
           /\ ackedTargets' = [ackedTargets EXCEPT ![h] = v]
           /\ refused' = refused \ {h}
  <2>1. Map(targets)' /\ Map(targetsFile)' /\ Map(ackedTargets)'
    BY <1>4 DEF SettingsInv, Map
  <2>2. \A g \in Hosts : g \notin refused' => targets'[g] = ackedTargets'[g]
    BY <1>4 DEF SettingsInv, Map, MemoryIsAcked
  <2>3. "alerts" \in refused' \/ alertsFile' = acked'
    BY <1>1, <1>2, <1>4, SettingsAssumption DEF SettingsInv, AckedIsOnDisk
  <2> QED
    BY <1>4, <2>1, <2>2, <2>3, EndKeeps
       DEF SettingsInv, SetTarget, MemoryIsAcked, AckedIsOnDisk
<1>5. CASE /\ targets' = [targets EXCEPT ![h] = v]
           /\ refused' = refused \cup {h}
           /\ UNCHANGED <<targetsFile, ackedTargets>>
  <2>1. Map(targets)' /\ Map(targetsFile)' /\ Map(ackedTargets)'
    BY <1>5 DEF SettingsInv, Map
  <2>2. \A g \in Hosts : g \notin refused' => targets'[g] = ackedTargets'[g]
    BY <1>5 DEF SettingsInv, Map, MemoryIsAcked
  <2>3. AckedIsOnDisk'
    BY <1>2, <1>5 DEF SettingsInv, AckedIsOnDisk
  <2> QED
    BY <1>5, <2>1, <2>2, <2>3, EndKeeps DEF SettingsInv, SetTarget, MemoryIsAcked
<1> QED
  BY <1>3, <1>4, <1>5 DEF SetTarget

LEMMA StoresRestart ==
    ASSUME SettingsInv, RestartStores \/ RestartHandEdited
    PROVE  SettingsInv'
<1>1. /\ targets' = targetsFile /\ targetsFile' = targetsFile /\ ackedTargets' = ackedTargets
      /\ request' = [e \in Editors |-> Nothing]
  BY DEF RestartStores, RestartHandEdited, files, answers
<1>2. \A h \in Hosts : h \in refused' <=> h \in refused
  BY SettingsAssumption DEF RestartStores, RestartHandEdited, answers
<1>3. "alerts" \in refused' \/ alertsFile' = acked'
  BY DEF SettingsInv, AckedIsOnDisk, RestartStores, RestartHandEdited, files, answers
<1>4. MemoryIsAcked' /\ AckedIsOnDisk'
  BY <1>1, <1>2, <1>3 DEF SettingsInv, MemoryIsAcked, AckedIsOnDisk
<1> QED
  BY <1>1, <1>4 DEF SettingsInv, Map, Nothing

LEMMA SettingsInvHolds == SettingsSpec => []SettingsInv
<1>1. ASSUME SettingsInv, UNCHANGED settingsVars PROVE SettingsInv'
  BY <1>1 DEF SettingsInv, settingsVars, memory, files, answers, Map, MemoryIsAcked,
     AckedIsOnDisk
<1>2. SettingsInv /\ [SettingsNext]_settingsVars => SettingsInv'
  BY <1>1, PostStep, SetAlertsStep, SetTargetStep, StoresRestart DEF SettingsNext
<1> QED
  BY SettingsInit, <1>2, PTL DEF SettingsSpec

\* Unless a later request on the same thing was refused, what an admin was told
\* is saved is what the file holds, for any number of admins, hosts, failed
\* writes and restarts (AlertStore.Set, NotifyStore.Set, Delete and Load).
THEOREM AckedSurvives == SettingsSpec => []AckedIsOnDisk
BY SettingsInvHolds, PTL DEF SettingsInv

-----------------------------------------------------------------------------
(* Enrolment *)

\* Nobody outside the agent's process has an identity.
NobodyKnown ==
    /\ me = NoFile /\ socket = NoFile /\ companion = NoFile /\ admitted = NoFile
    /\ \A i \in Ids : registry[i] = "absent" /\ registryFile[i] = "absent"

\* Until the first write is done there is nothing to be known; the agent that
\* is past it works under what the file holds.
IdentityInv ==
    /\ idFile \in Ids \cup {NoFile, Torn} /\ generated \in 0..MaxIds
    /\ registry = [i \in Ids |-> registry[i]]
    /\ registryFile = [i \in Ids |-> registryFile[i]]
    /\ {me, socket, companion, admitted} \subseteq Ids \cup {NoFile}
    /\ agent \in {"down", "creating", "enrolling", "running"}
    /\ idFile \notin Ids => NobodyKnown
    /\ agent = "creating" => idFile = Torn /\ generated \in Ids
    /\ agent \in {"enrolling", "running"} => me \in Ids
    /\ OneIdentityPerHost

LEMMA IdentityInit == InitEnrolment => IdentityInv
BY EnrolmentAssumption
   DEF InitEnrolment, IdentityInv, NobodyKnown, OneIdentityPerHost, Ids, NoFile, Torn

LEMMA NoIds == NoFile \notin Ids /\ Torn \notin Ids /\ NoFile # Torn
BY DEF Ids, NoFile, Torn

LEMMA AgentStartStep ==
    ASSUME IdentityInv, LoadIdentity \/ CreateIdentity \/ SaveIdentity
    PROVE  IdentityInv'
<1>1. CASE LoadIdentity
  BY <1>1, NoIds DEF LoadIdentity, Serve, aggregatorVars, IdentityInv, OneIdentityPerHost
<1>2. CASE CreateIdentity
  <2>1. generated + 1 \in Ids /\ generated + 1 \in 0..MaxIds
    BY <1>2, EnrolmentAssumption DEF CreateIdentity, IdentityInv, Ids
  <2> QED
    BY <1>2, <2>1, NoIds
       DEF CreateIdentity, aggregatorVars, IdentityInv, NobodyKnown, OneIdentityPerHost
<1>3. CASE SaveIdentity
  BY <1>3, NoIds
     DEF SaveIdentity, Serve, aggregatorVars, IdentityInv, NobodyKnown, OneIdentityPerHost
<1> QED
  BY <1>1, <1>2, <1>3

\* A change of the record of the host's own identity.
LEMMA SavedKeeps ==
    ASSUME IdentityInv, NEW id \in Ids, id = idFile, NEW status,
           Saved([registry EXCEPT ![id] = status]),
           UNCHANGED <<idFile, generated, me, socket, companion, admitted>>,
           agent' \in {"down", "creating", "enrolling", "running"},
           agent' = "creating" => agent = "creating",
           agent' \in {"enrolling", "running"} => me \in Ids
    PROVE  IdentityInv'
<1>1. registry' = [registry EXCEPT ![id] = status]
  BY DEF Saved
<1>2. registryFile' = registry' \/ registryFile' = registryFile
  BY DEF Saved
<1>3. /\ registry' = [i \in Ids |-> registry'[i]]
      /\ registryFile' = [i \in Ids |-> registryFile'[i]]
  BY <1>1, <1>2 DEF IdentityInv
<1>4. \A i \in Ids \ {id} : registry'[i] = registry[i]
  BY <1>1 DEF IdentityInv
<1>5. OneIdentityPerHost'
  BY <1>2, <1>4 DEF IdentityInv, OneIdentityPerHost
<1> QED
  BY <1>3, <1>5, NoIds DEF IdentityInv

LEMMA RegistryStep ==
    ASSUME IdentityInv,
           \/ Enroll \/ EnrollLost
           \/ \E id \in Ids : \E status \in {"approved", "rejected", "absent"} :
                Decide(id, status)
    PROVE  IdentityInv'
<1>1. CASE Enroll
  <2>1. me \in Ids /\ me = idFile
    BY <1>1 DEF Enroll, IdentityInv, OneIdentityPerHost
  <2> DEFINE status == IF registry[me] = "absent" THEN "pending" ELSE registry[me]
  <2>2. Saved([registry EXCEPT ![me] = status])
    BY <1>1 DEF Enroll
  <2> QED
    BY <1>1, <2>1, <2>2, SavedKeeps DEF Enroll
<1>2. CASE EnrollLost
  BY <1>2 DEF EnrollLost, aggregatorVars, IdentityInv, NobodyKnown, OneIdentityPerHost
<1>3. ASSUME NEW id \in Ids, NEW status, Decide(id, status)
      PROVE  IdentityInv'
  <2>1. id = idFile
    BY <1>3 DEF Decide, IdentityInv, OneIdentityPerHost
  <2> QED
    BY <1>3, <2>1, SavedKeeps DEF Decide, IdentityInv
<1> QED
  BY <1>1, <1>2, <1>3

LEMMA CompanionStep ==
    ASSUME IdentityInv, FetchIdentity \/ CompanionRestarts \/ \E id \in Ids : Authenticate(id)
    PROVE  IdentityInv'
<1>1. CASE FetchIdentity
  BY <1>1, NoIds DEF FetchIdentity, aggregatorVars, IdentityInv, NobodyKnown, OneIdentityPerHost
<1>2. CASE CompanionRestarts
  BY <1>2, NoIds
     DEF CompanionRestarts, aggregatorVars, IdentityInv, NobodyKnown, OneIdentityPerHost
<1>3. ASSUME NEW id \in Ids, Authenticate(id) PROVE IdentityInv'
  BY <1>3, NoIds
     DEF Authenticate, aggregatorVars, IdentityInv, NobodyKnown, OneIdentityPerHost
<1> QED
  BY <1>1, <1>2, <1>3

LEMMA CrashStep ==
    ASSUME IdentityInv, AgentCrashes \/ AggregatorRestarts
    PROVE  IdentityInv'
<1>1. CASE AgentCrashes
  BY <1>1, NoIds DEF AgentCrashes, aggregatorVars, IdentityInv, NobodyKnown, OneIdentityPerHost
<1>2. CASE AggregatorRestarts
  BY <1>2 DEF AggregatorRestarts, IdentityInv, NobodyKnown, OneIdentityPerHost
<1> QED
  BY <1>1, <1>2

LEMMA IdentityInvHolds == EnrolmentSpec => []IdentityInv
<1>1. ASSUME IdentityInv, UNCHANGED enrolVars PROVE IdentityInv'
  BY <1>1 DEF IdentityInv, enrolVars, NobodyKnown, OneIdentityPerHost
<1>2. IdentityInv /\ [EnrolmentNext]_enrolVars => IdentityInv'
  BY <1>1, AgentStartStep, RegistryStep, CompanionStep, CrashStep DEF EnrolmentNext
<1> QED
  BY IdentityInit, <1>2, PTL DEF EnrolmentSpec

\* A host is never known under two identities and the companion never speaks
\* under another than the agent, for any number of identities, decisions and
\* crashes (LoadOrCreateIdentity, companiontoken.Listen, Registry.Enroll).
THEOREM IdentityIsUnique == EnrolmentSpec => []OneIdentityPerHost
BY IdentityInvHolds, PTL DEF IdentityInv
-----------------------------------------------------------------------------
(***************************************************************************)
(* What the apply button's poller promises for every number of presses,    *)
(* lost calls and restarts: nothing Telegram has dropped was left          *)
(* unhandled, and no process applies a press twice.                        *)
(***************************************************************************)

Handling == step \in {"handle", "answer", "alert", "clear"}

\* The offset never runs ahead of the update in hand, and what lies below it is
\* handled, but for that update.  Between two batches it names what comes next.
OffsetIsBehind ==
    /\ step = "poll" => 1..(offset - 1) \subseteq handled
    /\ step = "take" => offset =< current /\ 1..(current - 1) \subseteq handled
    /\ Handling => offset = current + 1 /\ 1..(current - 1) \subseteq handled

\* A process applies an update only after its offset has passed it.
ApplyIsBehindOffset ==
    \A u \in UpdateIds :
        /\ applied[u] =< 1 + botRestarts
        /\ u >= offset \/ (u = current /\ step = "handle") => applied[u] =< botRestarts

\* The type invariant without the poller's cancelled context, in the form in
\* which the steps use it.
NumbersOK ==
    /\ sent \in Seq([button : Buttons, kind : Kinds])
    /\ Len(sent) \in Nat /\ Len(sent) =< MaxPresses
    /\ confirmed \in 0..Len(sent)
    /\ keyboard \subseteq Buttons
    /\ answered \subseteq 1..Len(sent) /\ handled \subseteq 1..Len(sent)
    /\ offset \in 0..(Len(sent) + 1)
    /\ current \in Nat /\ current >= 1 /\ last \in 0..Len(sent)
    /\ step \in {"poll", "take", "handle", "answer", "alert", "clear"}
    /\ step # "poll" => current =< last
    /\ applied \in [UpdateIds -> Nat]
    /\ lost \in 0..MaxLost /\ botRestarts \in 0..MaxBotRestarts

BotInv == NumbersOK /\ OffsetIsBehind /\ ConfirmedWasHandled /\ ApplyIsBehindOffset

-----------------------------------------------------------------------------
(* One step *)

LEMMA BotInit == InitBot => BotInv
<1> SUFFICES ASSUME InitBot PROVE BotInv
  OBVIOUS
<1>1. NumbersOK
  BY BotAssumption DEF InitBot, NumbersOK, UpdateIds
<1>2. OffsetIsBehind /\ ConfirmedWasHandled
  BY DEF InitBot, OffsetIsBehind, Handling, ConfirmedWasHandled
<1>3. ApplyIsBehindOffset
  BY DEF InitBot, ApplyIsBehindOffset, UpdateIds
<1> QED
  BY <1>1, <1>2, <1>3 DEF BotInv

\* A press leaves the poller alone.
LEMMA PressStep ==
    ASSUME BotInv, NEW b \in Buttons, NEW k \in Kinds, PressButton(b, k)
    PROVE  BotInv'
<1> DEFINE u == [button |-> b, kind |-> k]
<1>1. sent \in Seq([button : Buttons, kind : Kinds]) /\ u \in [button : Buttons, kind : Kinds]
  BY DEF BotInv, NumbersOK
<1>2. sent' \in Seq([button : Buttons, kind : Kinds]) /\ Len(sent') = Len(sent) + 1
  BY <1>1 DEF PressButton
<1>3. Len(sent) \in Nat /\ Len(sent') =< MaxPresses
  BY <1>1, <1>2, BotAssumption DEF PressButton
<1>4. NumbersOK'
  BY <1>2, <1>3 DEF BotInv, NumbersOK, PressButton, botVars
<1>5. (OffsetIsBehind /\ ConfirmedWasHandled /\ ApplyIsBehindOffset)'
  BY DEF BotInv, PressButton, botVars, OffsetIsBehind, Handling, ConfirmedWasHandled,
     ApplyIsBehindOffset
<1> QED
  BY <1>4, <1>5 DEF BotInv

\* getUpdates between two batches drops handled updates only.
LEMMA ConfirmStep ==
    ASSUME BotInv, step = "poll", ConfirmBelow(offset)
    PROVE  /\ confirmed' \in 0..Len(sent) /\ confirmed' >= offset - 1
           /\ 1..confirmed' \subseteq handled
BY DEF BotInv, NumbersOK, ConfirmBelow, OffsetIsBehind, ConfirmedWasHandled

LEMMA PollingStep ==
    ASSUME BotInv, Poll \/ PollFails
    PROVE  BotInv'
<1>0. Len(sent) \in Nat
  BY DEF BotInv, NumbersOK
<1>1. CASE Poll
  <2>1. PICK c \in 0..Len(sent) :
          confirmed' = c /\ c >= offset - 1 /\ 1..c \subseteq handled
    BY <1>1, ConfirmStep DEF Poll
  <2>2. current' = c + 1 /\ last' = Len(sent)
    BY <1>1, <2>1 DEF Poll
  <2>3. step' = "poll" \/ (step' = "take" /\ c < Len(sent))
    BY <1>1, <2>1, Zenon DEF Poll
  <2>4. /\ sent' = sent /\ keyboard' = keyboard /\ answered' = answered
        /\ offset' = offset /\ applied' = applied /\ handled' = handled
        /\ lost' = lost /\ botRestarts' = botRestarts
    BY <1>1 DEF Poll
  <2>5. NumbersOK'
    <3>1. c + 1 \in Nat /\ c + 1 >= 1 /\ (c < Len(sent) => c + 1 =< Len(sent))
      BY <1>0
    <3> QED
      BY <1>0, <2>1, <2>2, <2>3, <2>4, <3>1 DEF BotInv, NumbersOK
  <2>6. OffsetIsBehind' /\ ConfirmedWasHandled'
    <3>1. 1..(offset - 1) \subseteq handled
      BY <1>1 DEF BotInv, OffsetIsBehind, Poll
    <3>2. ~ Handling'
      BY <2>3 DEF Handling
    <3>3. offset =< c + 1 /\ (c + 1) - 1 = c
      BY <1>0, <2>1 DEF BotInv, NumbersOK
    <3>4. OffsetIsBehind'
      BY <2>1, <2>2, <2>4, <3>1, <3>2, <3>3 DEF OffsetIsBehind
    <3> QED
      BY <2>1, <2>4, <3>4 DEF ConfirmedWasHandled
  <2>7. ApplyIsBehindOffset'
    BY <1>1 DEF BotInv, Poll, ApplyIsBehindOffset
  <2> QED
    BY <2>5, <2>6, <2>7 DEF BotInv
<1>2. CASE PollFails
  <2>1. confirmed' \in 0..Len(sent) /\ 1..confirmed' \subseteq handled
    BY <1>2, ConfirmStep DEF PollFails, BotInv, NumbersOK, ConfirmedWasHandled
  <2>2. NumbersOK'
    BY <1>0, <1>2, <2>1, BotAssumption DEF BotInv, NumbersOK, PollFails, botVars
  <2>3. OffsetIsBehind' /\ ConfirmedWasHandled' /\ ApplyIsBehindOffset'
    BY <1>2, <2>1 DEF BotInv, PollFails, botVars, OffsetIsBehind, Handling,
       ConfirmedWasHandled, ApplyIsBehindOffset
  <2> QED
    BY <2>2, <2>3 DEF BotInv
<1> QED
  BY <1>1, <1>2

\* The handler's first two steps: the offset moves past the update, then its
\* apply is pushed, once.
LEMMA HandleStep ==
    ASSUME BotInv, Take \/ Refuse \/ Apply
    PROVE  BotInv'
<1>0. Len(sent) \in Nat /\ current \in Nat /\ last \in 0..Len(sent) /\ offset \in Nat
      /\ Len(sent) =< MaxPresses
  BY DEF BotInv, NumbersOK
<1>1. CASE Take
  <2>1. step = "take" /\ offset' = current + 1 /\ current =< last /\ offset =< current
    BY <1>0, <1>1 DEF BotInv, NumbersOK, OffsetIsBehind, Take
  <2>2. NumbersOK'
    BY <1>0, <1>1, <2>1 DEF BotInv, NumbersOK, Take, telegramVars
  <2>3. OffsetIsBehind' /\ ConfirmedWasHandled'
    BY <1>0, <1>1, <2>1 DEF BotInv, OffsetIsBehind, Handling, ConfirmedWasHandled, Take,
       telegramVars
  <2>4. ApplyIsBehindOffset'
    <3> SUFFICES ASSUME NEW u \in UpdateIds
                 PROVE  /\ applied[u] =< 1 + botRestarts
                        /\ u >= current + 1 \/ u = current => applied[u] =< botRestarts
      BY <1>1, <2>1 DEF ApplyIsBehindOffset, Take
    <3> QED
      BY <1>0, <2>1, BotAssumption DEF BotInv, ApplyIsBehindOffset, UpdateIds
  <2> QED
    BY <2>2, <2>3, <2>4 DEF BotInv
<1>2. CASE Refuse
  <2>1. NumbersOK'
    BY <1>0, <1>2 DEF BotInv, NumbersOK, Refuse, telegramVars
  <2>2. OffsetIsBehind' /\ ConfirmedWasHandled' /\ ApplyIsBehindOffset'
    BY <1>2 DEF BotInv, OffsetIsBehind, Handling, ConfirmedWasHandled,
       ApplyIsBehindOffset, Refuse, telegramVars
  <2> QED
    BY <2>1, <2>2 DEF BotInv
<1>3. CASE Apply
  <2>1. current \in UpdateIds /\ offset = current + 1
    BY <1>0, <1>3, BotAssumption DEF BotInv, NumbersOK, OffsetIsBehind, Handling, Apply, UpdateIds
  <2>2. NumbersOK'
    BY <1>0, <1>3, <2>1 DEF BotInv, NumbersOK, Apply, telegramVars
  <2>3. OffsetIsBehind' /\ ConfirmedWasHandled'
    BY <1>3 DEF BotInv, OffsetIsBehind, Handling, ConfirmedWasHandled, Apply, telegramVars
  <2>4. ApplyIsBehindOffset'
    <3>1. applied[current] =< botRestarts
      BY <1>3, <2>1 DEF BotInv, ApplyIsBehindOffset, Apply
    <3>2. applied \in [UpdateIds -> Nat] /\ botRestarts \in Nat
      BY DEF BotInv, NumbersOK
    <3> SUFFICES ASSUME NEW u \in UpdateIds
                 PROVE  /\ applied'[u] =< 1 + botRestarts
                        /\ u >= offset => applied'[u] =< botRestarts
      BY <1>3 DEF ApplyIsBehindOffset, Apply
    <3> QED
      BY <1>3, <2>1, <3>1, <3>2 DEF BotInv, ApplyIsBehindOffset, Apply, UpdateIds
  <2> QED
    BY <2>2, <2>3, <2>4 DEF BotInv
<1> QED
  BY <1>1, <1>2, <1>3

\* The end of a handler: its update is handled before the next is taken, and
\* before the next poll confirms it.
LEMMA ReturnedStep ==
    ASSUME BotInv, Handling, Returned,
           UNCHANGED <<sent, confirmed, offset, last, stopping, applied, botRestarts>>,
           keyboard' \subseteq Buttons, answered' \subseteq 1..Len(sent),
           lost' \in 0..MaxLost
    PROVE  BotInv'
<1>0. Len(sent) \in Nat /\ current \in Nat /\ current >= 1 /\ last \in 0..Len(sent) /\ offset = current + 1
      /\ current =< last /\ 1..(current - 1) \subseteq handled
  BY DEF BotInv, NumbersOK, OffsetIsBehind, Handling
<1>1. 1..current \subseteq handled'
  BY <1>0 DEF Returned
<1>2. NumbersOK'
  BY <1>0 DEF BotInv, NumbersOK, Returned
<1>3. OffsetIsBehind'
  BY <1>0, <1>1 DEF OffsetIsBehind, Handling, Returned
<1>4. ConfirmedWasHandled'
  BY DEF BotInv, ConfirmedWasHandled, Returned
<1>5. ApplyIsBehindOffset'
  BY <1>0 DEF BotInv, ApplyIsBehindOffset, Returned, UpdateIds
<1> QED
  BY <1>2, <1>3, <1>4, <1>5 DEF BotInv

LEMMA LostType ==
    ASSUME BotInv, MayFail /\ CountFailure
    PROVE  lost' \in 0..MaxLost
<1>1. CASE stopping
  BY <1>1 DEF CountFailure, BotInv, NumbersOK
<1>2. CASE ~stopping
  BY <1>2, BotAssumption DEF MayFail, CountFailure, BotInv, NumbersOK
<1> QED
  BY <1>1, <1>2

LEMMA AnswerStep ==
    ASSUME BotInv, Answer \/ Clear
    PROVE  BotInv'
<1>0. Len(sent) \in Nat /\ last \in 0..Len(sent) /\ (step # "poll" => current \in 1..last)
      /\ lost \in 0..MaxLost /\ keyboard \subseteq Buttons /\ answered \subseteq 1..Len(sent)
  BY DEF BotInv, NumbersOK
<1>1. Handling
  BY DEF Answer, Clear, Handling
<1>2. lost' \in 0..MaxLost
  BY <1>0, LostType DEF Answer, Clear
<1>3. CASE Clear
  <2>1. keyboard' \subseteq Buttons
    BY <1>0, <1>3 DEF Clear
  <2> QED
    BY <1>0, <1>1, <1>2, <1>3, <2>1, ReturnedStep DEF Clear
<1>4. CASE Answer
  <2>1. answered' \subseteq 1..Len(sent)
    <3>1. answered' = answered \cup {current} \/ answered' = answered
      BY <1>4 DEF Answer
    <3>2. current \in 1..Len(sent)
      BY <1>0, <1>4 DEF Answer
    <3> QED
      BY <1>0, <3>1, <3>2
  <2>2. CASE step # "answer"
    BY <1>0, <1>1, <1>2, <1>4, <2>1, <2>2, ReturnedStep DEF Answer
  <2>3. CASE step = "answer"
    <3>2. NumbersOK'
      BY <1>0, <1>2, <1>4, <2>1, <2>3 DEF BotInv, NumbersOK, Answer
    <3>3. OffsetIsBehind' /\ ConfirmedWasHandled' /\ ApplyIsBehindOffset'
      BY <1>4, <2>3 DEF BotInv, OffsetIsBehind, Handling, ConfirmedWasHandled,
         ApplyIsBehindOffset, Answer
    <3> QED
      BY <3>2, <3>3 DEF BotInv
  <2> QED
    BY <2>2, <2>3
<1> QED
  BY <1>3, <1>4

\* A restart forgets the offset, so it owes one more apply per update and
\* nothing else.
LEMMA LifeStep ==
    ASSUME BotInv, Cancel \/ RestartBot
    PROVE  BotInv'
<1>1. CASE Cancel
  <2>1. NumbersOK'
    BY <1>1 DEF BotInv, NumbersOK, Cancel, telegramVars
  <2>2. OffsetIsBehind' /\ ConfirmedWasHandled' /\ ApplyIsBehindOffset'
    BY <1>1 DEF BotInv, OffsetIsBehind, Handling, ConfirmedWasHandled,
       ApplyIsBehindOffset, Cancel, telegramVars
  <2> QED
    BY <2>1, <2>2 DEF BotInv
<1>2. CASE RestartBot
  <2>0. Len(sent) \in Nat
    BY DEF BotInv, NumbersOK
  <2>1. NumbersOK'
    BY <1>2, <2>0, BotAssumption DEF BotInv, NumbersOK, RestartBot, telegramVars
  <2>2. OffsetIsBehind' /\ ConfirmedWasHandled'
    BY <1>2 DEF BotInv, OffsetIsBehind, Handling, ConfirmedWasHandled, RestartBot,
       telegramVars
  <2>3. ApplyIsBehindOffset'
    BY <1>2 DEF BotInv, NumbersOK, ApplyIsBehindOffset, RestartBot
  <2> QED
    BY <2>1, <2>2, <2>3 DEF BotInv
<1> QED
  BY <1>1, <1>2

LEMMA StutterStep == ASSUME BotInv, UNCHANGED bot PROVE BotInv'
<1>1. NumbersOK'
  BY DEF BotInv, NumbersOK, bot, botVars, telegramVars
<1>2. OffsetIsBehind' /\ ConfirmedWasHandled' /\ ApplyIsBehindOffset'
  BY DEF BotInv, OffsetIsBehind, Handling, ConfirmedWasHandled, ApplyIsBehindOffset,
     bot, botVars, telegramVars
<1> QED
  BY <1>1, <1>2 DEF BotInv

LEMMA BotInvHolds == BotSpec => []BotInv
<1>1. BotInv /\ [BotNext]_bot => BotInv'
  BY PressStep, PollingStep, HandleStep, AnswerStep, LifeStep, StutterStep
     DEF BotNext, BotStep
<1> QED
  BY BotInit, <1>1, PTL DEF BotSpec

-----------------------------------------------------------------------------
(* The results *)

\* No press disappears: Telegram drops an update only after its handler has
\* returned, for any number of lost calls and restarts (Run's offset).
THEOREM PressesSurvive == BotSpec => []ConfirmedWasHandled
BY BotInvHolds, PTL DEF BotInv

\* A press is applied at most once by each process, for any number of lost
\* answers (the offset moves before the handler runs).
THEOREM AppliesAreBounded == BotSpec => []AppliedOncePerRun
<1>1. BotInv => AppliedOncePerRun
  BY DEF BotInv, ApplyIsBehindOffset, AppliedOncePerRun
<1> QED
  BY BotInvHolds, <1>1, PTL
-----------------------------------------------------------------------------
(***************************************************************************)
(* What Version's comparison and channels promise for every tag: Compare   *)
(* is a total order on what parses, a pre-release lies below the release   *)
(* of its number, and a tag that meets a channel meets every wider one.    *)
(***************************************************************************)

\* What two parsed tags are compared by, as one formula: the fields in the
\* order of their weight.
Below(a, b) ==
    \/ a.major < b.major
    \/ a.major = b.major /\ a.minor < b.minor
    \/ a.major = b.major /\ a.minor = b.minor /\ a.patch < b.patch
    \/ /\ a.major = b.major /\ a.minor = b.minor /\ a.patch = b.patch
       /\ a.stage < b.stage
    \/ /\ a.major = b.major /\ a.minor = b.minor /\ a.patch = b.patch
       /\ a.stage = b.stage /\ a.pre < b.pre

-----------------------------------------------------------------------------
(* Parsing *)

\* A text that parses yields a Parsed record, and never the error's value.
LEMMA ParseType ==
    ASSUME NEW v \in Texts, parseTag(v) # NoParse
    PROVE  parseTag(v) \in Parsed /\ WellFormed(v)
<1>1. WellFormed(v)
  BY DEF parseTag
<1>2. v.parts[1] \in Nat /\ v.parts[2] \in Nat /\ v.parts[3] \in Nat
  BY <1>1 DEF WellFormed, Texts
<1>3. StageOf[v.suffix] \in 1..4
  BY DEF StageOf, Texts, Stages
<1>4. (IF v.suffix = "none" THEN 0 ELSE v.n) \in Nat
  BY <1>1 DEF WellFormed, Texts
<1> QED
  BY <1>1, <1>2, <1>3, <1>4 DEF parseTag, Parsed

\* The suffix "none" is the highest stage and the only one a release has.
LEMMA StageFacts ==
    ASSUME NEW v \in Texts, parseTag(v) # NoParse
    PROVE  /\ v.suffix = "none" => parseTag(v).stage = 4 /\ parseTag(v).pre = 0
           /\ v.suffix # "none" => parseTag(v).stage < 4 /\ parseTag(v).pre > 0
<1>1. WellFormed(v)
  BY ParseType
<1> QED
  BY <1>1 DEF parseTag, WellFormed, StageOf, Texts, Stages

-----------------------------------------------------------------------------
(* The order on parsed tags *)

\* Order is -1 for Below, 1 for its converse and 0 for equal tags.
LEMMA OrderMeaning ==
    ASSUME NEW a \in Parsed, NEW b \in Parsed
    PROVE  /\ Order(a, b) \in {-1, 0, 1}
           /\ Order(a, b) = -1 <=> Below(a, b)
           /\ Order(a, b) = 1 <=> Below(b, a)
           /\ Order(a, b) = 0 <=> a = b
<1>0. /\ a.major \in Nat /\ a.minor \in Nat /\ a.patch \in Nat /\ a.stage \in Nat /\ a.pre \in Nat
      /\ b.major \in Nat /\ b.minor \in Nat /\ b.patch \in Nat /\ b.stage \in Nat /\ b.pre \in Nat
  BY DEF Parsed
<1>e. (a = b) <=> /\ a.major = b.major /\ a.minor = b.minor /\ a.patch = b.patch
                  /\ a.stage = b.stage /\ a.pre = b.pre
  BY DEF Parsed
<1>1. CASE a.major # b.major
  BY <1>0, <1>1, <1>e DEF Order, cmpInt, Below
<1>2. CASE a.major = b.major /\ a.minor # b.minor
  BY <1>0, <1>2, <1>e DEF Order, cmpInt, Below
<1>3. CASE a.major = b.major /\ a.minor = b.minor /\ a.patch # b.patch
  BY <1>0, <1>3, <1>e DEF Order, cmpInt, Below
<1>4. CASE a.major = b.major /\ a.minor = b.minor /\ a.patch = b.patch
  <2>1. Order(a, b) = IF a.stage # b.stage THEN cmpInt(a.stage, b.stage)
                                            ELSE cmpInt(a.pre, b.pre)
    BY <1>4 DEF Order
  <2> QED
    BY <1>0, <1>4, <1>e, <2>1 DEF cmpInt, Below
<1> QED
  BY <1>1, <1>2, <1>3, <1>4

LEMMA BelowTransitive ==
    ASSUME NEW a \in Parsed, NEW b \in Parsed, NEW c \in Parsed,
           Below(a, b), Below(b, c)
    PROVE  Below(a, c)
BY DEF Parsed, Below

\* Compare answers the same question from both sides: swapping the tags swaps
\* the sign (version.Compare, used as current < latest and latest > current).
THEOREM CompareIsAntisymmetric ==
    ASSUME NEW v \in Texts, NEW w \in Texts, Comparable(v, w)
    PROVE  /\ Compare(v, w) \in {-1, 0, 1}
           /\ Compare(w, v) = - Compare(v, w)
           /\ Compare(v, w) = 0 <=> parseTag(v) = parseTag(w)
<1>1. parseTag(v) \in Parsed /\ parseTag(w) \in Parsed
  BY ParseType DEF Comparable
<1>2. /\ Compare(v, w) \in {-1, 0, 1}
      /\ Compare(v, w) = -1 <=> Below(parseTag(v), parseTag(w))
      /\ Compare(v, w) = 1 <=> Below(parseTag(w), parseTag(v))
      /\ Compare(v, w) = 0 <=> parseTag(v) = parseTag(w)
  BY <1>1, OrderMeaning DEF Compare
<1>3. /\ Compare(w, v) \in {-1, 0, 1}
      /\ Compare(w, v) = -1 <=> Below(parseTag(w), parseTag(v))
      /\ Compare(w, v) = 1 <=> Below(parseTag(v), parseTag(w))
      /\ Compare(w, v) = 0 <=> parseTag(v) = parseTag(w)
  BY <1>1, OrderMeaning DEF Compare
<1> QED
  BY <1>2, <1>3

\* A scan that keeps the greater of two tags keeps the greatest: being newer is
\* transitive (highestRelease, the fleet's "update available").
THEOREM CompareIsTransitive ==
    ASSUME NEW u \in Texts, NEW v \in Texts, NEW w \in Texts,
           Comparable(u, v), Comparable(v, w),
           Compare(u, v) =< 0, Compare(v, w) =< 0
    PROVE  /\ Compare(u, w) =< 0
           /\ Compare(u, w) = 0 => Compare(u, v) = 0 /\ Compare(v, w) = 0
<1>1. parseTag(u) \in Parsed /\ parseTag(v) \in Parsed /\ parseTag(w) \in Parsed
  BY ParseType DEF Comparable
<1> DEFINE a == parseTag(u)
           b == parseTag(v)
           c == parseTag(w)
<1>2. Below(a, b) \/ a = b
  BY <1>1, OrderMeaning DEF Compare
<1>3. Below(b, c) \/ b = c
  BY <1>1, OrderMeaning DEF Compare
<1>4. Below(a, c) \/ (a = c /\ a = b /\ b = c)
  <2>1. CASE Below(a, b) /\ Below(b, c)
    BY <1>1, <2>1, BelowTransitive
  <2> QED
    BY <1>2, <1>3, <2>1
<1>5. /\ Compare(u, w) = -1 <=> Below(a, c)
      /\ Compare(u, w) = 0 <=> a = c
      /\ Compare(u, v) = 0 <=> a = b
      /\ Compare(v, w) = 0 <=> b = c
  BY <1>1, OrderMeaning DEF Compare
<1>6. ~(Below(a, c) /\ a = c)
  BY <1>5
<1> QED
  BY <1>4, <1>5, <1>6

\* Every pre-release of a number is older than its release (parseTag's stages:
\* "a real release outranks every pre-release of the same version").
THEOREM PreReleaseIsOlder ==
    ASSUME NEW v \in Texts, NEW w \in Texts, Comparable(v, w),
           v.parts = w.parts, v.suffix # "none", w.suffix = "none"
    PROVE  Compare(v, w) = -1 /\ IsPreRelease(v) /\ ~IsPreRelease(w)
<1>1. parseTag(v) \in Parsed /\ parseTag(w) \in Parsed /\ WellFormed(v) /\ WellFormed(w)
  BY ParseType DEF Comparable
<1>2. parseTag(v).stage < 4 /\ parseTag(w).stage = 4
  BY StageFacts DEF Comparable
<1>3. /\ parseTag(v).major = parseTag(w).major
      /\ parseTag(v).minor = parseTag(w).minor
      /\ parseTag(v).patch = parseTag(w).patch
  BY <1>1 DEF parseTag
<1>4. Below(parseTag(v), parseTag(w))
  BY <1>1, <1>2, <1>3 DEF Below
<1>5. Compare(v, w) = -1
  BY <1>1, <1>4, OrderMeaning DEF Compare
<1>6. IsPreRelease(v) /\ ~IsPreRelease(w)
  <2>1. parseTag(v).stage # 4
    BY <1>1, <1>2 DEF Parsed
  <2> QED
    BY <1>2, <2>1 DEF IsPreRelease, Comparable
<1> QED
  BY <1>5, <1>6

\* A wider channel offers whatever a narrower one offers, and "release" offers
\* releases only (MeetsChannel, parseChannel).
THEOREM ChannelsAreNested ==
    ASSUME NEW v \in Texts, NEW narrow \in Channels, NEW wide \in Channels,
           parseChannel(wide) =< parseChannel(narrow), MeetsChannel(v, narrow)
    PROVE  /\ MeetsChannel(v, wide)
           /\ narrow = "release" => ~IsPreRelease(v)
<1>1. parseTag(v) \in Parsed
  BY ParseType DEF MeetsChannel
<1>2. parseTag(v).stage \in 1..4
  BY <1>1 DEF Parsed
<1>3. parseChannel(narrow) \in 1..4 /\ parseChannel(wide) \in 1..4
  BY DEF parseChannel, Channels
<1>4. MeetsChannel(v, wide)
  BY <1>2, <1>3 DEF MeetsChannel, ValidChannel
<1>5. ASSUME narrow = "release" PROVE ~IsPreRelease(v)
  BY <1>2, <1>5 DEF MeetsChannel, parseChannel, IsPreRelease
<1> QED
  BY <1>4, <1>5

-----------------------------------------------------------------------------
(***************************************************************************)
(* No rise is missed and no recheck forgotten, for any number of checks,   *)
(* crashes, failed saves and requests.                                     *)
(*                                                                         *)
(* Three statuses are compared: the one on disk, the one in memory and the *)
(* one of the running cycle.  A message is owed for what is on disk, and   *)
(* Diff compares with what is in memory: Announced says that whatever is   *)
(* above the disk was already told, wherever the cycle stands.             *)
(***************************************************************************)

Numbered == {st, previous, disk} \subseteq 0..checks

\* checkMu and its two callers agree about who is in runCheck.
Procs ==
    /\ owner = "none" <=> pc = "idle"
    /\ owner = "loop" => loop = "check"
    /\ owner = "stream" => pushed
    /\ loop = "down" => ~pushed
    /\ pc \in {"notify", "save", "report", "wait"} => st # 0

Reporting == pc \in {"report", "wait"}

\* A file from an earlier cycle was read at the start.
Known == loop # "down" /\ disk # 0 => previous # 0 \/ Reporting

\* What counts more than the file was told since the file was written.
Covered(s) == disk # 0 /\ s # 0 /\ counts[s] > counts[disk] => told >= counts[s]

Announced ==
    /\ loop # "down" /\ ~Reporting => Covered(previous)
    /\ pc = "save" \/ Reporting => Covered(st)

AInv == LoopTypeOK /\ Numbered /\ Procs /\ Known /\ Announced /\ RecheckIsComing

-----------------------------------------------------------------------------
\* TypeOK variable by variable, the flags apart.
LEMMA Types ==
    ASSUME AInv
    PROVE  /\ MaxChecks \in Nat /\ MaxPending \in Nat
           /\ checks \in Nat /\ checks <= MaxChecks
           /\ counts \in [1..MaxChecks -> 0..MaxPending]
           /\ st \in Nat /\ previous \in Nat /\ disk \in Nat
           /\ st <= checks /\ previous <= checks /\ disk <= checks
           /\ told \in Nat
           /\ \A s \in 1..checks : counts[s] \in Nat
BY AgentAssumption DEF AInv, LoopTypeOK, Numbered, Checked

\* Steps that leave the statuses where they are, and the cycle with them.
LEMMA StatusesKept ==
    ASSUME AInv, UNCHANGED <<counts, st, previous, disk, told, pc>>,
           loop # "down" \/ loop' = "down"
    PROVE  Known' /\ Announced'
BY DEF AInv, Known, Announced, Reporting, Covered

\* What the end of a cycle leaves of its callers.
LEMMA UnlockTypes ==
    ASSUME AInv, Unlock
    PROVE  /\ pushed' \in BOOLEAN /\ loop' \in {"down", "enrol", "check", "idle"}
           /\ owner' = "none" /\ pc' = "idle" /\ st' = 0
<1>1. pushed \in BOOLEAN
  BY DEF AInv, LoopTypeOK
<1>2. pushed' \in BOOLEAN
  BY <1>1, Zenon DEF Unlock
<1>3. loop' \in {"down", "enrol", "check", "idle"}
  BY DEF Unlock, AInv, LoopTypeOK
<1> QED  BY <1>2, <1>3 DEF Unlock

\* A process that runs a cycle is up.
LEMMA CycleIsUp ==
    ASSUME AInv, pc # "idle"
    PROVE  loop # "down"
BY DEF AInv, LoopTypeOK, Procs

\* A cycle that ends in a failed check leaves the statuses in memory as they were.
LEMMA CheckFailsStep ==
    ASSUME AInv, CheckFails
    PROVE  AInv'
<1>1. LoopTypeOK' /\ Numbered'
  BY UnlockTypes, Types DEF CheckFails, AInv, LoopTypeOK, Numbered, Checked
<1>2. Procs' /\ RecheckIsComing'
  BY DEF CheckFails, Unlock, AInv, LoopTypeOK, Procs, RecheckIsComing
<1>3. Known' /\ Announced'
  BY DEF CheckFails, Unlock, AInv, Procs, Known, Announced, Reporting, Covered
<1> QED  BY <1>1, <1>2, <1>3 DEF AInv

\* A new status gets a number that nothing refers to yet.
LEMMA CheckDoneStep ==
    ASSUME AInv, CheckDone
    PROVE  AInv'
<1>1. PICK n \in {host, IF previous = 0 THEN 0 ELSE counts[previous]} :
        counts' = [counts EXCEPT ![checks + 1] = n]
  BY DEF CheckDone
<1>2. n \in 0..MaxPending
  BY <1>1, Types, AgentAssumption DEF AInv, LoopTypeOK
<1>3. counts' \in [1..MaxChecks -> 0..MaxPending]
  BY <1>1, <1>2, Types DEF CheckDone
<1>4. LoopTypeOK' /\ Numbered'
  BY <1>3, Types DEF CheckDone, AInv, LoopTypeOK, Numbered, Checked
<1>5. Procs' /\ RecheckIsComing'
  BY Types DEF CheckDone, AInv, Procs, RecheckIsComing
<1>6. \A s \in 1..checks : counts'[s] = counts[s]
  BY <1>1, Types
<1>7. Known' /\ Announced'
  BY <1>6, Types DEF CheckDone, AInv, Known, Announced, Reporting, Covered
<1> QED  BY <1>4, <1>5, <1>7 DEF AInv

\* The message covers the new status, or an earlier one did.
LEMMA NotifyStep ==
    ASSUME AInv, Notify
    PROVE  AInv'
<1>1. st \in 1..checks /\ counts[st] \in 0..MaxPending
  BY Types DEF Notify, AInv, Procs, LoopTypeOK
<1>2. told' \in 0..MaxPending /\ told' >= told
  BY <1>1, Types DEF Notify, AInv, LoopTypeOK
<1>3. LoopTypeOK' /\ Numbered' /\ Procs' /\ RecheckIsComing'
  BY <1>2 DEF Notify, AInv, LoopTypeOK, Numbered, Procs, RecheckIsComing
<1>4. Covered(st)'
  <2> SUFFICES ASSUME disk # 0, counts[st] > counts[disk]
               PROVE  told' >= counts[st]
    BY DEF Notify, Covered
  <2>1. previous # 0 /\ Covered(previous)
    BY CycleIsUp DEF Notify, AInv, Known, Announced, Reporting
  <2>2. CASE counts[st] > counts[previous]
    BY <1>1, <2>1, <2>2, Types DEF Notify, CountRises
  <2>3. CASE ~(counts[st] > counts[previous])
    BY <1>1, <1>2, <2>1, <2>3, Types DEF Covered
  <2> QED  BY <2>2, <2>3
<1>5. Covered(previous)'
  BY <1>2, CycleIsUp, Types DEF Notify, AInv, Announced, Reporting, Covered
<1>6. Known' /\ Announced'
  BY <1>4, <1>5 DEF Notify, AInv, Known, Announced, Reporting
<1> QED  BY <1>3, <1>6 DEF AInv

\* The file catches up with the cycle.
LEMMA SaveStep ==
    ASSUME AInv, Save
    PROVE  AInv' /\ Covered(st)
<1>1. Covered(st) /\ st # 0
  BY DEF Save, AInv, Procs, Announced
<1>2. LoopTypeOK' /\ Numbered' /\ Procs' /\ RecheckIsComing'
  BY AgentAssumption DEF Save, AInv, LoopTypeOK, Numbered, Procs, RecheckIsComing
<1>3. Known' /\ Announced'
  BY <1>1, Types DEF Save, AInv, Known, Announced, Reporting, Covered
<1> QED  BY <1>1, <1>2, <1>3 DEF AInv

\* The status of the cycle becomes the one in memory.
LEMMA FinishStep ==
    ASSUME AInv, Finish
    PROVE  AInv'
<1>1. LoopTypeOK' /\ Numbered'
  BY UnlockTypes, Types DEF Finish, AInv, LoopTypeOK, Numbered, Checked
<1>2. Procs' /\ RecheckIsComing'
  BY DEF Finish, Unlock, AInv, LoopTypeOK, Procs, RecheckIsComing
<1>3. Known' /\ Announced'
  BY DEF Finish, Unlock, AInv, Procs, Known, Announced, Reporting, Covered
<1> QED  BY <1>1, <1>2, <1>3 DEF AInv

\* The other steps of a cycle.
LEMMA CycleStep ==
    ASSUME AInv, SaveFails \/ SendReport
    PROVE  AInv'
<1>1. LoopTypeOK' /\ Numbered' /\ Procs' /\ RecheckIsComing'
  BY DEF SaveFails, SendReport, AInv, LoopTypeOK, Numbered, Procs, RecheckIsComing
<1>2. Known' /\ Announced'
  BY DEF SaveFails, SendReport, AInv, Known, Announced, Reporting, Covered
<1> QED  BY <1>1, <1>2 DEF AInv

\* A crash forgets the memory; a start takes it from the file.
LEMMA ProcessStep ==
    ASSUME AInv, Crash \/ Boot
    PROVE  AInv'
<1>1. CASE Crash
  <2>1. LoopTypeOK' /\ Numbered'
    <3>1. {pushed', slot', unseen'} \subseteq BOOLEAN
      BY <1>1, Zenon DEF Crash
    <3>2. {st', previous', disk'} \subseteq 0..checks /\ {st', previous', disk'} \subseteq Checked
      BY <1>1, Types DEF Crash, Checked
    <3> QED  BY <1>1, <3>1, <3>2 DEF Crash, AInv, LoopTypeOK, Numbered
  <2>2. Procs' /\ RecheckIsComing'
    BY <1>1 DEF Crash, Procs, RecheckIsComing
  <2>3. Known' /\ Announced'
    BY <1>1 DEF Crash, Known, Announced, Reporting
  <2> QED  BY <2>1, <2>2, <2>3 DEF AInv
<1>2. CASE Boot
  <2>1. LoopTypeOK' /\ Numbered' /\ Procs' /\ RecheckIsComing'
    BY <1>2 DEF Boot, AInv, LoopTypeOK, Numbered, Procs, RecheckIsComing
  <2>2. pc = "idle"
    BY <1>2 DEF Boot, AInv, LoopTypeOK, Procs
  <2>3. Known' /\ Announced'
    BY <1>2, <2>2, Types DEF Boot, Known, Announced, Reporting, Covered
  <2> QED  BY <2>1, <2>3 DEF AInv
<1> QED  BY <1>1, <1>2

\* Requests, and what the loop does between cycles.
LEMMA RequestStep ==
    ASSUME AInv,
           \/ EnrolOnce \/ TriggerRecheck \/ PushedRecheck \/ Tick \/ TakeRecheck
           \/ \E n \in 0..MaxPending : HostChanges(n)
    PROVE  AInv'
<1>1. LoopTypeOK'
  BY DEF EnrolOnce, TriggerRecheck, PushedRecheck, Tick, TakeRecheck, HostChanges,
         AInv, LoopTypeOK
<1>2. Numbered'
  BY DEF EnrolOnce, TriggerRecheck, PushedRecheck, Tick, TakeRecheck, HostChanges,
         AInv, Numbered
<1>3. Procs' /\ RecheckIsComing'
  BY DEF EnrolOnce, TriggerRecheck, PushedRecheck, Tick, TakeRecheck, HostChanges,
         AInv, LoopTypeOK, Procs, RecheckIsComing
<1>4. Known' /\ Announced'
  BY StatusesKept
  DEF EnrolOnce, TriggerRecheck, PushedRecheck, Tick, TakeRecheck, HostChanges
<1> QED  BY <1>1, <1>2, <1>3, <1>4 DEF AInv

\* The mutex is taken.
LEMMA LockStep ==
    ASSUME AInv, NEW r \in {"loop", "stream"}, Lock(r)
    PROVE  AInv'
<1>1. LoopTypeOK' /\ Numbered'
  BY DEF Lock, AInv, LoopTypeOK, Numbered
<1>2. Procs' /\ RecheckIsComing'
  BY DEF Lock, Wants, AInv, Procs, RecheckIsComing
<1>3. Known' /\ Announced'
  BY DEF Lock, AInv, Procs, Known, Announced, Reporting, Covered
<1> QED  BY <1>1, <1>2, <1>3 DEF AInv

\* Nothing happens.
LEMMA LoopStutters ==
    ASSUME AInv, UNCHANGED loopVars
    PROVE  AInv'
BY DEF loopVars, AInv, LoopTypeOK, Numbered, Procs, Known, Announced, Reporting, Covered,
       RecheckIsComing

-----------------------------------------------------------------------------
\* Everything the agent has in memory and on disk fits together.
THEOREM AgentIsConsistent == LoopSpec => []AInv
<1>1. InitLoop => AInv
  <2> SUFFICES ASSUME InitLoop PROVE AInv
    OBVIOUS
  <2>1. {pushed, slot, unseen} \subseteq BOOLEAN
    BY Zenon DEF InitLoop
  <2>2. /\ host \in 0..MaxPending /\ checks \in Checked /\ told \in 0..MaxPending
        /\ {st, previous, disk} \subseteq Checked
        /\ {st, previous, disk} \subseteq 0..checks
        /\ counts \in [1..MaxChecks -> 0..MaxPending]
    BY AgentAssumption DEF InitLoop, Checked
  <2>3. LoopTypeOK /\ Numbered
    BY <2>1, <2>2 DEF InitLoop, LoopTypeOK, Numbered
  <2>4. Procs /\ Known /\ Announced /\ RecheckIsComing
    BY DEF InitLoop, Procs, Known, Announced, Reporting, RecheckIsComing
  <2> QED  BY <2>3, <2>4 DEF AInv
<1>2. AInv /\ [LoopNext]_loopVars => AInv'
  BY CheckFailsStep, CheckDoneStep, NotifyStep, SaveStep, FinishStep, CycleStep,
     ProcessStep, RequestStep, LockStep, LoopStutters DEF LoopNext
<1> QED  BY <1>1, <1>2, PTL DEF LoopSpec

\* main.go: the agent's state stays well typed, for any number of checks and
\* crashes; a status in memory or on disk is always one of a check that was done.
THEOREM LoopIsTyped == LoopSpec => []LoopTypeOK
<1>1. AInv => LoopTypeOK
  BY DEF AInv
<1> QED  BY <1>1, AgentIsConsistent, PTL

\* main.go, main: a recheck asked for during another check is still to come.
THEOREM RechecksCome == LoopSpec => []RecheckIsComing
<1>1. AInv => RecheckIsComing
  BY DEF AInv
<1> QED  BY <1>1, AgentIsConsistent, PTL

\* main.go, runCheck: notifying comes before saving, so that a rise is sent at
\* least once before the file it is measured from moves past it.
THEOREM RisesAreAnnounced == LoopSpec => RiseIsAnnounced
<1>1. AInv /\ [LoopNext]_loopVars =>
        [(disk' # disk /\ CountRises(disk, disk')) => told >= counts[disk']]_loopVars
  <2> SUFFICES ASSUME AInv, LoopNext, disk' # disk, CountRises(disk, disk')
               PROVE  told >= counts[disk']
    OBVIOUS
  <2>1. Save
    BY DEF LoopNext, HostChanges, Lock, Crash, Boot, EnrolOnce, TriggerRecheck,
           PushedRecheck, Tick, TakeRecheck, CheckFails, CheckDone, Notify,
           SaveFails, SendReport, Finish
  <2>2. Covered(st) /\ st # 0 /\ disk' = st
    BY <2>1, SaveStep DEF Save, AInv, Procs
  <2> QED  BY <2>2, Types DEF CountRises, Covered
<1> QED  BY <1>1, AgentIsConsistent, PTL DEF LoopSpec, RiseIsAnnounced
=============================================================================
