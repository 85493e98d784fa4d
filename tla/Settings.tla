------------------------------ MODULE Settings ------------------------------
\* The two stores an admin edits at run time and their handlers: the fleet's
\* alert settings (AlertStore, handleAdminAlertSettings) and the per-host
\* Telegram targets (NotifyStore, handleNotificationsPost).  Each store is a
\* value in memory and a JSON file; a setter changes the memory and rewrites
\* the whole file under one mutex, and does not undo the memory when the file
\* could not be written.  The handlers read first, without the mutex in between.
EXTENDS Integers, FiniteSets, TLC

CONSTANTS Editors,      \* requests of admins in flight
          Hosts,        \* approved hosts
          Tokens,       \* bot tokens an admin may paste
          Graces,       \* grace periods within [1m, 24h]
          MaxEdits,     \* bound: requests
          MaxFailures   \* bound: failed writes, hand edits and restarts

ASSUME SettingsAssumption ==
    /\ "5m" \in Graces
    /\ Tokens # {}
    /\ "alerts" \notin Hosts      \* refused holds both
    /\ MaxEdits \in Nat /\ MaxFailures \in Nat

None == "none"          \* an absent field, a blank token
OutOfRange == "48h"     \* what a hand-edited file may hold

AlertSettings == [enabled : BOOLEAN, after : Graces \cup {OutOfRange}]
\* A target; the chat id is always present once stored and tells nothing apart.
HostNotifyConfigs == [token : Tokens \cup {None}, enabled : BOOLEAN]
NoEntry == [token |-> None, enabled |-> FALSE]

VARIABLES alerts, alertsFile,     \* AlertStore: memory and file
          targets, targetsFile,   \* NotifyStore: memory and file, per host
          request,                \* per editor: what its handler is about to set
          acked,                  \* the alert settings last answered 200
          ackedTargets,           \* per host, the target last answered "saved"
          refused,                \* what the last request on it answered 500: hosts,
                                  \* and "alerts"
          edits, faults

memory == <<alerts, targets>>
files == <<alertsFile, targetsFile>>
answers == <<acked, ackedTargets, refused>>
settingsVars == <<memory, files, request, answers, edits, faults>>

Nothing == [pc |-> "idle"]

\* AfterDuration: whether a grace period is usable.
Usable(grace) == grace \in Graces

\* HostNotifyConfig.Configured, of the entry in memory.
Configured(h) == targets[h].token # None

\* main seeds the alert settings from the environment; Load writes them when
\* there is no file yet.  No file of targets is an empty one.
InitSettings ==
    /\ alerts = [enabled |-> TRUE, after |-> "5m"] /\ alertsFile = alerts
    /\ targets = [h \in Hosts |-> NoEntry] /\ targetsFile = targets
    /\ request = [e \in Editors |-> Nothing]
    /\ acked = alerts /\ ackedTargets = targets /\ refused = {}
    /\ edits = 0 /\ faults = 0

NewEdit == edits < MaxEdits /\ edits' = edits + 1
Begin(e, r) == request[e] = Nothing /\ request' = [request EXCEPT ![e] = r]
End(e) == request' = [request EXCEPT ![e] = Nothing]

\* POST alert settings, first half: the settings are read, the fields the
\* request names replace theirs, and a grace period of the file that is out of
\* range becomes the default.  No field at all, or a bad one, is a 400.  enabled
\* is the set of what the request says, none or one.
PostAlertSettings(e, enabled, after) ==
    /\ NewEdit
    /\ enabled # {} \/ after # None
    /\ LET grace == IF after # None THEN after ELSE alerts.after
       IN Begin(e, [pc |-> "alerts",
                    value |-> [enabled |-> IF enabled # {} THEN TRUE \in enabled
                                           ELSE alerts.enabled,
                               after |-> IF Usable(grace) THEN grace ELSE "5m"]])
    /\ UNCHANGED <<memory, files, answers, faults>>

SetAlertsSavedFirst(e) ==               \* mutant: saves what the memory held
    /\ request[e].pc = "alerts"
    /\ End(e)
    /\ alerts' = request[e].value
    /\ alertsFile' = alerts
    /\ acked' = alerts' /\ refused' = refused \ {"alerts"}
    /\ UNCHANGED <<faults, targets, targetsFile, ackedTargets, edits>>

\* AlertStore.Set: the memory, then saveLocked (a temporary file and a rename).
SetAlerts(e) ==
    /\ request[e].pc = "alerts"
    /\ End(e)
    /\ alerts' = request[e].value
    /\ \/ /\ alertsFile' = alerts'
          /\ acked' = alerts' /\ refused' = refused \ {"alerts"}
          /\ UNCHANGED faults
       \/ /\ faults < MaxFailures /\ faults' = faults + 1
          /\ refused' = refused \cup {"alerts"}
          /\ UNCHANGED <<alertsFile, acked>>
    /\ UNCHANGED <<targets, targetsFile, ackedTargets, edits>>

\* POST notifications, save or test, first half: a blank token is taken from
\* the store (hostNotifyFromForm); with no token at all the form is refused.
PostTarget(e, h, token, enabled) ==
    /\ NewEdit
    /\ LET stored == IF token = None /\ Configured(h) THEN targets[h].token ELSE token
       IN /\ stored # None
          /\ Begin(e, [pc |-> "target", host |-> h,
                       value |-> [token |-> stored, enabled |-> enabled]])
    /\ UNCHANGED <<memory, files, answers, faults>>

\* The clear button's request, about to call Delete.
PostClear(e, h) ==
    /\ NewEdit
    /\ Begin(e, [pc |-> "target", host |-> h, value |-> NoEntry])
    /\ UNCHANGED <<memory, files, answers, faults>>

\* NotifyStore.Set and Delete: the entry in memory, then the file with every
\* entry.  Deleting an entry that is not there writes nothing.
SetTarget(e) ==
    /\ request[e].pc = "target"
    /\ End(e)
    /\ LET h == request[e].host
           v == request[e].value
       IN  \/ /\ v = NoEntry /\ ~ Configured(h)
              /\ UNCHANGED <<targets, targetsFile, ackedTargets, refused, faults>>
           \/ /\ v # NoEntry \/ Configured(h)
              /\ targets' = [targets EXCEPT ![h] = v]
              /\ \/ /\ targetsFile' = targets'
                    /\ ackedTargets' = [ackedTargets EXCEPT ![h] = v]
                    /\ refused' = refused \ {h}
                    /\ UNCHANGED faults
                 \/ /\ faults < MaxFailures /\ faults' = faults + 1
                    /\ refused' = refused \cup {h}
                    /\ UNCHANGED <<targetsFile, ackedTargets>>
    /\ UNCHANGED <<alerts, alertsFile, acked, edits>>

\* The process stops wherever its handlers stand and starts again: both stores
\* load their file.
RestartStores ==
    /\ faults < MaxFailures /\ faults' = faults + 1
    /\ alerts' = alertsFile /\ targets' = targetsFile
    /\ request' = [e \in Editors |-> Nothing]
    /\ UNCHANGED <<files, answers, edits>>

\* The same with the alert file edited by hand in between.
RestartHandEdited ==
    /\ faults < MaxFailures /\ faults' = faults + 1
    /\ alerts' = [alertsFile EXCEPT !.after = OutOfRange] /\ alertsFile' = alerts'
    /\ acked' = alerts' /\ refused' = refused \ {"alerts"}
    /\ targets' = targetsFile
    /\ request' = [e \in Editors |-> Nothing]
    /\ UNCHANGED <<targetsFile, ackedTargets, edits>>

SettingsNext ==
    \/ \E e \in Editors :
         \/ \E enabled \in {{}, {TRUE}, {FALSE}}, after \in Graces \cup {None} :
              PostAlertSettings(e, enabled, after)
         \/ \E h \in Hosts :
              \/ \E token \in Tokens \cup {None}, enabled \in BOOLEAN :
                   PostTarget(e, h, token, enabled)
              \/ PostClear(e, h)
         \/ SetAlerts(e) \/ SetTarget(e)
    \/ RestartStores \/ RestartHandEdited

SettingsSpec == InitSettings /\ [][SettingsNext]_settingsVars

\* AckedIsOnDisk: unless a later request on the same thing was answered 500, what
\* an admin was last told is saved is what the file holds, and so what the next
\* start loads, however requests, failed writes and restarts interleave (the one
\* mutex around the memory and the file, Set, Delete, saveLocked, Load).
AckedIsOnDisk ==
    /\ "alerts" \in refused \/ alertsFile = acked
    /\ \A h \in Hosts : h \in refused \/ targetsFile[h] = ackedTargets[h]
=============================================================================
