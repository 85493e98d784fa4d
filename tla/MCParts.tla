------------------------------ MODULE MCParts ------------------------------
\* Model-checking instance of seven parts that share no state: the apply button's
\* poller, the self-update check, the settings, the enrolment, the checkers, an
\* admin page and the watcher of a host's presence.  A behaviour chooses one part
\* and leaves the others where they start; since no action reads or writes another
\* part's variables, what holds of every part alone holds of them together.
EXTENDS TelegramBot, SelfUpdateCheck, Settings, Enrolment, Checkers, AdminPage,
        Presence

VARIABLE part      \* the part that runs

MCInitially == <<Text(<<1, 0, 0>>, "none", 0), Dev>>
MCLater == <<Text(<<1, 1, 0>>, "beta", 2), Text(<<1, 0, 10>>, "none", 0)>>
MCReleases == { [number |-> <<24, 10>>, supported |-> TRUE, lts |-> FALSE],
                [number |-> <<26, 4>>, supported |-> TRUE, lts |-> TRUE] }
MCCurrent == <<24, 4>>

partsVars == <<part, bot, checkVars, settingsVars, enrolVars, checkersVars, pageVars, watchVars>>

Init ==
    /\ part \in {"bot", "check", "settings", "enrolment", "checkers", "page",
                 "presence"}
    /\ InitBot /\ InitCheck /\ InitSettings /\ InitEnrolment
    /\ InitCheckers /\ InitPage /\ InitWatch
    /\ part # "checkers" => flavor = "debian" /\ reboot = {}
    /\ part # "presence" => settings = [enabled |-> TRUE, after |-> 1]

BotRuns(A) ==
    /\ part = "bot" /\ A
    /\ UNCHANGED <<part, checkVars, settingsVars, enrolVars, checkersVars, pageVars, watchVars>>
CheckRuns(A) ==
    /\ part = "check" /\ A
    /\ UNCHANGED <<part, bot, settingsVars, enrolVars, checkersVars, pageVars, watchVars>>
SettingsRun(A) ==
    /\ part = "settings" /\ A
    /\ UNCHANGED <<part, bot, checkVars, enrolVars, checkersVars, pageVars, watchVars>>
EnrolmentRuns(A) ==
    /\ part = "enrolment" /\ A
    /\ UNCHANGED <<part, bot, checkVars, settingsVars, checkersVars, pageVars, watchVars>>
CheckersRun(A) ==
    /\ part = "checkers" /\ A
    /\ UNCHANGED <<part, bot, checkVars, settingsVars, enrolVars, pageVars, watchVars>>
PageRuns(A) ==
    /\ part = "page" /\ A
    /\ UNCHANGED <<part, bot, checkVars, settingsVars, enrolVars, checkersVars, watchVars>>
PresenceRuns(A) ==
    /\ part = "presence" /\ A
    /\ UNCHANGED <<part, bot, checkVars, settingsVars, enrolVars, checkersVars, pageVars>>

Next ==
    \/ BotRuns(BotNext) \/ CheckRuns(CheckNext) \/ SettingsRun(SettingsNext)
    \/ EnrolmentRuns(EnrolmentNext) \/ CheckersRun(CheckersNext)
    \/ PageRuns(PageNext) \/ PresenceRuns(WatchNext)

\* The fairness of each part's own specification, for the part that runs.
Fairness ==
    /\ WF_partsVars(BotRuns(BotStep)) /\ WF_partsVars(BotRuns(stopping /\ RestartBot))
    /\ WF_partsVars(CheckRuns(Tick))
    /\ \A r \in Refreshers : WF_partsVars(CheckRuns(RefreshStep(r)))
    /\ WF_partsVars(PageRuns(AggregatorStarts)) /\ WF_partsVars(PageRuns(Show))
    /\ WF_partsVars(PageRuns(Load))
    /\ WF_partsVars(PresenceRuns(Round))
    /\ WF_partsVars(PageRuns(PollStep)) /\ WF_partsVars(PageRuns(EventStep))

Spec == Init /\ [][Next]_partsVars /\ Fairness

\* LatestSettlesHere: LatestSettles, of the behaviours in which the check runs (the
\* others leave it without its first refresh).
LatestSettlesHere == part = "check" => LatestSettles

\* highestRelease's scan against the reference definition, for every list of
\* three of these tags and every channel.
SomeTags == { Text(<<1, 0, 0>>, "none", 0), Text(<<1, 0, 0>>, "rc", 1),
              Text(<<1, 0, 0>>, "rc", 2), Text(<<1, 1, 0>>, "alpha", 1),
              Text(<<0, 9, 10>>, "none", 0), Dev }

ASSUME HighestIsBest ==
    \A a, b, c \in SomeTags, ch \in Channels :
        LET best == highestRelease(<<a, b, c>>, ch)
        IN IF best = <<>> THEN Best(<<a, b, c>>, ch) = {}
                          ELSE best[1] \in Best(<<a, b, c>>, ch)
=============================================================================
