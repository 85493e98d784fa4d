------------------------------- MODULE Reports -------------------------------
(***************************************************************************)
(* The record of one agent in the aggregator's registry, the registry's    *)
(* file, and handleReport, which compares a report with the one before it  *)
(* and has the host's own bot announce what is new.                        *)
(*                                                                         *)
(* A report's handler takes the registry's mutex three times: to read the  *)
(* report before, to store the new one, and to note the contact.  The      *)
(* agent (AgentLoop) sends its statuses in the order of their CheckedAt,   *)
(* and after fifteen seconds no longer waits for the answer: a report may  *)
(* be overtaken by later ones on its way and in its handler.  As in        *)
(* AgentLoop, a status is its number, and its content the count of pending *)
(* updates.                                                                *)
(***************************************************************************)
EXTENDS Naturals

CONSTANTS
    MaxReports,  \* bound on reports
    MaxUpdates   \* bound on the updates a report counts

ASSUME ReportsAssumption == MaxReports \in Nat /\ MaxUpdates \in Nat

VARIABLES
    status,    \* AgentRecord.Status, or "absent"
    report,    \* AgentRecord.LastReport, 0 when there is none
    saved,     \* the record in the registry's file: <<status, report>>
    sent,      \* how many reports the agent has sent
    level,     \* level[s]: the updates pending according to report s
    req,       \* req[s]: how far report s has come
    base,      \* base[s]: the previous report its handler read
    bot,       \* the host has its own, enabled bot
    decided,   \* history: the last decision, if its write succeeded
    news,      \* history: the lowest count stored since the last message
    excused    \* history: a message may be missing since then

record  == <<status, report, saved>>
reports == <<sent, level, req, base>>
vars == <<record, reports, bot, decided, news, excused>>

Ids      == 1..MaxReports
Statuses == {"absent", "pending", "approved", "rejected"}
Lower(m, n)  == IF m < n THEN m ELSE n
Higher(m, n) == IF m > n THEN m ELSE n

Init ==
    /\ status = "absent" /\ report = 0 /\ saved = <<"absent", 0>>
    /\ sent = 0
    /\ level = [s \in Ids |-> 0]
    /\ req = [s \in Ids |-> "none"]
    /\ base = [s \in Ids |-> 0]
    /\ bot = TRUE
    /\ decided = "absent"
    /\ news = 0 /\ excused = FALSE

-----------------------------------------------------------------------------
(* Registry                                                                *)

WriteInPlace(newStatus, newReport, ok) ==  \* mutant: no temporary file
    /\ status' = newStatus /\ report' = newReport
    /\ saved' = IF ok THEN <<newStatus, newReport>> ELSE <<"torn", 0>>

\* Every mutation writes the record and then the whole file; when that fails
\* the caller is told so, and the record stays as it was written.
Write(newStatus, newReport, ok) ==
    /\ status' = newStatus /\ report' = newReport
    /\ saved' = IF ok THEN <<newStatus, newReport>> ELSE saved

\* What an administrator or the first enrolment decides about the agent.
Decide(newStatus, newReport) ==
    \E ok \in BOOLEAN :
        /\ Write(newStatus, newReport, ok)
        /\ decided' = IF ok THEN newStatus ELSE "unsure"

SetStatus(new) ==
    /\ status # "absent"
    /\ Decide(new, report)
    /\ UNCHANGED <<reports, bot, news, excused>>

Forget ==
    /\ status # "absent"
    /\ Decide("absent", 0)
    /\ UNCHANGED <<reports, bot, news, excused>>

AnnounceAnew ==                     \* mutant: an agent that starts again is pending
    IF status = "absent" THEN Decide("pending", 0)
    ELSE \E ok \in BOOLEAN : Write("pending", report, ok) /\ UNCHANGED decided

\* An agent that is known is left as it is, and its record is written.  Noting
\* the address of an enrolment or of a new stream is this write too.
Announce ==
    IF status = "absent" THEN Decide("pending", 0)
    ELSE \E ok \in BOOLEAN : Write(status, report, ok) /\ UNCHANGED decided

\* The agent starts.
Enroll ==
    /\ Announce
    /\ UNCHANGED <<reports, bot, news, excused>>

\* The aggregator restarts from its file; its handlers are gone.
Restart ==
    /\ status' = saved[1] /\ report' = saved[2]
    /\ req' = [s \in Ids |-> IF req[s] = "none" THEN "none" ELSE "over"]
    /\ excused' = TRUE
    /\ UNCHANGED <<saved, sent, level, base, bot, decided, news>>

-----------------------------------------------------------------------------
(* The agent's requests                                                    *)

Send(n) ==
    /\ sent < MaxReports
    /\ sent' = sent + 1
    /\ level' = [level EXCEPT ![sent'] = n]
    /\ req' = [req EXCEPT ![sent'] = "sent"]
    /\ UNCHANGED <<record, base, bot, decided, news, excused>>

Lose(s) ==
    /\ req[s] = "sent"
    /\ req' = [req EXCEPT ![s] = "over"]
    /\ UNCHANGED <<record, sent, level, base, bot, decided, news, excused>>

-----------------------------------------------------------------------------
(* handleReport                                                            *)

\* Only an older report counts as the previous one.
Baseline(s) == IF report < s THEN report ELSE 0

ReadBaseline(s) ==
    /\ req[s] = "sent"
    /\ req' = [req EXCEPT ![s] = "read"]
    /\ base' = [base EXCEPT ![s] = Baseline(s)]
    /\ UNCHANGED <<record, sent, level, bot, decided, news, excused>>

Lowest(s) == IF report = 0 THEN level[s] ELSE Lower(news, level[s])

\* Registry.Report refuses an agent that is not approved.  A report that is
\* stored but not saved is answered with an error, and no message is sent.
StoreReport(s) ==
    /\ req[s] = "read"
    /\ IF status = "approved"
       THEN \E ok \in BOOLEAN :
            /\ Write(status, s, ok)
            /\ req' = [req EXCEPT ![s] = IF ok THEN "stored" ELSE "over"]
            /\ news' = Lowest(s)
            /\ excused' = (excused \/ ~ok \/ base[s] # report)
       ELSE /\ req' = [req EXCEPT ![s] = "over"]
            /\ UNCHANGED <<record, news, excused>>
    /\ UNCHANGED <<sent, level, base, bot, decided>>

\* state.Diff: nothing is new without a previous report.
RisesReversed(s) ==                 \* mutant: the difference with its sign lost
    base[s] # 0 /\ level[base[s]] > level[s]

Rises(s) == base[s] # 0 /\ level[s] > level[base[s]]

\* The message is about report s, which may not be the latest any more.
Told(s) == IF report = 0 THEN level[s] ELSE Lower(level[s], level[report])

\* The contact is noted, and a host with its own bot gets its message.
NotifyUpdate(s) ==
    /\ req[s] = "stored"
    /\ req' = [req EXCEPT ![s] = "over"]
    /\ IF status = "absent" THEN UNCHANGED record
       ELSE \E ok \in BOOLEAN : Write(status, report, ok)
    /\ IF status = "absent" \/ ~bot THEN excused' = TRUE /\ UNCHANGED news
       ELSE IF Rises(s)
       THEN /\ news' = Higher(news, Told(s))
            /\ excused' = (excused /\ report # s)
       ELSE UNCHANGED <<news, excused>>
    /\ UNCHANGED <<sent, level, base, bot, decided>>

SetBot(b) ==
    /\ b # bot
    /\ bot' = b
    /\ UNCHANGED <<record, reports, decided, news, excused>>

-----------------------------------------------------------------------------
Next ==
    \/ \E new \in {"approved", "rejected"} : SetStatus(new)
    \/ Forget \/ Enroll \/ Restart
    \/ \E n \in 0..MaxUpdates : Send(n)
    \/ \E s \in Ids :
        Lose(s) \/ ReadBaseline(s) \/ StoreReport(s) \/ NotifyUpdate(s)
    \/ \E b \in BOOLEAN : SetBot(b)

Spec == Init /\ [][Next]_vars

-----------------------------------------------------------------------------
(* Properties                                                              *)

\* The type of every variable.
TypeOK ==
    /\ status \in Statuses /\ report \in 0..MaxReports
    /\ saved \in Statuses \X (0..MaxReports)
    /\ sent \in 0..MaxReports
    /\ level \in [Ids -> 0..MaxUpdates]
    /\ req \in [Ids -> {"none", "sent", "read", "stored", "over"}]
    /\ base \in [Ids -> 0..MaxReports]
    /\ {bot, excused} \subseteq BOOLEAN
    /\ decided \in Statuses \cup {"unsure"}
    /\ news \in 0..MaxUpdates

\* A decision about an agent that was answered with success holds in memory,
\* in the file and so after every restart, until the next decision: none of
\* the reports, contacts and enrolments that write the same record, in
\* handlers that began before it, undoes it.
DecisionHolds == decided # "unsure" => status = decided /\ saved[1] = decided

\* A rise in what a host reports is announced by its bot, when its reports
\* are handled in order, one after the other, and saved: between two handlers
\* the latest report never counts more than the last message said, unless
\* the bot was off or the aggregator restarted.
Quiet == \A s \in Ids : req[s] \notin {"read", "stored"}

RiseReachesBot == Quiet /\ report # 0 /\ ~excused => level[report] <= news
=============================================================================
