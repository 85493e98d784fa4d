---------------------------- MODULE ReportsProofs ----------------------------
(***************************************************************************)
(* Decisions of an administrator hold and rises reach the host's bot, for  *)
(* any number of reports and updates.                                      *)
(*                                                                         *)
(* RiseReachesBot speaks of the moments when no handler is between two of  *)
(* its steps.  In between, what the last message left out is owed by a     *)
(* handler that has stored its report and will announce it (Owed).         *)
(***************************************************************************)
EXTENDS Reports, TLAPS

-----------------------------------------------------------------------------
(* Types *)

\* What a write of the record leaves in memory and in the file.
LEMMA WriteType ==
    ASSUME TypeOK, NEW newStatus \in Statuses, NEW newReport \in 0..MaxReports,
           NEW ok \in BOOLEAN, Write(newStatus, newReport, ok)
    PROVE  /\ status' \in Statuses /\ report' \in 0..MaxReports
           /\ saved' \in Statuses \X (0..MaxReports)
BY DEF Write, TypeOK

\* A decision, with the outcome that is remembered of it.
LEMMA DecideType ==
    ASSUME TypeOK, NEW newStatus \in Statuses, NEW newReport \in 0..MaxReports,
           Decide(newStatus, newReport)
    PROVE  /\ status' \in Statuses /\ report' \in 0..MaxReports
           /\ saved' \in Statuses \X (0..MaxReports)
           /\ decided' \in Statuses \cup {"unsure"}
<1>1. PICK ok \in BOOLEAN :
         /\ Write(newStatus, newReport, ok)
         /\ decided' = IF ok THEN newStatus ELSE "unsure"
  BY DEF Decide
<1>2. decided' \in Statuses \cup {"unsure"}
  BY <1>1
<1> QED  BY <1>1, <1>2, WriteType

\* An announcement of the agent, known or not.
LEMMA AnnounceType ==
    ASSUME TypeOK, Announce
    PROVE  /\ status' \in Statuses /\ report' \in 0..MaxReports
           /\ saved' \in Statuses \X (0..MaxReports)
           /\ decided' \in Statuses \cup {"unsure"}
<1>1. CASE status = "absent"
  <2>1. Decide("pending", 0)
    BY <1>1 DEF Announce
  <2>2. "pending" \in Statuses /\ 0 \in 0..MaxReports
    BY ReportsAssumption DEF Statuses
  <2> QED  BY <2>1, <2>2, DecideType
<1>2. CASE status # "absent"
  <2>1. PICK ok \in BOOLEAN : Write(status, report, ok) /\ decided' = decided
    BY <1>2 DEF Announce
  <2>2. /\ status \in Statuses /\ report \in 0..MaxReports
        /\ decided \in Statuses \cup {"unsure"}
    BY DEF TypeOK
  <2> QED  BY <2>1, <2>2, WriteType
<1> QED  BY <1>1, <1>2

\* Lowering and raising the last message's count stays within the counts.
LEMMA NewsType ==
    ASSUME TypeOK, NEW s \in Ids
    PROVE  /\ Lowest(s) \in 0..MaxUpdates
           /\ Told(s) \in 0..MaxUpdates
           /\ Higher(news, Told(s)) \in 0..MaxUpdates
<1>1. /\ level[s] \in 0..MaxUpdates /\ news \in 0..MaxUpdates
      /\ report # 0 => level[report] \in 0..MaxUpdates
  BY ReportsAssumption DEF TypeOK, Ids
<1>2. Lowest(s) \in 0..MaxUpdates /\ Told(s) \in 0..MaxUpdates
  BY <1>1 DEF Lowest, Told, Lower
<1> QED  BY <1>1, <1>2 DEF Higher

\* The initial states are well typed.
LEMMA TypeInit ==
    Init => TypeOK
<1>1. ASSUME Init PROVE {bot, excused} \subseteq BOOLEAN
  BY <1>1, Zenon DEF Init
<1>2. ASSUME Init PROVE saved \in Statuses \X (0..MaxReports)
  BY <1>2, ReportsAssumption DEF Init, Statuses
<1>3. ASSUME Init
      PROVE  /\ status \in Statuses /\ report \in 0..MaxReports
             /\ sent \in 0..MaxReports /\ level \in [Ids -> 0..MaxUpdates]
             /\ req \in [Ids -> {"none", "sent", "read", "stored", "over"}]
             /\ base \in [Ids -> 0..MaxReports]
             /\ decided \in Statuses \cup {"unsure"} /\ news \in 0..MaxUpdates
  BY <1>3, ReportsAssumption DEF Init, Statuses
<1> QED  BY <1>1, <1>2, <1>3, Zenon DEF TypeOK

\* The step of type correctness.
LEMMA TypeStep ==
    ASSUME TypeOK, [Next]_vars
    PROVE  TypeOK'
<1>1. ASSUME NEW new \in {"approved", "rejected"}, SetStatus(new)
      PROVE  TypeOK'
  <2>1. new \in Statuses /\ report \in 0..MaxReports
    BY DEF Statuses, TypeOK
  <2> QED  BY <1>1, <2>1, DecideType DEF SetStatus, reports, TypeOK
<1>2. CASE Forget
  <2>1. "absent" \in Statuses /\ 0 \in 0..MaxReports
    BY ReportsAssumption DEF Statuses
  <2> QED  BY <1>2, <2>1, DecideType DEF Forget, reports, TypeOK
<1>3. CASE Enroll
  BY <1>3, AnnounceType DEF Enroll, reports, TypeOK
<1>4. CASE Restart
  <2>1. status' \in Statuses /\ report' \in 0..MaxReports
    BY <1>4 DEF Restart, TypeOK
  <2>2. req' \in [Ids -> {"none", "sent", "read", "stored", "over"}]
    BY <1>4 DEF Restart
  <2> QED  BY <1>4, <2>1, <2>2 DEF Restart, TypeOK
<1>5. ASSUME NEW n \in 0..MaxUpdates, Send(n)
      PROVE  TypeOK'
  <2>1. sent' \in Ids /\ sent' \in 0..MaxReports
    BY <1>5, ReportsAssumption DEF Send, TypeOK, Ids
  <2>2. level' \in [Ids -> 0..MaxUpdates]
    BY <1>5, <2>1 DEF Send, TypeOK
  <2>3. req' \in [Ids -> {"none", "sent", "read", "stored", "over"}]
    BY <1>5, <2>1 DEF Send, TypeOK
  <2> QED  BY <1>5, <2>1, <2>2, <2>3 DEF Send, record, TypeOK
<1>6. ASSUME NEW s \in Ids, Lose(s)
      PROVE  TypeOK'
  BY <1>6 DEF Lose, record, TypeOK
<1>7. ASSUME NEW s \in Ids, ReadBaseline(s)
      PROVE  TypeOK'
  <2>1. Baseline(s) \in 0..MaxReports
    BY ReportsAssumption DEF Baseline, TypeOK
  <2> QED  BY <1>7, <2>1 DEF ReadBaseline, record, TypeOK
<1>8. ASSUME NEW s \in Ids, StoreReport(s)
      PROVE  TypeOK'
  <2>1. CASE status = "approved"
    <3>1. PICK ok \in BOOLEAN :
            /\ Write(status, s, ok)
            /\ req' = [req EXCEPT ![s] = IF ok THEN "stored" ELSE "over"]
            /\ news' = Lowest(s)
            /\ excused' = (excused \/ ~ok \/ base[s] # report)
      BY <1>8, <2>1 DEF StoreReport
    <3>2. status \in Statuses /\ s \in 0..MaxReports
      BY DEF TypeOK, Ids
    <3>3. /\ status' \in Statuses /\ report' \in 0..MaxReports
          /\ saved' \in Statuses \X (0..MaxReports)
      BY <3>1, <3>2, WriteType
    <3>4. req' \in [Ids -> {"none", "sent", "read", "stored", "over"}]
      BY <3>1 DEF TypeOK
    <3>5. news' \in 0..MaxUpdates
      BY <3>1, NewsType
    <3>6. excused' \in BOOLEAN
      BY <3>1, Zenon
    <3> QED  BY <1>8, <3>3, <3>4, <3>5, <3>6 DEF StoreReport, TypeOK
  <2>2. CASE status # "approved"
    BY <1>8, <2>2 DEF StoreReport, record, TypeOK
  <2> QED  BY <2>1, <2>2
<1>9. ASSUME NEW s \in Ids, NotifyUpdate(s)
      PROVE  TypeOK'
  <2>1. /\ status' \in Statuses /\ report' \in 0..MaxReports
        /\ saved' \in Statuses \X (0..MaxReports)
    <3>1. CASE status = "absent"
      BY <1>9, <3>1 DEF NotifyUpdate, record, TypeOK
    <3>2. CASE status # "absent"
      BY <1>9, <3>2, WriteType DEF NotifyUpdate, TypeOK
    <3> QED  BY <3>1, <3>2
  <2>2. req' \in [Ids -> {"none", "sent", "read", "stored", "over"}]
    BY <1>9 DEF NotifyUpdate, TypeOK
  <2>3. news' \in 0..MaxUpdates
    BY <1>9, NewsType DEF NotifyUpdate, TypeOK
  <2>4. excused' \in BOOLEAN
    BY <1>9, Zenon DEF NotifyUpdate, TypeOK
  <2> QED  BY <1>9, <2>1, <2>2, <2>3, <2>4 DEF NotifyUpdate, TypeOK
<1>10. ASSUME NEW b \in BOOLEAN, SetBot(b)
       PROVE  TypeOK'
  BY <1>10, Zenon DEF SetBot, record, reports, TypeOK
<1>11. CASE UNCHANGED vars
  BY <1>11 DEF vars, record, reports, TypeOK
<1> QED
  BY <1>1, <1>2, <1>3, <1>4, <1>5, <1>6, <1>7, <1>8, <1>9, <1>10, <1>11 DEF Next

\* Every variable keeps its type.
THEOREM TypeCorrect == Spec => []TypeOK
<1>1. Init => TypeOK
  BY TypeInit
<1>2. TypeOK /\ [Next]_vars => TypeOK'
  BY TypeStep
<1> QED  BY <1>1, <1>2, PTL DEF Spec

-----------------------------------------------------------------------------
(* Decisions *)

\* registry.go, saveLocked: a decision that was answered with success is not
\* undone by a report, a contact or an enrolment, nor by a restart.
THEOREM DecisionsHold == Spec => []DecisionHolds
<1>1. Init => DecisionHolds
  BY DEF Init, DecisionHolds
<1>2. DecisionHolds /\ [Next]_vars => DecisionHolds'
  <2> SUFFICES ASSUME DecisionHolds, [Next]_vars
               PROVE  DecisionHolds'
    OBVIOUS
  <2>1. ASSUME NEW newStatus, NEW newReport, Decide(newStatus, newReport)
        PROVE  DecisionHolds'
    BY <2>1 DEF Decide, Write, DecisionHolds
  <2>2. ASSUME NEW newReport, NEW ok, Write(status, newReport, ok), decided' = decided
        PROVE  DecisionHolds'
    BY <2>2 DEF Write, DecisionHolds
  <2>3. ASSUME UNCHANGED <<record, decided>>
        PROVE  DecisionHolds'
    BY <2>3 DEF record, DecisionHolds
  <2>4. ASSUME NEW new \in {"approved", "rejected"}, SetStatus(new)
        PROVE  DecisionHolds'
    BY <2>1, <2>4 DEF SetStatus
  <2>5. CASE Forget
    BY <2>1, <2>5 DEF Forget
  <2>6. CASE Enroll
    BY <2>1, <2>2, <2>6 DEF Enroll, Announce
  <2>7. CASE Restart
    BY <2>7 DEF Restart, DecisionHolds
  <2>8. ASSUME NEW s \in Ids, StoreReport(s)
        PROVE  DecisionHolds'
    BY <2>2, <2>3, <2>8 DEF StoreReport
  <2>9. ASSUME NEW s \in Ids, NotifyUpdate(s)
        PROVE  DecisionHolds'
    BY <2>2, <2>3, <2>9 DEF NotifyUpdate
  <2>10. ASSUME NEW s \in Ids, Lose(s) \/ ReadBaseline(s)
         PROVE  DecisionHolds'
    BY <2>3, <2>10 DEF Lose, ReadBaseline
  <2>11. CASE (\E n \in 0..MaxUpdates : Send(n)) \/ (\E b \in BOOLEAN : SetBot(b))
    BY <2>3, <2>11 DEF Send, SetBot
  <2>12. CASE UNCHANGED vars
    BY <2>3, <2>12 DEF vars
  <2> QED
    BY <2>4, <2>5, <2>6, <2>7, <2>8, <2>9, <2>10, <2>11, <2>12 DEF Next
<1> QED  BY <1>1, <1>2, PTL DEF Spec

-----------------------------------------------------------------------------
(* Rises *)

\* Nothing refers to a report that was not sent.
SentOnly ==
    /\ report <= sent /\ saved[2] <= sent
    /\ \A s \in Ids : base[s] <= sent /\ (req[s] # "none" => s <= sent)

\* A handler that has stored its report and will announce at least what the
\* latest report counts.
Owes(s) == req[s] = "stored" /\ Rises(s) /\ level[report] <= level[s]

Owed == report # 0 /\ ~excused => level[report] <= news \/ \E s \in Ids : Owes(s)

RiseInv == TypeOK /\ SentOnly /\ Owed

\* A step that leaves the reports and the messages alone, and the latest
\* report unless it is forgotten.
LEMMA RiseInvKept ==
    ASSUME RiseInv, UNCHANGED <<sent, level, req, base, news>>,
           excused' \/ (report' = report /\ (excused' <=> excused)) \/ report' = 0,
           report' <= sent, saved'[2] <= sent
    PROVE  SentOnly' /\ Owed'
<1>1. SentOnly'
  BY DEF RiseInv, SentOnly
<1>2. ASSUME report' = report, excused' <=> excused PROVE Owed'
  BY <1>2 DEF RiseInv, Owed, Owes, Rises
<1> QED  BY <1>1, <1>2 DEF Owed

\* No decision and no enrolment disturbs the announcements.
LEMMA DecideRise ==
    ASSUME RiseInv, NEW newStatus \in Statuses, NEW newReport \in {report, 0},
           NEW ok \in BOOLEAN, Write(newStatus, newReport, ok), UNCHANGED <<reports, news, excused>>
    PROVE  SentOnly' /\ Owed'
<1>1. newReport <= sent /\ saved[2] <= sent
  BY DEF RiseInv, SentOnly, TypeOK
<1>2. report' <= sent /\ saved'[2] <= sent
  BY <1>1 DEF Write
<1>3. report' = report \/ report' = 0
  BY DEF Write
<1> QED  BY <1>2, <1>3, RiseInvKept DEF reports

\* A new report announces its rise, or is no more than was announced or owed.
LEMMA StoreRise ==
    ASSUME RiseInv, NEW s \in Ids, StoreReport(s)
    PROVE  SentOnly' /\ Owed'
<1>1. CASE status # "approved"
  <2>1. /\ UNCHANGED <<status, report, saved, sent, level, base, news, excused>>
        /\ req' = [req EXCEPT ![s] = "over"] /\ req[s] = "read"
    BY <1>1, Zenon DEF StoreReport, record
  <2>2. \A r \in Ids : Owes(r) => Owes(r)'
    BY <2>1 DEF RiseInv, TypeOK, Owes, Rises
  <2>3. SentOnly'
    BY <2>1 DEF RiseInv, TypeOK, SentOnly
  <2>4. Owed'
    BY <2>1, <2>2 DEF RiseInv, Owed
  <2> QED  BY <2>3, <2>4
<1>2. CASE status = "approved"
  <2>1. PICK ok \in BOOLEAN :
          /\ Write(status, s, ok)
          /\ req' = [req EXCEPT ![s] = IF ok THEN "stored" ELSE "over"]
          /\ news' = Lowest(s)
          /\ excused' = (excused \/ ~ok \/ base[s] # report)
    BY <1>2 DEF StoreReport
  <2>2. UNCHANGED <<sent, level, base>> /\ req[s] = "read"
    BY DEF StoreReport
  <2>3. report' = s /\ (saved'[2] = s \/ saved' = saved)
    BY <2>1 DEF Write
  <2>4. SentOnly'
    BY <2>1, <2>2, <2>3 DEF RiseInv, TypeOK, SentOnly
  <2>5. ASSUME ~excused'
        PROVE  ~excused /\ ok /\ base[s] = report
    BY <2>1, <2>5
  <2>6. ASSUME ~excused'
        PROVE  level[s] <= news' \/ \E r \in Ids : Owes(r)'
    <3>1. req' = [req EXCEPT ![s] = "stored"] /\ ~excused /\ base[s] = report
      BY <2>1, <2>5, <2>6
    <3>2. /\ req \in [Ids -> {"none", "sent", "read", "stored", "over"}]
          /\ level \in [Ids -> 0..MaxUpdates] /\ news \in 0..MaxUpdates
          /\ report \in 0..MaxReports /\ MaxUpdates \in Nat /\ MaxReports \in Nat
      BY ReportsAssumption DEF RiseInv, TypeOK
    <3>3. CASE report = 0
      BY <2>1, <3>2, <3>3 DEF Lowest
    <3>4. CASE report # 0 /\ level[s] > level[report]
      <4>1. Owes(s)'
        BY <2>2, <2>3, <3>1, <3>2, <3>4 DEF Owes, Rises
      <4> QED  BY <4>1
    <3>5. CASE report # 0 /\ ~(level[s] > level[report])
      <4>1. level[s] \in Nat /\ level[report] \in Nat /\ level[s] <= level[report]
        BY <3>2, <3>5 DEF Ids
      <4>2. CASE level[report] <= news
        BY <2>1, <3>2, <3>5, <4>1, <4>2 DEF Lowest, Lower
      <4>3. ASSUME NEW r \in Ids, Owes(r)
            PROVE  Owes(r)'
        <5>1. r # s /\ req'[r] = "stored"
          BY <2>2, <3>1, <3>2, <4>3 DEF Owes
        <5>2. level[s] <= level[r]
          BY <3>2, <4>1, <4>3 DEF Owes
        <5> QED  BY <2>2, <2>3, <4>3, <5>1, <5>2 DEF Owes, Rises
      <4>4. level[report] <= news \/ \E r \in Ids : Owes(r)
        BY <3>1, <3>5 DEF RiseInv, Owed
      <4> QED  BY <4>2, <4>3, <4>4
    <3> QED  BY <3>3, <3>4, <3>5
  <2>7. Owed'
    BY <2>2, <2>3, <2>6 DEF Owed
  <2> QED  BY <2>4, <2>7
<1> QED  BY <1>1, <1>2

\* The message of a handler pays what it owed; one that sends none owed nothing.
LEMMA NotifyRise ==
    ASSUME RiseInv, NEW s \in Ids, NotifyUpdate(s)
    PROVE  SentOnly' /\ Owed'
<1>1. /\ UNCHANGED <<sent, level, base>>
      /\ req[s] = "stored" /\ req' = [req EXCEPT ![s] = "over"]
  BY DEF NotifyUpdate
<1>2. report' = report /\ (saved'[2] = report \/ saved' = saved)
  BY DEF NotifyUpdate, Write, record
<1>3. SentOnly'
  BY <1>1, <1>2 DEF RiseInv, TypeOK, SentOnly
<1>4. ASSUME NEW r \in Ids, r # s, Owes(r)
      PROVE  Owes(r)'
  BY <1>1, <1>2, <1>4 DEF RiseInv, TypeOK, Owes, Rises
<1>5. /\ level \in [Ids -> 0..MaxUpdates] /\ news \in 0..MaxUpdates
      /\ report \in 0..MaxReports /\ MaxUpdates \in Nat /\ MaxReports \in Nat
  BY ReportsAssumption DEF RiseInv, TypeOK
<1>6. CASE status = "absent" \/ ~bot
  <2>1. excused'
    BY <1>6, Zenon DEF NotifyUpdate
  <2> QED  BY <1>3, <2>1 DEF Owed
<1>7. CASE ~(status = "absent" \/ ~bot) /\ ~Rises(s)
  <2>1. news' = news /\ excused' = excused
    BY <1>7, Zenon DEF NotifyUpdate
  <2>2. \A r \in Ids : Owes(r) => r # s
    BY <1>7 DEF Owes
  <2> QED  BY <1>1, <1>2, <1>3, <1>4, <2>1, <2>2 DEF RiseInv, Owed
<1>8. CASE ~(status = "absent" \/ ~bot) /\ Rises(s)
  <2>1. news' = Higher(news, Told(s)) /\ excused' = (excused /\ report # s)
    BY <1>8, Zenon DEF NotifyUpdate
  <2>2. ASSUME report # 0
        PROVE  /\ level[report] \in Nat /\ level[s] \in Nat /\ news \in Nat
               /\ news' >= news
               /\ level[report] <= level[s] => level[report] <= news'
    BY <1>5, <2>1, <2>2 DEF Higher, Told, Lower, Ids
  <2>3. ASSUME report # 0, ~excused'
        PROVE  level[report] <= news' \/ \E r \in Ids : Owes(r)'
    <3>1. CASE report = s
      BY <2>2, <2>3, <3>1
    <3>2. CASE report # s
      <4>1. ~excused
        BY <2>1, <2>3, <3>2
      <4>2. level[report] <= news \/ \E r \in Ids : Owes(r)
        BY <2>3, <4>1 DEF RiseInv, Owed
      <4>3. level[report] <= news => level[report] <= news'
        <5>1. news' \in Nat
          BY <1>5, <2>1, <2>2, <2>3 DEF Higher, Told, Lower
        <5> QED  BY <2>2, <2>3, <5>1
      <4>4. Owes(s) => level[report] <= news'
        BY <2>2, <2>3 DEF Owes
      <4> QED  BY <1>4, <4>2, <4>3, <4>4
    <3> QED  BY <3>1, <3>2
  <2> QED  BY <1>1, <1>2, <1>3, <2>3 DEF Owed
<1> QED  BY <1>6, <1>7, <1>8

\* The other steps of a report, and of the environment.
LEMMA OtherRise ==
    ASSUME RiseInv,
           \/ \E s \in Ids : Lose(s) \/ ReadBaseline(s)
           \/ \E n \in 0..MaxUpdates : Send(n)
           \/ Restart
    PROVE  SentOnly' /\ Owed'
<1>1. ASSUME NEW s \in Ids, Lose(s)
      PROVE  SentOnly' /\ Owed'
  <2>1. \A r \in Ids : Owes(r) => Owes(r)'
    BY <1>1 DEF Lose, record, RiseInv, TypeOK, Owes, Rises
  <2>2. SentOnly'
    BY <1>1 DEF Lose, record, RiseInv, TypeOK, SentOnly
  <2> QED  BY <1>1, <2>1, <2>2 DEF Lose, record, RiseInv, Owed
<1>2. ASSUME NEW s \in Ids, ReadBaseline(s)
      PROVE  SentOnly' /\ Owed'
  <2>1. \A r \in Ids : Owes(r) => Owes(r)'
    BY <1>2 DEF ReadBaseline, record, RiseInv, TypeOK, Owes, Rises
  <2>2. Baseline(s) <= sent
    BY DEF Baseline, RiseInv, TypeOK, SentOnly
  <2>3. SentOnly'
    BY <1>2, <2>2 DEF ReadBaseline, record, RiseInv, TypeOK, SentOnly
  <2> QED  BY <1>2, <2>1, <2>3 DEF ReadBaseline, record, RiseInv, Owed
<1>3. ASSUME NEW n \in 0..MaxUpdates, Send(n)
      PROVE  SentOnly' /\ Owed'
  <2>1. /\ sent' = sent + 1 /\ sent \in Nat
        /\ UNCHANGED <<report, saved, base, news, excused>>
        /\ level' = [level EXCEPT ![sent + 1] = n]
        /\ req' = [req EXCEPT ![sent + 1] = "sent"]
    BY <1>3 DEF Send, record, RiseInv, TypeOK
  <2>2. SentOnly'
    <3>1. report <= sent + 1 /\ saved[2] <= sent + 1
      BY <2>1 DEF RiseInv, TypeOK, SentOnly
    <3>2. ASSUME NEW s \in Ids
          PROVE  base[s] <= sent + 1 /\ (req'[s] # "none" => s <= sent + 1)
      <4>1. base[s] <= sent /\ base[s] \in Nat /\ s \in Nat
        BY ReportsAssumption DEF RiseInv, TypeOK, SentOnly, Ids
      <4>2. CASE s = sent + 1
        BY <2>1, <4>1, <4>2
      <4>3. CASE s # sent + 1
        BY <2>1, <4>1, <4>3 DEF RiseInv, TypeOK, SentOnly
      <4> QED  BY <4>2, <4>3
    <3> QED  BY <2>1, <3>1, <3>2 DEF SentOnly
  <2>3. \A i \in Ids : i <= sent => level'[i] = level[i]
    BY <2>1 DEF RiseInv, TypeOK, Ids
  <2>4. report # 0 => report \in Ids /\ report <= sent
    BY ReportsAssumption DEF RiseInv, TypeOK, SentOnly, Ids
  <2>5. ASSUME NEW r \in Ids, Owes(r), report # 0
        PROVE  Owes(r)'
    <3>1. r <= sent /\ base[r] <= sent /\ base[r] # 0 /\ req[r] = "stored"
      BY <2>5 DEF RiseInv, SentOnly, Owes, Rises
    <3>2. base[r] \in Ids
      BY <3>1, ReportsAssumption DEF RiseInv, TypeOK, Ids
    <3>3. req'[r] = "stored"
      BY <2>1, <3>1 DEF RiseInv, TypeOK, Ids
    <3>4. level'[r] = level[r] /\ level'[base[r]] = level[base[r]] /\ level'[report] = level[report]
      BY <2>3, <2>4, <2>5, <3>1, <3>2
    <3> QED  BY <2>1, <2>5, <3>3, <3>4 DEF Owes, Rises
  <2>6. Owed'
    <3>1. ASSUME report # 0 PROVE level'[report] = level[report]
      BY <2>3, <2>4, <3>1
    <3> QED  BY <2>1, <2>5, <3>1 DEF RiseInv, Owed
  <2> QED  BY <2>2, <2>6
<1>4. CASE Restart
  <2>1. report' <= sent' /\ saved' = saved /\ sent' = sent /\ base' = base
    BY <1>4 DEF Restart, RiseInv, SentOnly
  <2>2. \A r \in Ids : req'[r] # "none" => req[r] # "none"
    BY <1>4 DEF Restart
  <2>3. SentOnly'
    BY <2>1, <2>2 DEF RiseInv, SentOnly
  <2>4. excused'
    BY <1>4, Zenon DEF Restart
  <2> QED  BY <2>3, <2>4 DEF Owed
<1> QED  BY <1>1, <1>2, <1>3, <1>4

\* server.go, handleReport and maybeNotifyUpdate: a rise is announced whenever
\* no handler is still to announce it.
THEOREM RisesReachBot == Spec => []RiseReachesBot
<1>1. Init => RiseInv
  <2>1. Init => SentOnly
    BY DEF Init, SentOnly
  <2>2. Init => Owed
    BY DEF Init, Owed
  <2> QED  BY <2>1, <2>2, TypeInit DEF RiseInv
<1>2. RiseInv /\ [Next]_vars => RiseInv'
  <2> SUFFICES ASSUME RiseInv, [Next]_vars
               PROVE  SentOnly' /\ Owed'
    BY TypeStep DEF RiseInv
  <2>1. ASSUME NEW new \in {"approved", "rejected"}, SetStatus(new)
        PROVE  SentOnly' /\ Owed'
    <3>1. new \in Statuses
      BY DEF Statuses
    <3> QED  BY <2>1, <3>1, DecideRise DEF SetStatus, Decide
  <2>2. CASE Forget
    BY <2>2, DecideRise DEF Forget, Decide, Statuses
  <2>3. CASE Enroll
    <3>1. status \in Statuses /\ "pending" \in Statuses
      BY DEF RiseInv, TypeOK, Statuses
    <3> QED  BY <2>3, <3>1, DecideRise DEF Enroll, Announce, Decide
  <2>4. CASE Restart \/ \E n \in 0..MaxUpdates : Send(n)
    BY <2>4, OtherRise
  <2>5. ASSUME NEW s \in Ids, Lose(s) \/ ReadBaseline(s)
        PROVE  SentOnly' /\ Owed'
    BY <2>5, OtherRise
  <2>6. ASSUME NEW s \in Ids, StoreReport(s)
        PROVE  SentOnly' /\ Owed'
    BY <2>6, StoreRise
  <2>7. ASSUME NEW s \in Ids, NotifyUpdate(s)
        PROVE  SentOnly' /\ Owed'
    BY <2>7, NotifyRise
  <2>8. CASE UNCHANGED vars \/ \E b \in BOOLEAN : SetBot(b)
    <3>1. UNCHANGED <<report, saved, sent, level, req, base, news, excused>>
      BY <2>8, Zenon DEF vars, record, reports, SetBot
    <3> QED  BY <3>1 DEF RiseInv, SentOnly, Owed, Owes, Rises
  <2> QED
    BY <2>1, <2>2, <2>3, <2>4, <2>5, <2>6, <2>7, <2>8 DEF Next
<1>3. RiseInv => RiseReachesBot
  BY DEF RiseInv, Owed, Owes, RiseReachesBot, Quiet
<1> QED  BY <1>1, <1>2, <1>3, PTL DEF Spec
=============================================================================
