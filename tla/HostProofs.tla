------------------------------ MODULE HostProofs ------------------------------
(***************************************************************************)
(* What Host promises for any number of packages, versions, arrivals and   *)
(* faults: the companion's binary is whole, an update that is reported was *)
(* installed, a companion that is down is down for a cause, and what an    *)
(* apply changed is checked again.                                         *)
(***************************************************************************)
EXTENDS Host, SequenceTheorems, TLAPS

Job == [type : Types \cup {"none"}, component : {"none", "agent", "companion"},
        names : SUBSET Package, target : Version, cmds : Seq(Command),
        phase : Phases, err : Errors, staged : BOOLEAN, put : Version \cup {0}]

-----------------------------------------------------------------------------
(* Why the companion is down.                                              *)

InSwap == swap \in {"wait", "rename", "start"}

(* A service that is down or going down has its cause from the step that   *)
(* stops it on; a swap that is past its rename started from a stopped one. *)
ServiceInv ==
  /\ svc \in {"stopping", "stopped"} => cause # "none" \/ InSwap
  /\ swap = "start" /\ svc = "stopping" => cause # "none"

LEMMA ServiceStep == ServiceInv /\ [HostNext]_companionVars => ServiceInv'
<1> SUFFICES ASSUME ServiceInv, [HostNext]_companionVars PROVE ServiceInv'
  OBVIOUS
<1> USE DEF ServiceInv, InSwap
<1>1. CASE UNCHANGED <<svc, swap, cause>>
  BY <1>1
<1>2. ASSUME NEW type, NEW component, NEW names, NEW target,
             TakeAction(type, component, names, target)
      PROVE  UNCHANGED <<svc, swap, cause>>
  BY <1>2 DEF TakeAction
<1>3. CASE \/ ApplyRecheck \/ Validate \/ RunCommand \/ Applied
           \/ SelfUpdate \/ Download \/ Stage \/ InstallCompanion
           \/ DockerPull \/ DockerTag \/ BeginCheck \/ EndCheck \/ SwapReport
           \/ \E p \in Package : Arrive(p)
  BY <1>1, <1>3
     DEF ApplyRecheck, Validate, RunCommand, Applied, SelfUpdate, Download, Stage,
         InstallCompanion, DockerPull, DockerTag, BeginCheck, EndCheck, SwapReport, Arrive
<1>4. CASE RestartCompanion \/ Report
  BY <1>4 DEF RestartCompanion, Report, Live
<1>5. ASSUME NEW step, AgentExits(step), svc' = svc PROVE ServiceInv'
  BY <1>5 DEF AgentExits
<1>6. CASE InstallAgent \/ ReplaceAgent \/ DockerUp \/ AgentCrashes \/ AgentStarts
  BY <1>1, <1>5, <1>6 DEF InstallAgent, ReplaceAgent, DockerUp, AgentCrashes, AgentStarts
<1>7. CASE SwapStat \/ SwapStop \/ SwapWait \/ SwapRename \/ SwapStart
  BY <1>7 DEF SwapStat, SwapStop, SwapWait, SwapRename, SwapStart
<1>8. CASE CompanionExits \/ OperatorStops \/ OperatorStarts \/ Reboot
  BY <1>8 DEF CompanionExits, OperatorStops, OperatorStarts, Reboot
<1>9. CASE UNCHANGED companionVars
  BY <1>1, <1>9 DEF companionVars
<1> QED
  BY <1>1, <1>2, <1>3, <1>4, <1>6, <1>7, <1>8, <1>9 DEF HostNext

(* A companion that is down is down because a swap is at work, or for a    *)
(* cause that swap, the agent's death or an operator left behind           *)
(* (CompleteCompanionSwap, startCompanionService).                         *)
THEOREM DownForACause == HostSpec => []CompanionDownHasCause
<1>1. InitHost => ServiceInv
  BY DEF InitHost, ServiceInv
<1>2. ServiceInv => CompanionDownHasCause
  BY DEF ServiceInv, InSwap, CompanionDownHasCause
<1> QED
  BY <1>1, <1>2, ServiceStep, PTL DEF HostSpec

-----------------------------------------------------------------------------
(* The companion's job and its files.                                      *)

JobTypeOK == job \in Job

(* How far a job is says what it has put in place so far, and who may      *)
(* touch it: a stopped service has no job, so a swap's rename never gets   *)
(* between a job's staging and its report.                                 *)
Progress ==
  /\ job.phase = "running" => job.type # "selfupdate"
  /\ job.phase \in {"download", "stage", "restart"} => job.component = "companion"
  /\ job.phase \in {"pull", "tag", "up", "replace"} => job.component = "agent"
  /\ job.staged => job.phase = "report" /\ job.component = "companion" /\ new = job.target
  /\ job.phase = "stage" => tmp = job.target
  /\ job.phase = "restart" => exe = job.target
  /\ job.phase = "up" => tag = job.target
  /\ svc = "stopped" => job.phase = "idle"
  /\ svc = "restarting" =>
       \/ job.phase = "idle"
       \/ job.phase = "report" /\ job.component = "companion" /\ exe = job.target
            /\ ~job.staged

(* A self-update that ended without an error has installed its target.     *)
ReportTruth ==
  job.phase = "report" /\ job.type = "selfupdate" /\ job.err = "none" => Installed

FilesOK ==
  /\ exe \in Version /\ new \in Version \cup {NoFile}
  /\ swap \in {"stop", "wait", "rename"} => new \in Version
  /\ svc \in {"running", "stopping", "restarting", "stopped"}

FilesInv == Progress /\ ReportTruth /\ FilesOK

(* What a job keeps when it only goes on, fails, or has put its version in *)
(* place.                                                                  *)
KeepsJob ==
  /\ job'.type = job.type /\ job'.component = job.component /\ job'.names = job.names
  /\ job'.target = job.target /\ job'.cmds = job.cmds /\ job'.staged = job.staged

LEMMA GoStep ==
  ASSUME JobTypeOK, NEW p \in Phases, Go(p)
  PROVE  JobTypeOK' /\ KeepsJob /\ job'.phase = p /\ job'.err = job.err /\ job'.put = job.put
BY DEF JobTypeOK, Job, Go, KeepsJob

LEMMA FailStep ==
  ASSUME JobTypeOK, Fail
  PROVE  JobTypeOK' /\ KeepsJob /\ job'.phase = "report" /\ job'.err = "error"
BY DEF JobTypeOK, Job, Fail, KeepsJob, Phases, Errors

LEMMA PutStep ==
  ASSUME JobTypeOK, NEW v \in Version, Put(v)
  PROVE  /\ JobTypeOK' /\ KeepsJob /\ job'.phase = "report" /\ job'.put = v
         /\ job'.err = job.err
BY DEF JobTypeOK, Job, Put, KeepsJob, Phases

LEMMA NoJobType == NoJob \in Job /\ NoJob.phase = "idle" /\ NoJob.staged = FALSE
BY HostAssumption DEF NoJob, Job, Version, Phases, Errors

-----------------------------------------------------------------------------
(* Plans.                                                                  *)

(* Only the refresh of the package lists at a plan's head is a gate: the   *)
(* commands behind it are ordered by their own errors.                     *)
WellGated(cmds) ==
  /\ cmds \in Seq(Command)
  /\ \A i \in 1..Len(cmds) :
       cmds[i].failure = "gate" => i = 1 /\ cmds[i].names = {} /\ cmds[i].tool # "wu"

LEMMA RunType ==
  ASSUME NEW tool \in {"update", "upgrade", "autoremove", "wu", "winget"},
         NEW names \in SUBSET Package, NEW failure \in Failure
  PROVE  /\ Run(tool, names, failure) \in Command
         /\ Run(tool, names, failure).tool = tool
         /\ Run(tool, names, failure).names = names
         /\ Run(tool, names, failure).failure = failure
BY DEF Run, Command

LEMMA OneGated ==
  ASSUME NEW c \in Command, c.failure # "gate"
  PROVE  WellGated(<< c >>)
BY DEF WellGated

LEMMA TwoGated ==
  ASSUME NEW c \in Command, NEW d \in Command, d.failure # "gate",
         c.failure = "gate" => c.names = {} /\ c.tool # "wu"
  PROVE  WellGated(<< c, d >>)
<1>1. << c, d >> \in Seq(Command) /\ Len(<< c, d >>) = 2
  OBVIOUS
<1>2. << c, d >>[1] = c /\ << c, d >>[2] = d
  OBVIOUS
<1>3. \A i \in 1..2 : i = 1 \/ i = 2
  OBVIOUS
<1> QED
  BY <1>1, <1>2, <1>3 DEF WellGated

LEMMA ThreeGated ==
  ASSUME NEW c \in Command, NEW d \in Command, NEW e \in Command,
         d.failure # "gate", e.failure # "gate",
         c.failure = "gate" => c.names = {} /\ c.tool # "wu"
  PROVE  WellGated(<< c, d, e >>)
<1>1. << c, d, e >> \in Seq(Command) /\ Len(<< c, d, e >>) = 3
  OBVIOUS
<1>2. << c, d, e >>[1] = c /\ << c, d, e >>[2] = d /\ << c, d, e >>[3] = e
  OBVIOUS
<1>3. \A i \in 1..3 : i = 1 \/ i = 2 \/ i = 3
  OBVIOUS
<1> QED
  BY <1>1, <1>2, <1>3 DEF WellGated

LEMMA UnixPlans ==
  ASSUME NEW names \in SUBSET Package
  PROVE  WellGated(aptPlan(names)) /\ WellGated(brewPlan(names))
<1> DEFINE update == Run("update", {}, "gate")
           upgrade == Run("upgrade", names, "main")
           autoremove == Run("autoremove", {}, "note")
<1>1. /\ update \in Command /\ update.names = {} /\ update.tool # "wu"
      /\ upgrade \in Command /\ upgrade.failure # "gate"
      /\ autoremove \in Command /\ autoremove.failure # "gate"
  BY RunType DEF Failure
<1> HIDE DEF update, upgrade, autoremove
<1>2. WellGated(<< update, upgrade, autoremove >>) /\ WellGated(<< update, upgrade >>)
  BY <1>1, ThreeGated, TwoGated
<1> QED
  BY <1>2 DEF aptPlan, brewPlan, update, upgrade, autoremove

LEMMA PairConcat ==
  ASSUME NEW S, NEW c \in S, NEW d \in S
  PROVE  << c >> \o << d >> = << c, d >>
<1> DEFINE both == << c >> \o << d >>
<1>1. /\ << c >> \in Seq(S) /\ Len(<< c >>) = 1 /\ << c >>[1] = c
      /\ << d >> \in Seq(S) /\ Len(<< d >>) = 1 /\ << d >>[1] = d
      /\ << c, d >> \in Seq(S) /\ Len(<< c, d >>) = 2
      /\ << c, d >>[1] = c /\ << c, d >>[2] = d
  OBVIOUS
<1>2. /\ both \in Seq(S) /\ Len(both) = 1 + 1
      /\ \A i \in 1..(1 + 1) : both[i] = IF i <= 1 THEN << c >>[i] ELSE << d >>[i - 1]
  BY <1>1, ConcatProperties
<1>3. both[1] = c /\ both[2] = d
  BY <1>1, <1>2
<1> HIDE DEF both
<1>4. \A i \in 1..Len(both) : both[i] = << c, d >>[i]
  BY <1>1, <1>2, <1>3
<1>5. both = << c, d >>
  BY <1>1, <1>2, <1>4, SeqEqual
<1> QED
  BY <1>5 DEF both

LEMMA WindowsPlans ==
  ASSUME NEW names \in SUBSET Package
  PROVE  WellGated(windowsPackages(names)) /\ WellGated(windowsUpgrade)
<1> DEFINE wu == names \cap KBs
           winget == names \cap Others
           first == Run("wu", wu, "error")
           alone == Run("winget", winget, "main")
           second == Run("winget", winget, "note")
           all == Run("wu", KBs, "error")
           rest == Run("winget", Others, "note")
<1>1. /\ first \in Command /\ first.failure # "gate"
      /\ alone \in Command /\ alone.failure # "gate"
      /\ second \in Command /\ second.failure # "gate"
      /\ all \in Command /\ all.failure # "gate"
      /\ rest \in Command /\ rest.failure # "gate"
  BY RunType DEF Failure, Package
<1> HIDE DEF wu, winget, first, alone, second, all, rest
<1>2. << all, rest >> = windowsUpgrade
  BY DEF windowsUpgrade, all, rest
<1>3. windowsPackages(names) = (IF wu = {} THEN << >> ELSE << first >>)
          \o (IF winget = {} THEN << >> ELSE << IF wu = {} THEN alone ELSE second >>)
  BY DEF windowsPackages, wu, winget, first, alone, second
<1>4. WellGated(<< >>) /\ WellGated(<< first >>) /\ WellGated(<< alone >>)
  BY <1>1, OneGated DEF WellGated
<1>5. WellGated(<< first, second >>) /\ WellGated(<< all, rest >>)
  BY <1>1, TwoGated
<1>6. << first >> \o << second >> = << first, second >>
  BY <1>1, PairConcat
<1>7. /\ << >> \o << >> = << >> /\ << >> \o << alone >> = << alone >>
      /\ << first >> \o << >> = << first >>
  <2>1. << alone >> \in Seq(Command) /\ << first >> \in Seq(Command) /\ << >> \in Seq(Command)
    BY <1>1
  <2> QED
    BY <2>1, ConcatEmptySeq
<1>8. WellGated(windowsPackages(names))
  BY <1>3, <1>4, <1>5, <1>6, <1>7
<1> QED
  BY <1>2, <1>5, <1>8

LEMMA PlanType ==
  ASSUME NEW host \in Platform, NEW type \in {"packages", "upgrade", "full_upgrade"},
         NEW names \in SUBSET Package
  PROVE  WellGated(Plan(host, type, names))
<1> DEFINE asked == IF type = "packages" THEN names ELSE Sweep(type)
<1>1. asked \in SUBSET Package
  BY DEF Sweep
<1> HIDE DEF asked
<1>2. CASE host = "apt"
  <2>1. Plan(host, type, names) = aptPlan(asked)
    BY <1>2 DEF Plan, asked
  <2> QED
    BY <1>1, <2>1, UnixPlans
<1>3. CASE host = "brew"
  <2>1. Plan(host, type, names) = brewPlan(asked)
    BY <1>3 DEF Plan, asked
  <2> QED
    BY <1>1, <2>1, UnixPlans
<1>4. CASE host = "windows" /\ type = "packages"
  BY <1>4, WindowsPlans DEF Plan
<1>5. CASE host = "windows" /\ type # "packages"
  BY <1>5, WindowsPlans DEF Plan
<1> QED
  BY <1>2, <1>3, <1>4, <1>5 DEF Platform

(* What is left of a plan has no gate any more.                            *)
LEMMA RestType ==
  ASSUME NEW cmds, WellGated(cmds), cmds # << >>, NEW ok
  PROVE  /\ Rest(cmds, ok) \in Seq(Command)
         /\ \A i \in 1..Len(Rest(cmds, ok)) : Rest(cmds, ok)[i].failure # "gate"
         /\ ~ok /\ Head(cmds).failure = "gate" => Rest(cmds, ok) = << >>
<1>1. /\ Tail(cmds) \in Seq(Command) /\ Len(Tail(cmds)) = Len(cmds) - 1 /\ Len(cmds) \in Nat
      /\ \A i \in 1..Len(Tail(cmds)) : Tail(cmds)[i] = cmds[i + 1]
  BY DEF WellGated
<1>2. \A i \in 1..Len(Tail(cmds)) : Tail(cmds)[i].failure # "gate"
  BY <1>1 DEF WellGated
<1>3. CASE ~ok /\ Head(cmds).failure \in {"gate", "main"}
  BY <1>3 DEF Rest
<1>4. CASE ~(~ok /\ Head(cmds).failure \in {"gate", "main"})
  BY <1>1, <1>2, <1>4 DEF Rest
<1> QED
  BY <1>3, <1>4

-----------------------------------------------------------------------------
(* Every step's effect on the job.                                         *)

(* A job that has not run a command has not failed, and the failure of a   *)
(* gate is the plan's last step.                                           *)
CommandsOK ==
  /\ job.phase = "received" => job.err = "none"
  /\ job.phase = "running" =>
       WellGated(job.cmds) /\ (job.err = "update_failed" => job.cmds = << >>)

JobInv == JobTypeOK /\ CommandsOK /\ platform \in Platform /\ tag \in Version

LEMMA ReceivedStep ==
  ASSUME NEW type \in Types, NEW component \in {"none", "agent", "companion"},
         NEW names \in SUBSET Package, NEW target \in Version,
         TakeAction(type, component, names, target)
  PROVE  /\ JobTypeOK' /\ job'.phase = "received" /\ job'.err = "none" /\ ~job'.staged
         /\ job'.target = target
<1>1. job' = [type |-> type, component |-> component, names |-> names, target |-> target,
              cmds |-> << >>, phase |-> "received", err |-> "none", staged |-> FALSE,
              put |-> 0]
  BY DEF TakeAction, Received, NoJob
<1>2. << >> \in Seq(Command) /\ "received" \in Phases /\ "none" \in Errors
  BY DEF Phases, Errors
<1> QED
  BY <1>1, <1>2 DEF JobTypeOK, Job

LEMMA ValidateStep ==
  ASSUME JobInv, Validate
  PROVE  /\ JobTypeOK' /\ job'.type = job.type /\ job'.target = job.target
         /\ job'.component = job.component /\ job'.staged = job.staged
         /\ \/ /\ job'.phase = "running" /\ job'.err = "none"
               /\ WellGated(job'.cmds)
            \/ job'.phase = "report" /\ job'.err = "error"
<1> DEFINE plan == Plan(platform, job.type, job.names)
<1>1. WellGated(plan)
  BY PlanType DEF JobInv, JobTypeOK, Job, Validate
<1>2. job \in Job /\ job.err = "none" /\ plan \in Seq(Command)
  BY <1>1 DEF JobInv, JobTypeOK, CommandsOK, Validate, WellGated
<1> HIDE DEF plan
<1>3. CASE job' = [job EXCEPT !.phase = "running", !.cmds = plan]
  BY <1>1, <1>2, <1>3 DEF JobTypeOK, Job, Phases
<1>4. CASE Fail
  BY <1>4, <1>2, FailStep DEF JobTypeOK, KeepsJob
<1> QED
  BY <1>3, <1>4 DEF Validate, plan

LEMMA CommandStep ==
  ASSUME JobInv, RunCommand
  PROVE  /\ JobTypeOK' /\ job'.type = job.type /\ job'.target = job.target
         /\ job'.component = job.component /\ job'.staged = job.staged
         /\ job.phase = "running" /\ job'.phase = "running"
         /\ \A i \in 1..Len(job'.cmds) : job'.cmds[i].failure # "gate"
         /\ job'.cmds \in Seq(Command)
         /\ job'.err = "update_failed" => job'.cmds = << >>
         /\ \/ Head(job.cmds).failure # "gate" /\ job'.err # "update_failed"
            \/ Head(job.cmds).failure = "gate" /\ pending' = pending
<1>1. PICK o \in Outcomes(Head(job.cmds), pending, reboot) :
        /\ o.ok => Live
        /\ pending' = o.left /\ reboot' = o.reboot
        /\ job' = [job EXCEPT
             !.cmds = Rest(job.cmds, o.ok),
             !.err = IF o.ok \/ Head(job.cmds).failure = "note" THEN job.err
                     ELSE IF Head(job.cmds).failure = "gate" THEN "update_failed"
                     ELSE "error"]
  BY DEF RunCommand
<1>2. job \in Job /\ WellGated(job.cmds) /\ job.cmds # << >> /\ job.phase = "running"
      /\ job.err # "update_failed"
  BY DEF JobInv, JobTypeOK, CommandsOK, RunCommand
<1>3. Head(job.cmds) \in Command /\ Head(job.cmds) = job.cmds[1] /\ 1 \in 1..Len(job.cmds)
  BY <1>2, HeadTailProperties DEF WellGated
<1>5. /\ Rest(job.cmds, o.ok) \in Seq(Command)
      /\ \A i \in 1..Len(Rest(job.cmds, o.ok)) : Rest(job.cmds, o.ok)[i].failure # "gate"
      /\ ~o.ok /\ Head(job.cmds).failure = "gate" => Rest(job.cmds, o.ok) = << >>
  BY <1>2, RestType
<1> DEFINE rest == Rest(job.cmds, o.ok)
           err == IF o.ok \/ Head(job.cmds).failure = "note" THEN job.err
                  ELSE IF Head(job.cmds).failure = "gate" THEN "update_failed"
                  ELSE "error"
<1>6. err \in Errors /\ (err = "update_failed" => ~o.ok /\ Head(job.cmds).failure = "gate")
  BY <1>2 DEF Job, Errors
<1>7. job' = [job EXCEPT !.cmds = rest, !.err = err]
  BY <1>1
<1>8. rest \in Seq(Command) /\ (err = "update_failed" => rest = << >>)
      /\ \A i \in 1..Len(rest) : rest[i].failure # "gate"
  BY <1>5, <1>6
<1>9. ASSUME Head(job.cmds).failure = "gate" PROVE pending' = pending
  <2>1. Head(job.cmds).names = {} /\ Head(job.cmds).tool # "wu"
    BY <1>2, <1>3, <1>9 DEF WellGated
  <2>2. o \in runManager({}, pending, reboot)
    BY <2>1 DEF Outcomes
  <2>3. o.left = pending \ {} \/ o.left \in Between(pending \ {}, pending)
    BY <2>2 DEF runManager, Outcome
  <2>4. o.left = pending
    BY <2>3 DEF Between
  <2> QED
    BY <1>1, <2>4
<1> HIDE DEF rest, err
<1>10. job'.cmds = rest /\ job'.err = err /\ JobTypeOK'
       /\ job'.type = job.type /\ job'.target = job.target
       /\ job'.component = job.component /\ job'.staged = job.staged /\ job'.phase = job.phase
  BY <1>2, <1>6, <1>7, <1>8 DEF Job, JobTypeOK
<1> QED
  BY <1>2, <1>6, <1>8, <1>9, <1>10

(* The actions of the companion are asked for with names the host knows    *)
(* and a version there is.                                                 *)
Asked ==
  \E type \in Types, component \in {"none", "agent", "companion"},
     names \in SUBSET Package, target \in Version :
    TakeAction(type, component, names, target)

(* The companion's own steps.                                              *)
JobAction ==
  \/ ApplyRecheck \/ Validate \/ RunCommand \/ Applied
  \/ SelfUpdate \/ Download \/ Stage \/ InstallCompanion \/ RestartCompanion
  \/ InstallAgent \/ ReplaceAgent \/ DockerPull \/ DockerTag \/ DockerUp \/ Report

(* Everyone else's: the swap, the agent, the host and its operator.        *)
OtherAction ==
  \/ SwapStat \/ SwapStop \/ SwapWait \/ SwapRename \/ SwapStart \/ SwapReport
  \/ BeginCheck \/ EndCheck
  \/ CompanionExits \/ (\E p \in Package : Arrive(p))
  \/ OperatorStops \/ OperatorStarts \/ AgentCrashes \/ AgentStarts

LEMMA NextSplits == HostNext => Asked \/ JobAction \/ OtherAction \/ Reboot
<1> SUFFICES ASSUME HostNext PROVE Asked \/ JobAction \/ OtherAction \/ Reboot
  OBVIOUS
<1>1. 1 \in Version /\ {} \in SUBSET Package
  BY HostAssumption DEF Version
<1>2. CASE TakeAction("recheck", "none", {}, 1)
  BY <1>1, <1>2 DEF Asked, Types
<1>3. ASSUME NEW names \in SUBSET Package \ {{}}, TakeAction("packages", "none", names, 1)
      PROVE  Asked
  BY <1>1, <1>3 DEF Asked, Types
<1>4. ASSUME NEW type \in {"upgrade", "full_upgrade"}, TakeAction(type, "none", {}, 1)
      PROVE  Asked
  BY <1>1, <1>4 DEF Asked, Types
<1>5. ASSUME NEW component \in {"agent", "companion"}, NEW v \in Version,
             TakeAction("selfupdate", component, {}, v)
      PROVE  Asked
  BY <1>1, <1>5 DEF Asked, Types
<1> QED
  BY <1>2, <1>3, <1>4, <1>5 DEF HostNext, JobAction, OtherAction

LEMMA OtherKeepsJob == OtherAction => UNCHANGED <<job, platform, deploy, tag, tmp>>
BY DEF OtherAction, SwapStat, SwapStop, SwapWait, SwapRename, SwapStart, SwapReport,
       BeginCheck, EndCheck, CompanionExits, Arrive, OperatorStops, OperatorStarts,
       AgentCrashes, AgentStarts, Fault, fileVars, envVars

LEMMA JobStep == JobInv /\ [HostNext]_companionVars => JobInv'
<1> SUFFICES ASSUME JobInv, [HostNext]_companionVars PROVE JobInv'
  OBVIOUS
<1>0. JobTypeOK /\ tag \in Version
  BY DEF JobInv
<1>1. CASE Asked
  <2>1. platform' = platform /\ tag' = tag
    BY <1>1 DEF Asked, TakeAction, envVars, fileVars
  <2>2. JobTypeOK' /\ job'.phase = "received" /\ job'.err = "none"
    BY <1>1, ReceivedStep DEF Asked
  <2> QED
    BY <2>1, <2>2 DEF JobInv, CommandsOK
<1>2. CASE Validate
  BY <1>2, ValidateStep DEF JobInv, CommandsOK, Validate, envVars, fileVars
<1>3. CASE RunCommand
  <2>1. WellGated(job'.cmds)
    BY <1>3, CommandStep DEF WellGated
  <2> QED
    BY <1>3, <2>1, CommandStep DEF JobInv, CommandsOK, RunCommand, envVars, fileVars
<1>4. CASE UNCHANGED <<job, platform, tag>>
  BY <1>4 DEF JobInv, JobTypeOK, CommandsOK
<1>5. CASE JobTypeOK' /\ platform' = platform /\ tag' \in Version /\ job'.phase \notin {"received", "running"}
  BY <1>5 DEF JobInv, CommandsOK
<1>6. ASSUME NEW p \in Phases \ {"received", "running"}, Go(p), platform' = platform, tag' \in Version
      PROVE  JobInv'
  BY <1>0, <1>5, <1>6, GoStep
<1>7. ASSUME Fail, platform' = platform, tag' \in Version
      PROVE  JobInv'
  BY <1>0, <1>5, <1>7, FailStep
<1>8. ASSUME NEW v \in Version, Put(v), platform' = platform, tag' \in Version
      PROVE  JobInv'
  BY <1>0, <1>5, <1>8, PutStep
<1>9. CASE ApplyRecheck \/ Applied
  BY <1>0, <1>6, <1>9 DEF ApplyRecheck, Applied, envVars, fileVars, Phases
<1>10. CASE SelfUpdate
  BY <1>0, <1>6, <1>7, <1>10 DEF SelfUpdate, envVars, fileVars, Phases
<1>11. CASE Download \/ InstallCompanion \/ RestartCompanion
  BY <1>0, <1>6, <1>7, <1>11 DEF Download, InstallCompanion, RestartCompanion, envVars, fileVars, Phases
<1>12. CASE Stage
  <2>1. CASE job' = [job EXCEPT !.phase = "report", !.staged = TRUE]
    <3>1. JobTypeOK' /\ job'.phase = "report"
      BY <1>0, <2>1 DEF JobTypeOK, Job, Phases
    <3> QED
      BY <1>0, <1>5, <1>12, <3>1 DEF Stage, envVars, fileVars
  <2> QED
    BY <1>0, <1>7, <1>12, <2>1 DEF Stage, envVars, fileVars
<1>13. CASE InstallAgent \/ ReplaceAgent
  <2>1. job.target \in Version
    BY <1>0 DEF JobTypeOK, Job
  <2> QED
    BY <1>0, <1>6, <1>7, <1>8, <1>13, <2>1 DEF InstallAgent, ReplaceAgent, envVars, fileVars, Phases
<1>14. CASE DockerPull \/ DockerTag \/ DockerUp
  <2>1. job.target \in Version
    BY <1>0 DEF JobTypeOK, Job
  <2> QED
    BY <1>0, <1>6, <1>7, <1>8, <1>14, <2>1
       DEF DockerPull, DockerTag, DockerUp, envVars, fileVars, Phases
<1>15. CASE Report \/ Reboot
  BY <1>0, <1>5, <1>15, NoJobType DEF Report, Reboot, Fault, envVars, fileVars, JobTypeOK
<1>16. CASE OtherAction
  BY <1>4, <1>16, OtherKeepsJob
<1>17. CASE UNCHANGED companionVars
  BY <1>4, <1>17 DEF companionVars, envVars, fileVars
<1> QED
  BY <1>1, <1>2, <1>3, <1>9, <1>10, <1>11, <1>12, <1>13, <1>14, <1>15, <1>16, <1>17,
     NextSplits DEF JobAction

-----------------------------------------------------------------------------
(* The recheck behind an apply.                                            *)

(* A job whose commands may have changed the host, and that will ask for a *)
(* recheck when they are over: past its gate, if it has one.               *)
Dirty ==
  /\ job.phase = "running" /\ job.err # "update_failed"
  /\ job.cmds = << >> \/ Head(job.cmds).failure # "gate"

Covered == recheck \/ missed \/ Dirty

(* What a cycle has found pending, too, may be stale when it is shown, so  *)
(* it needs the recheck behind it.                                         *)
RecheckInv ==
  /\ checking => agent # "down"
  /\ checking /\ seen \ pending # {} => Covered
  /\ agent = "ready" /\ shown \ pending # {} => checking \/ Covered

LEMMA TriggerCovers ==
  ASSUME triggerRecheck
  PROVE  /\ recheck => recheck'
         /\ missed => missed'
         /\ agent # "down" => recheck' \/ missed'
BY DEF triggerRecheck

LEMMA RecheckStep ==
  JobInv /\ RecheckInv /\ [HostNext]_companionVars => RecheckInv'
<1> SUFFICES ASSUME JobInv, RecheckInv, [HostNext]_companionVars PROVE RecheckInv'
  OBVIOUS
<1>0. JobTypeOK
  BY DEF JobInv
<1>1. ASSUME UNCHANGED <<agent, shown, checking, seen, pending>>, Covered => Covered'
      PROVE  RecheckInv'
  BY <1>1 DEF RecheckInv
<1>2. ASSUME UNCHANGED <<agent, shown, checking, seen, pending, recheck, missed>>,
             ~Dirty
      PROVE  RecheckInv'
  BY <1>1, <1>2 DEF Covered
<1>3. CASE Asked
  BY <1>2, <1>3 DEF Asked, TakeAction, NoJob, Dirty, hostVars, agentVars
<1>4. CASE Validate \/ SelfUpdate \/ Download \/ Stage \/ InstallCompanion
           \/ RestartCompanion \/ DockerPull \/ DockerTag \/ Report
  BY <1>2, <1>4
     DEF Validate, SelfUpdate, Download, Stage, InstallCompanion, RestartCompanion,
         DockerPull, DockerTag, Report, Dirty, hostVars, agentVars
<1>5. CASE RunCommand
  <2>1. UNCHANGED <<agent, shown, recheck, checking, seen, missed>>
    BY <1>5 DEF RunCommand, agentVars
  <2>2. CASE Head(job.cmds).failure # "gate" /\ job'.err # "update_failed"
    <3>1. job'.cmds = << >> \/ Head(job'.cmds).failure # "gate"
      <4>1. job'.cmds \in Seq(Command)
            /\ \A i \in 1..Len(job'.cmds) : job'.cmds[i].failure # "gate"
        BY <1>5, CommandStep
      <4>2. ASSUME job'.cmds # << >>
            PROVE  1 \in 1..Len(job'.cmds) /\ Head(job'.cmds) = job'.cmds[1]
        BY <4>1, <4>2, HeadTailProperties
      <4> QED
        BY <4>1, <4>2
    <3>2. Dirty'
      BY <1>5, <2>2, <3>1, CommandStep DEF Dirty
    <3> QED
      BY <2>1, <3>2 DEF RecheckInv, Covered
  <2>3. CASE Head(job.cmds).failure = "gate" /\ pending' = pending
    BY <1>2, <1>5, <2>1, <2>3 DEF RunCommand, Dirty
  <2> QED
    BY <1>5, <2>2, <2>3, CommandStep
<1>6. CASE ApplyRecheck
  BY <1>1, <1>6, TriggerCovers DEF ApplyRecheck, hostVars, Covered, Dirty
<1>7. CASE Applied
  <2>1. UNCHANGED <<agent, shown, checking, seen, pending>>
    BY <1>7 DEF Applied, hostVars
  <2>2. CASE job.err = "update_failed"
    BY <1>2, <1>7, <2>1, <2>2 DEF Applied, Dirty
  <2>3. CASE job.err # "update_failed"
    <3>1. triggerRecheck
      BY <1>7, <2>3 DEF Applied
    <3>2. agent # "down" => Covered'
      BY <3>1, TriggerCovers DEF Covered
    <3> QED
      BY <2>1, <3>2 DEF RecheckInv
  <2> QED
    BY <2>2, <2>3
<1>8. ASSUME NEW step \in {"down", "starting"}, AgentExits(step), pending' = pending
      PROVE  RecheckInv'
  BY <1>8 DEF AgentExits, RecheckInv
<1>9. CASE InstallAgent \/ ReplaceAgent \/ DockerUp \/ AgentCrashes \/ AgentStarts
  <2>1. pending' = pending
    BY <1>9 DEF InstallAgent, ReplaceAgent, DockerUp, AgentCrashes, AgentStarts, hostVars
  <2>2. CASE UNCHANGED agentVars /\ ~Dirty
    BY <1>2, <2>1, <2>2 DEF agentVars
  <2> QED
    BY <1>8, <1>9, <2>1, <2>2
       DEF InstallAgent, ReplaceAgent, DockerUp, AgentCrashes, AgentStarts, Dirty
<1>10. CASE \/ SwapStat \/ SwapStop \/ SwapWait \/ SwapRename \/ SwapStart \/ SwapReport
            \/ CompanionExits \/ OperatorStops \/ OperatorStarts
            \/ UNCHANGED companionVars
  <2>1. UNCHANGED <<hostVars, agentVars, job>>
    BY <1>10
       DEF SwapStat, SwapStop, SwapWait, SwapRename, SwapStart, SwapReport,
           CompanionExits, OperatorStops, OperatorStarts, companionVars
  <2> QED
    BY <1>1, <2>1 DEF hostVars, agentVars, Covered, Dirty
<1>11. CASE BeginCheck
  BY <1>11 DEF BeginCheck, RecheckInv, hostVars
<1>12. CASE EndCheck
  <2>1. Covered => Covered'
    BY <1>12 DEF EndCheck, Covered, Dirty
  <2> QED
    BY <1>12, <2>1 DEF EndCheck, RecheckInv, hostVars
<1>13. ASSUME NEW q \in Package, Arrive(q) PROVE RecheckInv'
  <2>1. UNCHANGED <<agentVars, job>> /\ pending \subseteq pending'
    BY <1>13 DEF Arrive
  <2>2. Covered => Covered'
    BY <2>1 DEF agentVars, Covered, Dirty
  <2> QED
    BY <2>1, <2>2 DEF RecheckInv, agentVars
<1>14. CASE Reboot
  BY <1>14 DEF Reboot, RecheckInv
<1> QED
  BY <1>3, <1>4, <1>5, <1>6, <1>7, <1>9, <1>10, <1>11, <1>12, <1>13, <1>14, NextSplits
     DEF JobAction, OtherAction

LEMMA JobInit == InitHost => JobInv /\ RecheckInv
<1> SUFFICES ASSUME InitHost PROVE JobInv /\ RecheckInv
  OBVIOUS
<1>1. JobInv
  BY NoJobType, HostAssumption DEF InitHost, JobInv, JobTypeOK, CommandsOK, Version
<1>2. RecheckInv
  BY DEF InitHost, RecheckInv
<1> QED
  BY <1>1, <1>2

(* What an apply has installed never stays in the agent's status without   *)
(* an action, a cycle or a recheck to correct it, for any packages, plans  *)
(* and faults (Apply, triggerRecheck, the one-slot recheck channel).       *)
THEOREM StaleIsRechecked == HostSpec => []StaleStatusHasRecheck
<1>1. RecheckInv => StaleStatusHasRecheck
  BY NoJobType DEF RecheckInv, StaleStatusHasRecheck, Covered, Dirty
<1> QED
  BY <1>1, JobInit, JobStep, RecheckStep, PTL DEF HostSpec

-----------------------------------------------------------------------------
(* The binaries.                                                           *)

LEMMA Contents ==
  /\ NoFile \notin Version /\ Empty \notin Version /\ Partial \notin Version
  /\ NoFile # Empty
BY HostAssumption DEF NoFile, Empty, Partial, Version

(* A step that leaves the files, the swap and the service alone keeps what *)
(* the job's phase promises if the new phase promises it too.              *)
LEMMA PhaseStep ==
  ASSUME JobInv, FilesInv, UNCHANGED <<svc, swap, exe, new>>, KeepsJob,
         svc # "stopped", svc # "restarting", ~job.staged,
         job'.phase = "running" => job.type # "selfupdate",
         job'.phase \in {"download", "stage", "restart"} => job.component = "companion",
         job'.phase \in {"pull", "tag", "up", "replace"} => job.component = "agent",
         job'.phase = "stage" => tmp' = job.target,
         job'.phase = "restart" => exe = job.target,
         job'.phase = "up" => tag' = job.target,
         job'.phase = "report" /\ job'.type = "selfupdate" =>
           job'.err # "none" \/ (job.component = "agent" /\ job'.put = job.target)
  PROVE  FilesInv'
BY DEF KeepsJob, FilesInv, Progress, ReportTruth, FilesOK, Installed

LEMMA JobFilesStep ==
  ASSUME EmptyBodies = FALSE, JobInv, FilesInv, JobAction
  PROVE  FilesInv'
<1>0. JobTypeOK /\ job.target \in Version
  BY DEF JobInv, JobTypeOK, Job
<1>1. /\ job.phase \notin {"idle", "report"} => svc # "stopped" /\ svc # "restarting"
      /\ job.phase # "report" => ~job.staged
  BY DEF FilesInv, Progress
<1>2. CASE ApplyRecheck
  <2>1. KeepsJob /\ job'.phase = "report"
    BY <1>0, <1>2, GoStep DEF ApplyRecheck, Phases
  <2> QED
    BY <1>1, <1>2, <2>1, PhaseStep DEF ApplyRecheck, fileVars, KeepsJob
<1>3. CASE Validate
  BY <1>1, <1>3, ValidateStep
     DEF Validate, fileVars, FilesInv, Progress, ReportTruth, FilesOK, Installed
<1>4. CASE RunCommand
  BY <1>1, <1>4, CommandStep
     DEF RunCommand, fileVars, FilesInv, Progress, ReportTruth, FilesOK, Installed
<1>5. CASE Applied
  <2>1. KeepsJob /\ job'.phase = "report" /\ job.type # "selfupdate"
    BY <1>0, <1>5, GoStep DEF Applied, Phases, FilesInv, Progress
  <2> QED
    BY <1>1, <1>5, <2>1, PhaseStep DEF Applied, fileVars, KeepsJob
<1>6. CASE SelfUpdate
  <2>1. UNCHANGED <<svc, swap, exe, new>> /\ svc # "stopped" /\ svc # "restarting" /\ ~job.staged
    BY <1>1, <1>6 DEF SelfUpdate
  <2>2. CASE Fail
    <3>1. KeepsJob /\ job'.phase = "report" /\ job'.err = "error"
      BY <1>0, <2>2, FailStep
    <3> QED
      BY <2>1, <3>1, PhaseStep
  <2>3. ASSUME NEW q \in {"download", "install", "pull"}, Go(q),
               q = "download" => job.component = "companion",
               q = "pull" => job.component = "agent"
        PROVE  FilesInv'
    <3>1. KeepsJob /\ job'.phase = q
      BY <1>0, <2>3, GoStep DEF Phases
    <3> QED
      BY <2>1, <2>3, <3>1, PhaseStep
  <2> QED
    BY <1>6, <2>2, <2>3 DEF SelfUpdate
<1>7. CASE Download
  <2>1. UNCHANGED <<svc, swap, exe, new>> /\ svc # "stopped" /\ svc # "restarting" /\ ~job.staged
    BY <1>1, <1>7 DEF Download
  <2>2. job.component = "companion"
    BY <1>7 DEF Download, FilesInv, Progress
  <2>3. CASE Fail
    <3>1. KeepsJob /\ job'.phase = "report" /\ job'.err = "error"
      BY <1>0, <2>3, FailStep
    <3> QED
      BY <2>1, <3>1, PhaseStep
  <2>4. CASE Go("stage") /\ tmp' = job.target
    <3>1. KeepsJob /\ job'.phase = "stage"
      BY <1>0, <2>4, GoStep DEF Phases
    <3> QED
      BY <2>1, <2>2, <2>4, <3>1, PhaseStep
  <2> QED
    BY <1>7, <2>3, <2>4 DEF Download
<1>8. CASE Stage
  <2>1. UNCHANGED <<svc, swap, exe>> /\ svc # "stopped" /\ svc # "restarting"
    BY <1>1, <1>8 DEF Stage
  <2>2. CASE Fail /\ new' = new
    <3>1. KeepsJob /\ job'.phase = "report" /\ job'.err = "error"
      BY <1>0, <2>2, FailStep
    <3> QED
      BY <1>1, <1>8, <2>1, <2>2, <3>1, PhaseStep DEF Stage
  <2>3. CASE new' = tmp /\ job' = [job EXCEPT !.phase = "report", !.staged = TRUE]
    <3>1. new' = job.target /\ job.component = "companion"
      BY <1>8, <2>3 DEF Stage, FilesInv, Progress
    <3>2. /\ job'.phase = "report" /\ job'.component = job.component
          /\ job'.target = job.target /\ job'.staged = TRUE
      BY <1>0, <2>3 DEF JobTypeOK, Job
    <3> QED
      BY <1>0, <2>1, <3>1, <3>2 DEF FilesInv, Progress, ReportTruth, FilesOK, Installed
  <2> QED
    BY <1>8, <2>2, <2>3 DEF Stage
<1>9. CASE InstallCompanion
  <2>1. UNCHANGED <<svc, swap, new>> /\ svc # "stopped" /\ svc # "restarting" /\ ~job.staged
    BY <1>1, <1>9 DEF InstallCompanion
  <2>2. CASE Fail /\ exe' = exe
    <3>1. KeepsJob /\ job'.phase = "report" /\ job'.err = "error"
      BY <1>0, <2>2, FailStep
    <3> QED
      BY <2>1, <2>2, <3>1, PhaseStep
  <2>3. CASE exe' = job.target /\ Go("restart")
    <3>1. KeepsJob /\ job'.phase = "restart" /\ job.component = "companion"
      BY <1>0, <1>9, <2>3, GoStep DEF Phases, InstallCompanion
    <3> QED
      BY <1>0, <2>1, <2>3, <3>1
         DEF KeepsJob, FilesInv, Progress, ReportTruth, FilesOK, Installed
  <2> QED
    BY <1>9, <2>2, <2>3 DEF InstallCompanion
<1>10. CASE RestartCompanion
  <2>1. UNCHANGED fileVars /\ swap' = swap /\ (svc' = svc \/ svc' = "restarting")
    BY <1>10 DEF RestartCompanion
  <2>2. KeepsJob /\ job'.phase = "report" /\ job'.err = "error"
    BY <1>0, <1>10, FailStep DEF RestartCompanion
  <2>3. job.component = "companion" /\ exe = job.target /\ ~job.staged /\ svc # "stopped"
    BY <1>1, <1>10 DEF RestartCompanion, FilesInv, Progress
  <2> QED
    BY <2>1, <2>2, <2>3
       DEF fileVars, KeepsJob, FilesInv, Progress, ReportTruth, FilesOK, Installed
<1>11. ASSUME UNCHANGED fileVars, svc' = svc, swap' \in {swap, "none"}, job.phase # "report",
              job.phase # "idle", job.component = "agent",
              \/ KeepsJob /\ job'.phase = "report" /\ job'.err = "error"
              \/ KeepsJob /\ job'.phase = "report" /\ job'.put = job.target
              \/ KeepsJob /\ job'.phase = "replace"
       PROVE  FilesInv'
  BY <1>1, <1>11 DEF fileVars, KeepsJob, FilesInv, Progress, ReportTruth, FilesOK, Installed
<1>12. CASE InstallAgent \/ ReplaceAgent
  <2>1. UNCHANGED fileVars /\ svc' = svc /\ swap' \in {swap, "none"}
        /\ job.phase \in {"install", "replace"} /\ job.component = "agent"
    BY <1>12 DEF InstallAgent, ReplaceAgent, AgentExits, FilesInv, Progress
  <2>2. Fail \/ Put(job.target) \/ Go("replace")
    BY <1>12 DEF InstallAgent, ReplaceAgent
  <2> QED
    BY <1>0, <1>11, <2>1, <2>2, FailStep, PutStep, GoStep DEF Phases
<1>13. CASE DockerUp
  <2>1. UNCHANGED fileVars /\ svc' = svc /\ swap' \in {swap, "none"}
        /\ job.phase = "up" /\ job.component = "agent" /\ tag = job.target
    BY <1>13 DEF DockerUp, AgentExits, FilesInv, Progress
  <2>2. Fail \/ Put(job.target)
    BY <1>13, <2>1 DEF DockerUp
  <2> QED
    BY <1>0, <1>11, <2>1, <2>2, FailStep, PutStep
<1>14. CASE DockerPull \/ DockerTag
  <2>1. UNCHANGED <<svc, swap, exe, new>> /\ svc # "stopped" /\ svc # "restarting" /\ ~job.staged
    BY <1>1, <1>14 DEF DockerPull, DockerTag, fileVars
  <2>2. job.component = "agent"
    BY <1>14 DEF DockerPull, DockerTag, FilesInv, Progress
  <2>3. \/ Fail
        \/ Go("tag")
        \/ Go("up") /\ tag' = job.target
    BY <1>14 DEF DockerPull, DockerTag
  <2>4. \/ KeepsJob /\ job'.phase = "report" /\ job'.err = "error"
        \/ KeepsJob /\ job'.phase = "tag"
        \/ KeepsJob /\ job'.phase = "up" /\ tag' = job.target
    BY <1>0, <2>3, FailStep, GoStep DEF Phases
  <2> QED
    BY <2>1, <2>2, <2>4, PhaseStep
<1>15. CASE Report
  <2>1. UNCHANGED fileVars /\ svc' = svc /\ swap' \in {swap, "stat"} /\ job' = NoJob
    BY <1>15 DEF Report
  <2> QED
    BY <2>1, NoJobType DEF fileVars, FilesInv, Progress, ReportTruth, FilesOK, Installed
<1> QED
  BY <1>2, <1>3, <1>4, <1>5, <1>6, <1>7, <1>8, <1>9, <1>10, <1>12, <1>13, <1>14, <1>15
     DEF JobAction

LEMMA SwapFilesStep ==
  ASSUME FilesInv, OtherAction
  PROVE  FilesInv'
<1>0. UNCHANGED <<job, tag, tmp>>
  BY OtherKeepsJob
<1>1. ASSUME exe' = exe, new' = new,
             svc' = svc \/ svc' \in {"running", "stopping"} \/ (svc' = "stopped" /\ job = NoJob),
             swap' \in {swap, "none", "report", "start"}
             \/ (swap' = "wait" /\ swap = "stop") \/ (swap' = "rename" /\ swap = "wait")
      PROVE  FilesInv'
  BY <1>0, <1>1, NoJobType DEF FilesInv, Progress, ReportTruth, FilesOK, Installed
<1>2. CASE SwapStat
  BY <1>0, <1>2, Contents
     DEF SwapStat, FilesInv, Progress, ReportTruth, FilesOK, Installed
<1>3. CASE SwapStop \/ SwapWait \/ SwapStart \/ SwapReport
  BY <1>1, <1>3 DEF SwapStop, SwapWait, SwapStart, SwapReport, fileVars
<1>4. CASE SwapRename
  <2>1. CASE svc = "stopped" /\ svc' = svc /\ exe' = new /\ new' = NoFile /\ swap' = "start"
    BY <1>0, <1>4, <2>1, Contents
       DEF SwapRename, FilesInv, Progress, ReportTruth, FilesOK, Installed
  <2>2. CASE swap' = "report" /\ UNCHANGED <<exe, new>>
    BY <1>1, <1>4, <2>2 DEF SwapRename
  <2> QED
    BY <1>4, <2>1, <2>2 DEF SwapRename
<1>5. ASSUME UNCHANGED <<exe, new, swap>>, svc' = svc PROVE FilesInv'
  BY <1>1, <1>5
<1>6. CASE BeginCheck \/ EndCheck \/ \E p \in Package : Arrive(p)
  BY <1>5, <1>6 DEF BeginCheck, EndCheck, Arrive, fileVars
<1>7. CASE CompanionExits \/ OperatorStops \/ OperatorStarts
  BY <1>1, <1>7 DEF CompanionExits, OperatorStops, OperatorStarts, fileVars
<1>8. CASE AgentCrashes \/ AgentStarts
  BY <1>1, <1>8 DEF AgentCrashes, AgentStarts, AgentExits, fileVars
<1> QED
  BY <1>2, <1>3, <1>4, <1>6, <1>7, <1>8 DEF OtherAction

LEMMA FilesStep ==
  ASSUME EmptyBodies = FALSE
  PROVE  JobInv /\ FilesInv /\ [HostNext]_companionVars => FilesInv'
<1> SUFFICES ASSUME JobInv, FilesInv, [HostNext]_companionVars PROVE FilesInv'
  OBVIOUS
<1>1. CASE Asked
  <2>1. UNCHANGED fileVars /\ svc' = svc /\ swap' = swap /\ svc = "running"
    BY <1>1 DEF Asked, TakeAction, Live
  <2>2. job'.phase = "received" /\ ~job'.staged
    BY <1>1, ReceivedStep DEF Asked
  <2> QED
    BY <2>1, <2>2 DEF fileVars, FilesInv, Progress, ReportTruth, FilesOK, Installed
<1>2. CASE JobAction
  BY <1>2, JobFilesStep
<1>3. CASE OtherAction
  BY <1>3, SwapFilesStep
<1>4. CASE Reboot
  BY <1>4, NoJobType
     DEF Reboot, fileVars, FilesInv, Progress, ReportTruth, FilesOK, Installed
<1>5. CASE UNCHANGED companionVars
  BY <1>5 DEF companionVars, fileVars, FilesInv, Progress, ReportTruth, FilesOK, Installed
<1> QED
  BY <1>1, <1>2, <1>3, <1>4, <1>5, NextSplits

LEMMA FilesInit == InitHost => FilesInv
BY NoJobType, HostAssumption
   DEF InitHost, FilesInv, Progress, ReportTruth, FilesOK, Version

LEMMA FilesHold ==
  ASSUME EmptyBodies = FALSE
  PROVE  HostSpec => [](JobInv /\ FilesInv)
BY JobInit, FilesInit, JobStep, FilesStep, PTL DEF HostSpec

(* Where no download succeeds with an empty body, the companion's binary   *)
(* is a whole release at every step, for any number of versions, updates,  *)
(* cuts, stops and reboots (stageCompanionUpdate, CompleteCompanionSwap).  *)
THEOREM BinaryStaysWhole ==
  ASSUME EmptyBodies = FALSE
  PROVE  HostSpec => []BinaryIsWhole
<1>1. FilesInv => BinaryIsWhole
  BY DEF FilesInv, FilesOK, BinaryIsWhole
<1> QED
  BY <1>1, FilesHold, PTL

(* Where no download succeeds with an empty body, a self-update reported   *)
(* as a success is in place, or somebody else was stopping the companion   *)
(* (SelfUpdate and its appliers, the companion's report).                  *)
THEOREM SuccessIsTrue ==
  ASSUME EmptyBodies = FALSE
  PROVE  HostSpec => []SuccessIsInstalled
<1>1. ASSUME JobInv, FilesInv PROVE SuccessIsInstalled
  <2> SUFFICES ASSUME job.type = "selfupdate", job.phase = "report", Success
               PROVE  Installed \/ svc \in {"stopping", "stopped"}
    BY DEF SuccessIsInstalled
  <2>1. CASE job.err = "none"
    BY <1>1, <2>1 DEF FilesInv, ReportTruth
  <2>2. CASE job.component = "companion" /\ svc = "restarting"
    BY <1>1, <2>2 DEF FilesInv, Progress, Installed
  <2> QED
    BY <1>1, <2>1, <2>2 DEF Success, Live, FilesInv, FilesOK
<1> QED
  BY <1>1, FilesHold, PTL

-----------------------------------------------------------------------------
(* The types.                                                              *)

HostTypes ==
  /\ pending \in SUBSET Package /\ reboot \in BOOLEAN

AgentTypes ==
  /\ agent \in {"down", "starting", "ready"} /\ shown \in SUBSET Package
  /\ recheck \in BOOLEAN /\ checking \in BOOLEAN /\ seen \in SUBSET Package
  /\ missed \in BOOLEAN

ServiceTypes ==
  /\ cause \in {"none", "agent", "locked", "start", "operator"}
  /\ swap \in Steps /\ svc \in {"running", "stopping", "restarting", "stopped"}

FileTypes == tmp \in File /\ new \in File /\ exe \in File

EnvTypes == deploy \in Detection /\ arrivals \in 0..MaxArrivals /\ faults \in 0..MaxFaults

LEMMA FileKinds ==
  Version \subseteq File /\ NoFile \in File /\ Empty \in File /\ Partial \in File
BY HostAssumption DEF Version, File, NoFile, Empty, Partial

(* Whatever a command leaves pending was pending before it.                *)
LEMMA CommandTypes == HostTypes /\ RunCommand => HostTypes'
<1> SUFFICES ASSUME HostTypes, RunCommand PROVE HostTypes'
  OBVIOUS
<1>1. PICK o \in Outcomes(Head(job.cmds), pending, reboot) :
        pending' = o.left /\ reboot' = o.reboot
  BY DEF RunCommand
<1>2. ASSUME NEW names, o \in runManager(names, pending, reboot)
      PROVE  o.left \subseteq pending /\ o.reboot = reboot
  BY <1>2 DEF runManager, Outcome, Between
<1>3. ASSUME NEW names, o \in runWindowsUpdateInstall(names, pending, reboot)
      PROVE  o.left \subseteq pending /\ o.reboot \in BOOLEAN
  BY <1>3 DEF runWindowsUpdateInstall, Outcome, Between, HostTypes
<1>4. o.left \subseteq pending /\ o.reboot \in BOOLEAN
  BY <1>2, <1>3 DEF Outcomes, HostTypes
<1> QED
  BY <1>1, <1>4 DEF HostTypes

LEMMA ExitTypes ==
  ASSUME HostTypes, AgentTypes, ServiceTypes, NEW step \in {"down", "starting"},
         AgentExits(step), UNCHANGED <<hostVars, svc>>
  PROVE  HostTypes' /\ AgentTypes' /\ ServiceTypes'
BY DEF HostTypes, AgentTypes, ServiceTypes, AgentExits, hostVars, Steps

LEMMA HostTypeStep == JobInv /\ HostTypeOK /\ [HostNext]_companionVars => HostTypeOK'
<1> SUFFICES ASSUME JobInv, HostTypeOK, [HostNext]_companionVars PROVE HostTypeOK'
  OBVIOUS
<1>0. HostTypes /\ AgentTypes /\ ServiceTypes /\ FileTypes /\ EnvTypes
  BY DEF HostTypeOK, HostTypes, AgentTypes, ServiceTypes, FileTypes, EnvTypes
<1>1. platform' \in Platform /\ tag' \in Version /\ job' \in Job
  BY JobStep DEF JobInv, JobTypeOK
<1>2. HostTypes' /\ AgentTypes' /\ ServiceTypes'
  <2>1. CASE UNCHANGED <<hostVars, agentVars, swap, svc, cause>>
    BY <1>0, <2>1 DEF hostVars, agentVars, HostTypes, AgentTypes, ServiceTypes
  <2>2. CASE Asked
    BY <2>1, <2>2 DEF Asked, TakeAction
  <2>3. CASE \/ Validate \/ SelfUpdate \/ Download \/ Stage \/ InstallCompanion
             \/ DockerPull \/ DockerTag
    BY <2>1, <2>3
       DEF Validate, SelfUpdate, Download, Stage, InstallCompanion, DockerPull, DockerTag
  <2>4. CASE ApplyRecheck \/ Applied
    BY <1>0, <2>4
       DEF ApplyRecheck, Applied, triggerRecheck, Live, hostVars, HostTypes, AgentTypes,
           ServiceTypes
  <2>5. CASE RunCommand
    BY <1>0, <2>5, CommandTypes DEF RunCommand, agentVars, AgentTypes, ServiceTypes
  <2>6. CASE RestartCompanion \/ Report
    BY <1>0, <2>6
       DEF RestartCompanion, Report, hostVars, agentVars, HostTypes, AgentTypes,
           ServiceTypes, Steps
  <2>7. CASE InstallAgent \/ ReplaceAgent \/ DockerUp \/ AgentCrashes \/ AgentStarts
    BY <1>0, <2>1, <2>7, ExitTypes
       DEF InstallAgent, ReplaceAgent, DockerUp, AgentCrashes, AgentStarts
  <2>8. CASE SwapStat \/ SwapStop \/ SwapWait \/ SwapRename \/ SwapStart \/ SwapReport
    BY <1>0, <2>8
       DEF SwapStat, SwapStop, SwapWait, SwapRename, SwapStart, SwapReport, hostVars,
           agentVars, HostTypes, AgentTypes, ServiceTypes, Steps
  <2>9. CASE BeginCheck \/ EndCheck
    BY <1>0, <2>9 DEF BeginCheck, EndCheck, hostVars, HostTypes, AgentTypes, ServiceTypes
  <2>10. CASE CompanionExits \/ OperatorStops \/ OperatorStarts
    BY <1>0, <2>10
       DEF CompanionExits, OperatorStops, OperatorStarts, hostVars, agentVars, HostTypes,
           AgentTypes, ServiceTypes
  <2>11. ASSUME NEW p \in Package, Arrive(p)
         PROVE  HostTypes' /\ AgentTypes' /\ ServiceTypes'
    BY <1>0, <2>11 DEF Arrive, agentVars, HostTypes, AgentTypes, ServiceTypes
  <2>12. CASE Reboot
    BY <1>0, <2>12 DEF Reboot, HostTypes, AgentTypes, ServiceTypes, Steps
  <2>13. CASE UNCHANGED companionVars
    BY <2>1, <2>13 DEF companionVars
  <2> QED
    BY <2>2, <2>3, <2>4, <2>5, <2>6, <2>7, <2>8, <2>9, <2>10, <2>11, <2>12, <2>13,
       NextSplits DEF JobAction, OtherAction
<1>3. FileTypes'
  <2>1. CASE UNCHANGED fileVars
    BY <1>0, <2>1 DEF fileVars, FileTypes
  <2>2. CASE Asked
    BY <2>1, <2>2 DEF Asked, TakeAction
  <2>3. job.target \in File
    BY FileKinds DEF JobInv, JobTypeOK, Job
  <2>4. CASE SelfUpdate \/ Download \/ Stage \/ InstallCompanion \/ DockerTag
    BY <1>0, <2>3, <2>4, FileKinds
       DEF SelfUpdate, Download, Stage, InstallCompanion, DockerTag, FileTypes
  <2>5. CASE SwapStat \/ SwapRename
    BY <1>0, <2>5, FileKinds DEF SwapStat, SwapRename, FileTypes
  <2> QED
    BY <2>1, <2>2, <2>4, <2>5, NextSplits
       DEF JobAction, OtherAction, ApplyRecheck, Validate, RunCommand, Applied,
           RestartCompanion, InstallAgent, ReplaceAgent, DockerPull, DockerUp, Report,
           SwapStop, SwapWait, SwapStart, SwapReport, BeginCheck, EndCheck, CompanionExits,
           Arrive, OperatorStops, OperatorStarts, AgentCrashes, AgentStarts, Reboot,
           companionVars
<1>4. EnvTypes'
  <2>1. CASE UNCHANGED envVars
    BY <1>0, <2>1 DEF envVars, EnvTypes
  <2>2. CASE Asked
    BY <2>1, <2>2 DEF Asked, TakeAction
  <2>3. ASSUME NEW p \in Package, Arrive(p) PROVE EnvTypes'
    BY <1>0, <2>3, HostAssumption DEF Arrive, EnvTypes
  <2>4. ASSUME Fault PROVE EnvTypes'
    BY <1>0, <2>4, HostAssumption DEF Fault, EnvTypes
  <2>5. CASE OperatorStops \/ AgentCrashes \/ Reboot
    BY <2>4, <2>5 DEF OperatorStops, AgentCrashes, Reboot
  <2> QED
    BY <2>1, <2>2, <2>3, <2>5, NextSplits
       DEF JobAction, OtherAction, ApplyRecheck, Validate, RunCommand, Applied, SelfUpdate,
           Download, Stage, InstallCompanion, RestartCompanion, InstallAgent, ReplaceAgent,
           DockerPull, DockerTag, DockerUp, Report, SwapStat, SwapStop, SwapWait, SwapRename,
           SwapStart, SwapReport, BeginCheck, EndCheck, CompanionExits, OperatorStarts,
           AgentStarts, companionVars
<1> QED
  BY <1>1, <1>2, <1>3, <1>4
     DEF HostTypeOK, HostTypes, AgentTypes, ServiceTypes, FileTypes, EnvTypes, Job

LEMMA HostTypeInit == InitHost => HostTypeOK
<1> SUFFICES ASSUME InitHost PROVE HostTypeOK
  OBVIOUS
<1>1. job.phase \in Phases /\ job.err \in Errors /\ job.names \in SUBSET Package
  BY NoJobType DEF InitHost, Job
<1>2. 1 \in Version /\ faults \in 0..MaxFaults
  BY HostAssumption DEF InitHost, Version
<1>3. deploy \in Detection
  <2>1. [native |-> TRUE, docker |-> FALSE] \in Detection
    BY DEF Detection
  <2> QED
    BY <2>1 DEF InitHost
<1> QED
  BY <1>1, <1>2, <1>3, FileKinds DEF InitHost, HostTypeOK, Steps

(* The types of everything the actions change on a host: no plan, update   *)
(* or fault leaves a value the model has no name for.                      *)
THEOREM HostIsTyped == HostSpec => []HostTypeOK
  BY JobInit, JobStep, HostTypeInit, HostTypeStep, PTL DEF HostSpec
=============================================================================
