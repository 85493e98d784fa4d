-------------------------------- MODULE Host --------------------------------
(***************************************************************************)
(* What actions do to ONE host: the companion carries out packages,        *)
(* upgrades, rechecks and self-updates (internal/companion), the agent     *)
(* keeps the status the companion validates them against and, on Windows,  *)
(* swaps the companion's binary after a staged update.  Service manager,   *)
(* package managers and operator are the environment.  How an action gets  *)
(* to the companion, and a result back, is in CompanionHub.                *)
(*                                                                         *)
(* The companion runs one action at a time, so job is both the action it   *)
(* works on and the aggregator's in-flight marker; swap is the same for    *)
(* the one action the agent runs on the host.  The two are independent.    *)
(***************************************************************************)
EXTENDS Applier

CONSTANTS
  MaxVersion,   \* versions are 1..MaxVersion
  MaxArrivals,  \* bound on the upgrades that become available
  MaxFaults,    \* bound on operator stops, reboots and agent crashes
  EmptyBodies   \* whether a download may succeed with an empty body

ASSUME HostAssumption == MaxVersion \in Nat \ {0} /\ MaxArrivals \in Nat
                         /\ MaxFaults \in Nat /\ EmptyBodies \in BOOLEAN

Version == 1..MaxVersion
NoFile  == 0                \* contents of .new and .tmp besides a version
Empty   == MaxVersion + 1
Partial == MaxVersion + 2
File    == 0..(MaxVersion + 2)

VARIABLES
  platform,  \* which build runs on the host
  deploy,    \* what Detect finds: a native unit and/or a container
  pending,   \* upgrades the package manager would still apply
  reboot,    \* a reboot is due (CBS RebootPending, RebootRequired)
  agent,     \* "down", "starting" (no status yet), "ready"
  shown,     \* the agent's last status: the names it calls pending
  recheck,   \* a request in the agent's one-slot recheck channel
  checking,  \* a detection cycle runs
  seen,      \* what it found pending
  swap,      \* step of the agent's CompleteCompanionSwap, or "none"
  svc,       \* the companion's service
  job,       \* the companion's action and how far it is
  tmp, new,  \* companion.exe.new.tmp and companion.exe.new
  exe,       \* the companion's binary
  tag,       \* version the image tag of its compose file resolves to
  missed,    \* a recheck the companion could not send, not made good yet
  cause,     \* why the companion is down, when no swap is at work
  arrivals, faults

hostVars  == <<pending, reboot>>
agentVars == <<agent, shown, recheck, checking, seen, missed>>
fileVars  == <<tmp, new, exe, tag>>
envVars   == <<platform, deploy, arrivals, faults>>
companionVars == <<hostVars, agentVars, fileVars, envVars, swap, svc, job, cause>>

Types  == {"recheck", "packages", "upgrade", "full_upgrade", "selfupdate"}
Phases == {"idle", "received", "running", "download", "stage", "install",
           "restart", "replace", "pull", "tag", "up", "report"}
Errors == {"none", "update_failed", "error"}
Steps  == {"none", "stat", "stop", "wait", "rename", "start", "report"}

NoJob == [type |-> "none", component |-> "none", names |-> {}, target |-> 1,
          cmds |-> << >>, phase |-> "idle", err |-> "none", staged |-> FALSE,
          put |-> 0]                  \* the agent's version put in place

Received(type, component, names, target) ==
  [NoJob EXCEPT !.type = type, !.component = component, !.names = names,
                !.target = target, !.phase = "received"]

(***************************************************************************)
(* Unless the operator or a swap stops it, the companion's context lives.  *)
(***************************************************************************)
Live == svc = "running"

Detection == [native : BOOLEAN, docker : BOOLEAN]
DetectionKind(d) == IF d.native THEN "native" ELSE IF d.docker THEN "docker" ELSE "none"

InitHost ==
  /\ platform \in Platform
  /\ deploy \in IF platform = "apt" THEN Detection      \* containers are Linux hosts'
               ELSE {[native |-> TRUE, docker |-> FALSE]}
  /\ pending \in SUBSET Package /\ reboot = FALSE
  /\ agent = "ready" /\ shown = pending
  /\ recheck = FALSE /\ checking = FALSE /\ seen = {} /\ missed = FALSE
  /\ swap = "none" /\ svc = "running" /\ job = NoJob /\ cause = "none"
  /\ tmp = NoFile /\ new = NoFile
  /\ exe = 1 /\ tag = 1
  /\ arrivals \in 0..MaxArrivals /\ faults = 0

-----------------------------------------------------------------------------
(* Apply: validation, the applier's commands, the recheck behind them.     *)

Go(phase) == job' = [job EXCEPT !.phase = phase]
Fail == job' = [job EXCEPT !.phase = "report", !.err = "error"]

(***************************************************************************)
(* POST /recheck fills the agent's channel, or finds it full; a cancelled  *)
(* context sends nothing.  Best effort: no error is seen.                  *)
(***************************************************************************)
triggerRecheck ==
  /\ recheck' = (recheck \/ (Live /\ agent # "down"))
  /\ missed' = (missed \/ ~Live)

TakeAction(type, component, names, target) ==
  /\ Live /\ job = NoJob
  /\ job' = Received(type, component, names, target)
  /\ UNCHANGED <<hostVars, agentVars, fileVars, envVars, swap, svc, cause>>

ApplyRecheck ==
  /\ job.type = "recheck" /\ job.phase = "received"
  /\ triggerRecheck
  /\ Go("report")
  /\ UNCHANGED <<hostVars, agent, shown, checking, seen, fileVars, envVars, swap, svc, cause>>

missingFromPending == job.names \ shown

(***************************************************************************)
(* The status is fetched once; what is no longer true of it when the       *)
(* commands run is not looked at again.                                    *)
(***************************************************************************)
Validate ==
  /\ job.type \in {"packages", "upgrade", "full_upgrade"} /\ job.phase = "received"
  /\ IF Live /\ agent = "ready" /\ (job.type = "packages" => missingFromPending = {})
     THEN job' = [job EXCEPT !.phase = "running",
                             !.cmds = Plan(platform, job.type, job.names)]
     ELSE Fail
  /\ UNCHANGED <<hostVars, agentVars, fileVars, envVars, swap, svc, cause>>

(***************************************************************************)
(* A command of a companion that is being stopped is killed.               *)
(***************************************************************************)
RunCommand ==
  /\ job.phase = "running" /\ job.cmds # << >>
  /\ \E o \in Outcomes(Head(job.cmds), pending, reboot) :
       /\ o.ok => Live
       /\ pending' = o.left /\ reboot' = o.reboot
       /\ job' = [job EXCEPT
            !.cmds = Rest(job.cmds, o.ok),
            !.err = IF o.ok \/ Head(job.cmds).failure = "note" THEN job.err
                    ELSE IF Head(job.cmds).failure = "gate" THEN "update_failed"
                    ELSE "error"]
  /\ UNCHANGED <<agentVars, fileVars, envVars, swap, svc, cause>>

(***************************************************************************)
(* Whatever ran may have changed the host, a failed command too; only the  *)
(* refresh of the package lists has not.                                   *)
(***************************************************************************)
(* Mutant of Applied: a recheck follows a success only.                    *)
AppliedRechecksSuccess ==
  /\ job.phase = "running" /\ job.cmds = << >>
  /\ IF job.err # "none" THEN UNCHANGED <<recheck, missed>> ELSE triggerRecheck
  /\ Go("report")
  /\ UNCHANGED <<hostVars, agent, shown, checking, seen, fileVars, envVars, swap, svc, cause>>

Applied ==
  /\ job.phase = "running" /\ job.cmds = << >>
  /\ IF job.err = "update_failed" THEN UNCHANGED <<recheck, missed>> ELSE triggerRecheck
  /\ Go("report")
  /\ UNCHANGED <<hostVars, agent, shown, checking, seen, fileVars, envVars, swap, svc, cause>>

-----------------------------------------------------------------------------
(* SelfUpdate.                                                             *)

(* Mutant of SelfUpdate: the download is written to .new itself.           *)
SelfUpdateInPlace ==
  /\ job.type = "selfupdate" /\ job.phase = "received"
  /\ job.component = "companion" /\ platform = "windows"
  /\ Go("download") /\ tmp' = Partial /\ new' = Partial
  /\ UNCHANGED <<hostVars, agentVars, exe, tag, envVars, swap, svc, cause>>

SelfUpdate ==
  /\ job.type = "selfupdate" /\ job.phase = "received"
  /\ \/ /\ job.component = "companion" /\ platform = "windows"
        /\ \/ Go("download") /\ tmp' = Partial
           \/ Fail /\ UNCHANGED tmp                \* no such release or asset
     \/ /\ job.component = "companion" /\ platform # "windows"
        /\ Go("install") /\ UNCHANGED tmp
     \/ /\ job.component = "agent" /\ UNCHANGED tmp
        /\ CASE DetectionKind(deploy) = "native" -> Go("install")
             [] DetectionKind(deploy) = "docker" -> Go("pull")
             [] OTHER -> Fail
  /\ UNCHANGED <<hostVars, agentVars, new, exe, tag, envVars, swap, svc, cause>>

(***************************************************************************)
(* stageCompanionUpdate: a failed copy removes the file, as a cancelled    *)
(* one does; what is complete becomes .new in one rename.                  *)
(***************************************************************************)
Download ==
  /\ job.phase = "download"
  /\ \/ /\ Live /\ Go("stage")
        /\ tmp' \in {job.target} \cup (IF EmptyBodies THEN {Empty} ELSE {})
     \/ Fail /\ tmp' = NoFile
  /\ UNCHANGED <<hostVars, agentVars, new, exe, tag, envVars, swap, svc, cause>>

Stage ==
  /\ job.phase = "stage"
  /\ tmp' = NoFile
  /\ \/ new' = tmp /\ job' = [job EXCEPT !.phase = "report", !.staged = TRUE]
     \/ Fail /\ UNCHANGED new
  /\ UNCHANGED <<hostVars, agentVars, exe, tag, envVars, swap, svc, cause>>

(***************************************************************************)
(* install.sh replaces the companion's binary and has the service manager  *)
(* restart it, which cancels the context and kills install.sh with it.     *)
(***************************************************************************)
InstallCompanion ==
  /\ job.component = "companion" /\ job.phase = "install"
  /\ \/ Live /\ exe' = job.target /\ Go("restart")
     \/ Fail /\ UNCHANGED exe
  /\ UNCHANGED <<hostVars, agentVars, tmp, new, tag, envVars, swap, svc, cause>>

RestartCompanion ==
  /\ job.phase = "restart"
  /\ IF Live THEN svc' = "restarting" ELSE UNCHANGED svc
  /\ Fail                                          \* "signal: terminated"
  /\ UNCHANGED <<hostVars, agentVars, fileVars, envVars, swap, cause>>

Put(version) == job' = [job EXCEPT !.phase = "report", !.put = version]

AgentExits(step) ==
  /\ agent' = step /\ shown' = {} /\ recheck' = FALSE /\ missed' = FALSE
  /\ checking' = (step = "starting") /\ seen' = (IF step = "starting" THEN pending ELSE {})
  /\ swap' = "none"
  /\ cause' = IF swap \in {"wait", "rename", "start"} THEN "agent" ELSE cause

(***************************************************************************)
(* installNative of the agent: install.sh is killed with the companion,    *)
(* install.bat is not; it stops the agent before it replaces the binary.   *)
(***************************************************************************)
InstallAgent ==
  /\ job.component = "agent" /\ job.phase = "install"
  /\ \/ Fail /\ UNCHANGED <<agentVars, swap, cause>>
     \/ platform # "windows" /\ Live /\ AgentExits("starting") /\ Put(job.target)
     \/ platform = "windows" /\ AgentExits("down") /\ Go("replace")
  /\ UNCHANGED <<hostVars, fileVars, envVars, svc>>

ReplaceAgent ==
  /\ job.phase = "replace"
  /\ AgentExits("starting") /\ Put(job.target)
  /\ UNCHANGED <<hostVars, fileVars, envVars, svc>>

(***************************************************************************)
(* updateDockerCompose: the target is pulled by name, the container's own  *)
(* tag is moved to it, and the service recreated from that tag.            *)
(***************************************************************************)
DockerPull ==
  /\ job.phase = "pull"
  /\ (Live /\ Go("tag")) \/ Fail
  /\ UNCHANGED <<hostVars, agentVars, fileVars, envVars, swap, svc, cause>>

(* Mutant of DockerTag: the container's tag is not moved to the target.    *)
DockerTagKept ==
  /\ job.phase = "tag"
  /\ (Live /\ Go("up")) \/ Fail
  /\ UNCHANGED <<hostVars, agentVars, fileVars, envVars, swap, svc, cause>>

(* Mutant of DockerTag: an image without a tag is not refused.             *)
DockerTagEmpty ==
  /\ job.phase = "tag" /\ Live /\ tag' = 0 /\ Go("up")
  /\ UNCHANGED <<hostVars, agentVars, tmp, new, exe, envVars, swap, svc, cause>>

DockerTag ==
  /\ job.phase = "tag"
  /\ \/ Live /\ tag' = job.target /\ Go("up")
     \/ Fail /\ UNCHANGED tag
  /\ UNCHANGED <<hostVars, agentVars, tmp, new, exe, envVars, swap, svc, cause>>

DockerUp ==
  /\ job.phase = "up"
  /\ \/ Live /\ AgentExits("starting") /\ Put(tag)
     \/ Fail /\ UNCHANGED <<agentVars, swap, cause>>
  /\ UNCHANGED <<hostVars, fileVars, envVars, svc>>

(***************************************************************************)
(* The result that is reported: a failed update of the companion counts as *)
(* a success when the companion is being stopped.                          *)
(***************************************************************************)
Success == job.err = "none" \/ (job.type = "selfupdate" /\ job.component = "companion" /\ ~Live)

Report ==
  /\ job.phase = "report"
  /\ job' = NoJob
  /\ swap' = IF job.staged /\ swap = "none" /\ agent # "down" THEN "stat" ELSE swap
  /\ UNCHANGED <<hostVars, agentVars, fileVars, envVars, svc, cause>>

-----------------------------------------------------------------------------
(* CompleteCompanionSwap, on the agent.                                    *)

SwapStat ==
  /\ swap = "stat"
  /\ swap' = IF new \in {NoFile, Empty} THEN "report" ELSE "stop"
  /\ new' = IF new = Empty THEN NoFile ELSE new
  /\ UNCHANGED <<hostVars, agentVars, tmp, exe, tag, envVars, svc, job, cause>>

SwapStop ==
  /\ swap = "stop"
  /\ \/ svc = "running" /\ svc' = "stopping" /\ swap' = "wait"
     \/ svc # "running" /\ swap' = "report" /\ UNCHANGED svc
  /\ UNCHANGED <<hostVars, agentVars, fileVars, envVars, job, cause>>

(***************************************************************************)
(* Thirty queries, a second apart: then the swap goes on either way.       *)
(***************************************************************************)
SwapWait ==
  /\ swap = "wait" /\ swap' = "rename"
  /\ UNCHANGED <<hostVars, agentVars, fileVars, envVars, svc, job, cause>>

(***************************************************************************)
(* A running binary cannot be replaced.  When the rename fails the service *)
(* is started again; that fails, unseen, while it still stops.             *)
(***************************************************************************)
(* Mutant of SwapRename: a failed rename leaves the service stopped.       *)
SwapRenameOnly ==
  /\ swap = "rename"
  /\ \/ /\ svc = "stopped" /\ new # NoFile
        /\ exe' = new /\ new' = NoFile /\ swap' = "start"
     \/ swap' = "report" /\ UNCHANGED <<exe, new>>
  /\ UNCHANGED <<hostVars, agentVars, tmp, tag, envVars, job, svc, cause>>

SwapRename ==
  /\ swap = "rename"
  /\ \/ /\ svc = "stopped" /\ new # NoFile
        /\ exe' = new /\ new' = NoFile /\ swap' = "start"
        /\ UNCHANGED <<svc, cause>>
     \/ /\ swap' = "report" /\ UNCHANGED <<exe, new>>
        /\ CASE svc = "stopped" -> svc' = "running" /\ cause' = "none"
             [] svc = "stopping" -> UNCHANGED svc /\ cause' = "locked"
             [] OTHER -> UNCHANGED <<svc, cause>>
  /\ UNCHANGED <<hostVars, agentVars, tmp, tag, envVars, job>>

SwapStart ==
  /\ swap = "start" /\ swap' = "report"
  /\ IF svc = "stopped"
     THEN \/ svc' = "running" /\ cause' = "none"
          \/ UNCHANGED svc /\ cause' = "start"
     ELSE UNCHANGED <<svc, cause>>
  /\ UNCHANGED <<hostVars, agentVars, fileVars, envVars, job>>

SwapReport ==
  /\ swap = "report" /\ swap' = "none"
  /\ UNCHANGED <<hostVars, agentVars, fileVars, envVars, svc, job, cause>>

-----------------------------------------------------------------------------
(* The agent's detection cycle.                                            *)

BeginCheck ==
  /\ agent # "down" /\ ~checking
  /\ checking' = TRUE /\ seen' = pending
  /\ recheck' = FALSE /\ missed' = FALSE
  /\ UNCHANGED <<hostVars, agent, shown, fileVars, envVars, swap, svc, job, cause>>

EndCheck ==
  /\ checking
  /\ checking' = FALSE /\ seen' = {} /\ shown' = seen /\ agent' = "ready"
  /\ UNCHANGED <<hostVars, recheck, missed, fileVars, envVars, swap, svc, job, cause>>

-----------------------------------------------------------------------------
(* The environment.                                                        *)

CompanionExits ==
  /\ job = NoJob
  /\ \/ svc = "stopping" /\ svc' = "stopped"
     \/ svc = "restarting" /\ svc' = "running"
  /\ UNCHANGED <<hostVars, agentVars, fileVars, envVars, swap, job, cause>>

Arrive(p) ==
  /\ arrivals < MaxArrivals /\ p \notin pending
  /\ pending' = pending \cup {p} /\ arrivals' = arrivals + 1
  /\ UNCHANGED <<reboot, agentVars, fileVars, platform, deploy, faults, swap, svc, job, cause>>

Fault == faults < MaxFaults /\ faults' = faults + 1 /\ UNCHANGED <<platform, deploy, arrivals>>

OperatorStops ==
  /\ Fault /\ Live /\ svc' = "stopping" /\ cause' = "operator"
  /\ UNCHANGED <<hostVars, agentVars, fileVars, swap, job>>

OperatorStarts ==
  /\ svc = "stopped" /\ cause # "none" /\ svc' = "running" /\ cause' = "none"
  /\ UNCHANGED <<hostVars, agentVars, fileVars, envVars, swap, job>>

AgentCrashes ==
  /\ Fault /\ agent # "down" /\ AgentExits("down")
  /\ UNCHANGED <<hostVars, fileVars, svc, job>>

AgentStarts ==
  /\ agent = "down" /\ job.phase # "replace" /\ AgentExits("starting")
  /\ UNCHANGED <<hostVars, fileVars, envVars, svc, job>>

(***************************************************************************)
(* Both services start with the host; a download in progress stays behind. *)
(***************************************************************************)
Reboot ==
  /\ Fault
  /\ reboot' = FALSE /\ UNCHANGED pending
  /\ agent' = "starting" /\ shown' = {} /\ recheck' = FALSE /\ missed' = FALSE
  /\ checking' = TRUE /\ seen' = pending
  /\ swap' = "none" /\ svc' = "running" /\ job' = NoJob /\ cause' = "none"
  /\ UNCHANGED fileVars

HostNext ==
  \/ TakeAction("recheck", "none", {}, 1)
  \/ \E names \in SUBSET Package \ {{}} : TakeAction("packages", "none", names, 1)
  \/ \E type \in {"upgrade", "full_upgrade"} : TakeAction(type, "none", {}, 1)
  \/ \E component \in {"agent", "companion"}, v \in Version :
       TakeAction("selfupdate", component, {}, v)
  \/ ApplyRecheck \/ Validate \/ RunCommand \/ Applied
  \/ SelfUpdate \/ Download \/ Stage \/ InstallCompanion \/ RestartCompanion
  \/ InstallAgent \/ ReplaceAgent \/ DockerPull \/ DockerTag \/ DockerUp \/ Report
  \/ SwapStat \/ SwapStop \/ SwapWait \/ SwapRename \/ SwapStart \/ SwapReport
  \/ BeginCheck \/ EndCheck
  \/ CompanionExits \/ (\E p \in Package : Arrive(p))
  \/ OperatorStops \/ OperatorStarts \/ AgentCrashes \/ AgentStarts \/ Reboot

HostSpec == InitHost /\ [][HostNext]_companionVars

-----------------------------------------------------------------------------
HostTypeOK ==
  /\ platform \in Platform /\ deploy \in Detection
  /\ pending \in SUBSET Package /\ reboot \in BOOLEAN
  /\ agent \in {"down", "starting", "ready"} /\ shown \in SUBSET Package
  /\ recheck \in BOOLEAN /\ checking \in BOOLEAN /\ seen \in SUBSET Package
  /\ missed \in BOOLEAN /\ cause \in {"none", "agent", "locked", "start", "operator"}
  /\ swap \in Steps /\ svc \in {"running", "stopping", "restarting", "stopped"}
  /\ job.phase \in Phases /\ job.err \in Errors /\ job.names \in SUBSET Package
  /\ tmp \in File /\ new \in File /\ exe \in File
  /\ tag \in Version
  /\ arrivals \in 0..MaxArrivals /\ faults \in 0..MaxFaults

(* What an apply has installed leaves the agent's status soon: while the   *)
(* status still calls it pending, the action is not over, a cycle runs or  *)
(* a recheck waits behind it, or the recheck could not be sent because the *)
(* companion was being stopped.  (Apply, triggerRecheck, handleRecheck)    *)
StaleStatusHasRecheck ==
  agent = "ready" /\ shown \ pending # {} =>
    job # NoJob \/ recheck \/ checking \/ missed

(* The companion's binary is a whole release, and what the agent checked   *)
(* before it stops the companion is still whole when it renames it: no     *)
(* download, cancelled, failed or repeated, gets in between.               *)
BinaryIsWhole ==
  exe \in Version /\ (swap \in {"stop", "wait", "rename"} => new \in Version)

(* A companion that is down is down because a swap is under way, the agent *)
(* died in one, the service did not stop or start for it, or an operator   *)
(* stopped it: a swap that fails for another reason leaves it running.     *)
CompanionDownHasCause ==
  svc = "stopped" => cause # "none" \/ swap \in {"wait", "rename", "start"}

Installed == CASE job.component = "agent" -> job.put = job.target
               [] job.component = "companion" /\ job.staged -> new = job.target
               [] OTHER -> exe = job.target

(* A self-update reported as a success has put the target version in       *)
(* place, unless the companion was stopped by something other than its own *)
(* update meanwhile; the image tag a service is recreated from included.   *)
SuccessIsInstalled ==
  job.type = "selfupdate" /\ job.phase = "report" /\ Success =>
    Installed \/ svc \in {"stopping", "stopped"}
=============================================================================
