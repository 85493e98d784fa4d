------------------------------ MODULE AgentLoop ------------------------------
(***************************************************************************)
(* The agent process: its main loop, the detection cycle runCheck with the *)
(* state file it leaves behind, the rechecks asked of it over HTTP and     *)
(* over the aggregator's stream, and crashes at any point.                 *)
(*                                                                         *)
(* A status is the number of the check that made it, in the order of their *)
(* CheckedAt; 0 is no status.  Of its content only the count of pending    *)
(* updates matters, which state.Diff compares; the other fields of a       *)
(* status are compared in the same way.                                    *)
(***************************************************************************)
EXTENDS Naturals

CONSTANTS
    MaxChecks,   \* bound on completed checks
    MaxPending   \* bound on the updates pending on the host

ASSUME AgentAssumption == MaxChecks \in Nat /\ MaxPending \in Nat

VARIABLES
    host,      \* the updates really pending on the host
    checks,    \* how many checks have completed
    counts,    \* counts[s]: the updates pending according to status s
    loop,      \* the main loop: "down", "enrol", "check", "idle"
    pushed,    \* the stream's goroutine wants, or runs, a cycle
    slot,      \* the buffered channel srv.recheck holds a request
    owner,     \* who holds checkMu: "none", "loop" or "stream"
    pc,        \* where the owner is in runCheck
    st,        \* its status
    previous,  \* the variable shared by all cycles
    disk,      \* the state file
    unseen,    \* history: a recheck was asked for, no check begun since
    told       \* history: the highest count announced since the last save

loopVars == <<host, checks, counts, loop, pushed, slot, owner, pc, st,
          previous, disk, unseen, told>>

Checked == 0..MaxChecks

InitLoop ==
    /\ host = 0 /\ checks = 0
    /\ counts = [s \in 1..MaxChecks |-> 0]
    /\ loop = "down" /\ pushed = FALSE /\ slot = FALSE
    /\ owner = "none" /\ pc = "idle" /\ st = 0
    /\ previous = 0 /\ disk = 0
    /\ unseen = FALSE /\ told = 0

\* Diff reports what is new since p, and nothing when there is no p.
CountRises(p, s) == p # 0 /\ counts[s] > counts[p]

-----------------------------------------------------------------------------
(* The environment                                                         *)

HostChanges(n) ==
    /\ n # host
    /\ host' = n
    /\ UNCHANGED <<checks, counts, loop, pushed, slot, owner, pc, st, previous,
                   disk, unseen, told>>

\* The process dies; what it had in memory is gone.
Crash ==
    /\ loop # "down"
    /\ loop' = "down" /\ pushed' = FALSE /\ slot' = FALSE
    /\ owner' = "none" /\ pc' = "idle" /\ st' = 0 /\ previous' = 0
    /\ unseen' = FALSE
    /\ UNCHANGED <<host, checks, counts, disk, told>>

-----------------------------------------------------------------------------
(* Start, and requests for a recheck                                       *)

BootForgetful ==                    \* mutant: the state file is not read
    /\ loop = "down"
    /\ loop' = "enrol"
    /\ UNCHANGED <<host, checks, counts, pushed, slot, owner, pc, st, previous,
                   disk, unseen, told>>

\* The process starts and reads its last status, which Save never leaves half
\* written; a file that the system cannot read back is left out.
Boot ==
    /\ loop = "down"
    /\ loop' = "enrol"
    /\ previous' = disk
    /\ UNCHANGED <<host, checks, counts, pushed, slot, owner, pc, st, disk,
                   unseen, told>>

\* One attempt to enrol, whatever comes of it; then the first check.
EnrolOnce ==
    /\ loop = "enrol"
    /\ loop' = "check"
    /\ UNCHANGED <<host, checks, counts, pushed, slot, owner, pc, st, previous,
                   disk, unseen, told>>

TriggerIfIdle ==                    \* mutant: no request is queued behind a check
    /\ loop # "down"
    /\ slot' = (slot \/ owner = "none")
    /\ unseen' = TRUE
    /\ UNCHANGED <<host, checks, counts, loop, pushed, owner, pc, st, previous,
                   disk, told>>

\* A request finds the one slot free, or joins the request that is in it.
TriggerRecheck ==
    /\ loop # "down"
    /\ slot' = TRUE
    /\ unseen' = TRUE
    /\ UNCHANGED <<host, checks, counts, loop, pushed, owner, pc, st, previous,
                   disk, told>>

\* The stream's goroutine runs one action at a time.
PushedRecheck ==
    /\ loop # "down" /\ ~pushed
    /\ pushed' = TRUE
    /\ unseen' = TRUE
    /\ UNCHANGED <<host, checks, counts, loop, slot, owner, pc, st, previous,
                   disk, told>>

\* The loop's select: the ticker, or a request.
Tick ==
    /\ loop = "idle"
    /\ loop' = "check"
    /\ UNCHANGED <<host, checks, counts, pushed, slot, owner, pc, st, previous,
                   disk, unseen, told>>

TakeRecheck ==
    /\ loop = "idle" /\ slot
    /\ loop' = "check" /\ slot' = FALSE
    /\ UNCHANGED <<host, checks, counts, pushed, owner, pc, st, previous, disk,
                   unseen, told>>

-----------------------------------------------------------------------------
(* runCheck, by whoever holds checkMu                                      *)

\* The loop and the stream's goroutine contend for the mutex.
Wants(r) == IF r = "loop" THEN loop = "check" ELSE pushed

Lock(r) ==
    /\ owner = "none" /\ Wants(r)
    /\ owner' = r /\ pc' = "check"
    /\ unseen' = FALSE
    /\ UNCHANGED <<host, checks, counts, loop, pushed, slot, st, previous, disk, told>>

\* The mutex is released and the caller goes on.
Unlock ==
    /\ owner' = "none" /\ pc' = "idle" /\ st' = 0
    /\ loop' = IF owner = "loop" THEN "idle" ELSE loop
    /\ pushed' = IF owner = "stream" THEN FALSE ELSE pushed

\* The checker fails as a whole, as it does after its five minutes.
CheckFails ==
    /\ pc = "check"
    /\ Unlock
    /\ UNCHANGED <<host, checks, counts, slot, previous, disk, unseen, told>>

CheckDoubled ==                     \* mutant: what failed is counted twice
    /\ pc = "check" /\ checks < MaxChecks
    /\ checks' = checks + 1
    /\ st' = checks'
    /\ \E n \in {host, IF previous = 0 THEN host ELSE host + counts[previous]} :
          counts' = [counts EXCEPT ![st'] = n]
    /\ pc' = "notify"
    /\ UNCHANGED <<host, loop, pushed, slot, owner, previous, disk, unseen, told>>

\* Or it has a status; the parts it could not find out are those of before.
CheckDone ==
    /\ pc = "check" /\ checks < MaxChecks
    /\ checks' = checks + 1
    /\ st' = checks'
    /\ \E n \in {host, IF previous = 0 THEN 0 ELSE counts[previous]} :
          counts' = [counts EXCEPT ![st'] = n]
    /\ pc' = "notify"
    /\ UNCHANGED <<host, loop, pushed, slot, owner, previous, disk, unseen, told>>

\* The changes since the previous status are sent before anything is saved;
\* whether the messages arrive is the notifiers' matter.
Notify ==
    /\ pc = "notify"
    /\ pc' = "save"
    /\ told' = IF CountRises(previous, st) /\ counts[st] > told THEN counts[st] ELSE told
    /\ UNCHANGED <<host, checks, counts, loop, pushed, slot, owner, st, previous,
                   disk, unseen>>

\* The file is replaced as a whole or, when that fails, left as it was.
Save ==
    /\ pc = "save"
    /\ pc' = "report"
    /\ disk' = st
    /\ told' = 0
    /\ UNCHANGED <<host, checks, counts, loop, pushed, slot, owner, st, previous, unseen>>

SaveFails ==
    /\ pc = "save"
    /\ pc' = "report"
    /\ UNCHANGED <<host, checks, counts, loop, pushed, slot, owner, st, previous,
                   disk, unseen, told>>

SendReport ==
    /\ pc = "report"
    /\ pc' = "wait"
    /\ UNCHANGED <<host, checks, counts, loop, pushed, slot, owner, st, previous,
                   disk, unseen, told>>

\* The report is answered, or the fifteen seconds are over.
Finish ==
    /\ pc = "wait"
    /\ previous' = st
    /\ Unlock
    /\ UNCHANGED <<host, checks, counts, slot, disk, unseen, told>>

-----------------------------------------------------------------------------
LoopNext ==
    \/ \E n \in 0..MaxPending : HostChanges(n)
    \/ \E r \in {"loop", "stream"} : Lock(r)
    \/ Crash \/ Boot \/ EnrolOnce \/ TriggerRecheck \/ PushedRecheck \/ Tick \/ TakeRecheck
    \/ CheckFails \/ CheckDone \/ Notify \/ Save \/ SaveFails \/ SendReport \/ Finish

LoopSpec == InitLoop /\ [][LoopNext]_loopVars

-----------------------------------------------------------------------------
(* Properties                                                              *)

\* The type of every variable.
LoopTypeOK ==
    /\ host \in 0..MaxPending /\ checks \in Checked
    /\ counts \in [1..MaxChecks -> 0..MaxPending]
    /\ loop \in {"down", "enrol", "check", "idle"}
    /\ {pushed, slot, unseen} \subseteq BOOLEAN
    /\ owner \in {"none", "loop", "stream"}
    /\ pc \in {"idle", "check", "notify", "save", "report", "wait"}
    /\ {st, previous, disk} \subseteq Checked
    /\ told \in 0..MaxPending

\* From one state file to the next the count of pending updates never rises
\* unless a message about it was sent, however often the agent dies and
\* however many saves fail in between: a rise is at worst announced again.
RiseIsAnnounced ==
    [][disk' # disk /\ CountRises(disk, disk') => told >= counts[disk']]_loopVars

\* A recheck asked for while another check runs is not answered by that
\* check: as long as none has begun since the request, one is still to come.
RecheckIsComing ==
    unseen => \/ slot
              \/ loop = "check" /\ owner # "loop"
              \/ pushed /\ owner # "stream"
=============================================================================
