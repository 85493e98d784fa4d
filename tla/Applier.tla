------------------------------ MODULE Applier ------------------------------
(***************************************************************************)
(* The four appliers of internal/companion.  An action becomes a plan: the *)
(* commands its applier runs, in order, each with the upgrades it asks for *)
(* and what its failure means for the commands behind it and for the       *)
(* applier's own error.                                                    *)
(***************************************************************************)
EXTENDS Naturals, Sequences, FiniteSets

CONSTANTS
  KBs,      \* names with a "(KBnnn)" or "{updateid}" marker on Windows
  Others,   \* every other name: winget's on Windows, apt's or brew's elsewhere
  Greedy    \* what only dist-upgrade and brew upgrade --greedy take

ASSUME NamesAssumption == KBs \cap Others = {} /\ Greedy \subseteq KBs \cup Others

Package == KBs \cup Others
Platform == {"apt", "brew", "windows"}

(***************************************************************************)
(* The first failure of a "gate" is ErrUpdateFailed and nothing else runs, *)
(* of a "main" the applier's error and nothing else runs; an "error" is    *)
(* the applier's error and the plan goes on, a "note" only a line of the   *)
(* output.                                                                 *)
(***************************************************************************)
Failure == {"gate", "main", "error", "note"}
Command == [tool : {"update", "upgrade", "autoremove", "wu", "winget"},
            names : SUBSET Package, failure : Failure]
Run(tool, names, failure) == [tool |-> tool, names |-> names, failure |-> failure]

aptPlan(names) == << Run("update", {}, "gate"), Run("upgrade", names, "main"),
                     Run("autoremove", {}, "note") >>

brewPlan(names) == << Run("update", {}, "gate"), Run("upgrade", names, "main") >>

(***************************************************************************)
(* A failure of winget is the error only when winget's names are the whole *)
(* request.                                                                *)
(***************************************************************************)
windowsPackages(names) ==
  LET wu == names \cap KBs
      winget == names \cap Others
  IN (IF wu = {} THEN << >> ELSE << Run("wu", wu, "error") >>)
       \o (IF winget = {} THEN << >>
           ELSE << Run("winget", winget, IF wu = {} THEN "main" ELSE "note") >>)

windowsUpgrade == << Run("wu", KBs, "error"), Run("winget", Others, "note") >>

(***************************************************************************)
(* What an upgrade without names asks for: everything, or everything but   *)
(* what is kept back.                                                      *)
(***************************************************************************)
Sweep(type) == IF type = "full_upgrade" THEN Package ELSE Package \ Greedy

Plan(platform, type, names) ==
  LET asked == IF type = "packages" THEN names ELSE Sweep(type)
  IN CASE platform = "apt" -> aptPlan(asked)
       [] platform = "brew" -> brewPlan(asked)
       [] platform = "windows" /\ type = "packages" -> windowsPackages(names)
       [] platform = "windows" /\ type # "packages" -> windowsUpgrade

(***************************************************************************)
(* What is left after a command: [left, reboot, ok] for each way it can    *)
(* end.  A failed command may have applied a part.  Windows Update refuses *)
(* while a reboot is due, may ask for one, and counts a batch as a success *)
(* although some of it failed.                                             *)
(***************************************************************************)
Outcome(left, reboot, ok) == [left |-> left, reboot |-> reboot, ok |-> ok]
Between(low, high) == {low \cup extra : extra \in SUBSET (high \ low)}

runWindowsUpdateInstall(names, pending, reboot) ==
  IF reboot THEN {Outcome(pending, reboot, FALSE)}
  ELSE {Outcome(left, due, ok) : left \in Between(pending \ names, pending),
                                 due \in BOOLEAN, ok \in BOOLEAN}

(***************************************************************************)
(* A package manager that reports success has applied what it was asked    *)
(* for.                                                                    *)
(***************************************************************************)
runManager(names, pending, reboot) ==
  {Outcome(pending \ names, reboot, TRUE)}
    \cup {Outcome(left, reboot, FALSE) : left \in Between(pending \ names, pending)}

Outcomes(cmd, pending, reboot) ==
  IF cmd.tool = "wu" THEN runWindowsUpdateInstall(cmd.names, pending, reboot)
  ELSE runManager(cmd.names, pending, reboot)

(***************************************************************************)
(* The plan behind a command, given how the command ended.                 *)
(***************************************************************************)
Rest(cmds, ok) ==
  IF ~ok /\ Head(cmds).failure \in {"gate", "main"} THEN << >> ELSE Tail(cmds)
=============================================================================
