------------------------------- MODULE Checkers -------------------------------
\* The detection of what a host needs, per platform (internal/checker): a Check
\* asks one or two tools for the updates, then whether a reboot is due, then for
\* the release of the OS.  A part that fails adds an error and falls back on the
\* previous status; on Windows two tools share the packages part, and what one
\* of them answers stands even when the other failed.
EXTENDS Integers, Sequences, FiniteSets

CONSTANTS Builds,       \* subset of {"linux", "darwin", "windows"}
          HostIDs,      \* linux: IDs an os-release may hold, "" when unreadable
          Updates,      \* updates that may become available
          Kernel,       \* the update that asks for a reboot once installed
          SecurityOnes, \* those of a security origin (or with a severity)
          FromWinget,   \* windows: those only winget knows
          Unlisted,     \* rows the parsers skip: new, pinned or without a candidate
          Releases,     \* releases that may be published, see versionGreater
          Current,      \* the version number of the host's release
          Prompts,      \* ubuntu: what the release-upgrades file may hold
          MaxWorld,     \* bound: changes of the host between or during checks
          MaxFaults     \* bound: parts of checks that fail

ASSUME CheckersAssumption ==
    /\ Builds \subseteq {"linux", "darwin", "windows"}
    /\ Kernel \in SecurityOnes \ (FromWinget \cup Unlisted)
    /\ SecurityOnes \cup FromWinget \cup Unlisted \subseteq Updates
    /\ {Current} \cup {r.number : r \in Releases} \subseteq {<<>>} \cup (Int \X Int)
    /\ MaxWorld \in Nat /\ MaxFaults \in Nat

VARIABLES flavor,       \* the registered checker in use
          prompt,       \* ubuntu: the Prompt line of the release-upgrades file
          winget,       \* windows: winget is registered for this account
          pending,      \* host: updates available now
          reboot,       \* host: the signals that say a reboot is due
          releases,     \* the entries of changelogs.ubuntu.com, or macOS's offer
          check,        \* the Check under way
          report,       \* the last status, <<>> before the first
          world, checkFaults

hostVars == <<pending, reboot, releases>>
checkersVars == <<flavor, prompt, winget, hostVars, check, report, world, checkFaults>>

Resting == [pc |-> "rest"]
NoPackages == [total |-> 0, security |-> 0, upgrades |-> {}]
NoOS == [current |-> FALSE, available |-> FALSE, latest |-> <<>>]

\* The checker a build registers for the host it runs on.
Detect(build, id) ==
    CASE build = "darwin" -> "macos"
      [] build = "windows" -> "windows"
      [] id \in {"debian", "raspbian"} -> "debian"
      [] OTHER -> "ubuntu"

\* The parsers, from the updates a tool prints to the result they build.
packageResult(rows, security) ==
    [total |-> Cardinality(rows), security |-> Cardinality(rows \cap security),
     upgrades |-> rows]

parseAptCheckCounts(rows) ==            \* ubuntu: "total;security", and no names
    [packageResult(rows, SecurityOnes) EXCEPT !.upgrades = {}]
parseUpgradableList(rows) == rows
parseDistUpgrade(rows) ==               \* debian: not the new installs
    packageResult(rows \ Unlisted, SecurityOnes)
parseBrewOutdated(rows) ==              \* macos: not the pinned ones
    packageResult(rows \ Unlisted, {})
parseWindowsUpdateJSON(rows) == packageResult(rows, SecurityOnes)
parseWingetUpgrade(rows) ==             \* not those without an available version
    packageResult(rows \ Unlisted, {})

MergeLast(a, b) == b                    \* mutant: the second tool replaces the first

\* What both tools of windows answered.
Merge(a, b) == [total |-> a.total + b.total, security |-> a.security + b.security,
                upgrades |-> a.upgrades \cup b.upgrades]

ComputeOK(required, packages, os) ==
    ~ required /\ packages.security = 0 /\ ~ os.available

\* A release is [number, supported, lts]; a number is <<major, minor>>, or <<>>
\* where versionNumber finds none.
versionGreater(a, b) ==
    /\ a # <<>> /\ b # <<>>
    /\ a[1] > b[1] \/ (a[1] = b[1] /\ a[2] > b[2])

\* The list a prompt asks for: none for "never", the LTS ones by default.
parsePrompt(line) == IF line = "none" THEN "lts" ELSE line
metaReleaseURL(line) ==
    CASE parsePrompt(line) = "never" -> {}
      [] parsePrompt(line) = "normal" -> {"all"}
      [] OTHER -> {"lts"}
fetchMetaRelease(url) == {r \in releases : url = "all" \/ r.lts}

\* The highest supported number above the host's, if any.
latestSupportedUpgrade(entries) ==
    LET above == {r \in entries : r.supported /\ versionGreater(r.number, Current)}
    IN  {r.number : r \in {x \in above :
            \A y \in above : ~ versionGreater(y.number, x.number)}}

\* The files that windows renames at its next start: some always, and no sign.
Routine == {"gamingservicesproxy", "edgetemp"}
anyRealPendingRename(entries) == entries \ Routine # {}

\* The signals of a platform: the reboot-required file, or one of three keys.
Signals == CASE flavor = "windows" -> {"servicing", "update", "rename"}
             [] flavor = "macos" -> {}
             [] OTHER -> {"file"}

checkRebootRequired ==
    \/ reboot \cap {"servicing", "update"} # {}
    \/ anyRealPendingRename(Routine \cup (reboot \cap {"rename"}))

InitCheckers ==
    /\ flavor \in {Detect(b, i) : b \in Builds, i \in HostIDs}
    /\ prompt \in IF flavor = "ubuntu" THEN Prompts ELSE {"none"}
    /\ winget \in IF flavor = "windows" THEN BOOLEAN ELSE {FALSE}
    /\ pending = {} /\ releases = {}
    /\ reboot \in {{}} \cup {{s} : s \in Signals}
    /\ check = Resting /\ report = <<>>
    /\ world = 0 /\ checkFaults = 0

\* The host changes: an update is published, or somebody installs one and, if
\* it is the kernel, a signal says so (debian's file is best effort) until the
\* host restarts, between two checks since the agent runs on it.
Changes == world < MaxWorld /\ world' = world + 1

UpdateAppears(u) ==
    /\ Changes
    /\ u \notin pending /\ pending' = pending \cup {u}
    /\ UNCHANGED <<flavor, prompt, winget, reboot, releases, check, report, checkFaults>>

UpdateInstalled(u) ==
    /\ Changes
    /\ u \in pending /\ pending' = pending \ {u}
    /\ \/ /\ u = Kernel
          /\ \E s \in Signals : reboot' = reboot \cup {s}
       \/ /\ u # Kernel \/ flavor \in {"debian", "macos"}
          /\ UNCHANGED reboot
    /\ check' = IF check = Resting THEN check ELSE [check EXCEPT !.index = @ \ {u}]
    /\ UNCHANGED <<flavor, prompt, winget, releases, report, checkFaults>>

HostRestarts ==
    /\ Changes
    /\ check = Resting /\ reboot # {} /\ reboot' = {}
    /\ UNCHANGED <<flavor, prompt, winget, pending, releases, check, report, checkFaults>>

ReleaseAppears(r) ==
    /\ Changes
    /\ r \notin releases /\ releases' = releases \cup {r}
    /\ UNCHANGED <<flavor, prompt, winget, pending, reboot, check, report, checkFaults>>

\* Whether a part of the check fails, within the bound.
Fails == checkFaults < MaxFaults /\ checkFaults' = checkFaults + 1
Works == UNCHANGED checkFaults

Surroundings == <<flavor, prompt, winget, hostVars, world>>
Previous(field, none) == IF report = <<>> THEN none ELSE report[1][field]

\* The release upgrade on offer, as far as this host is told of it.
Offer == CASE flavor = "ubuntu" ->
                  \E url \in metaReleaseURL(prompt) :
                      latestSupportedUpgrade(fetchMetaRelease(url)) # {}
           [] flavor = "macos" -> releases # {}
           [] OTHER -> FALSE

\* The packages part.  `index` is the package index of the check, less what was
\* installed since; `due` and `offered` record, for the property below, whether
\* the kernel or a restart, and a release, awaited the check when it began.
Start(pc, packages, errors) ==
    /\ check = Resting
    /\ check' = [pc |-> pc, packages |-> packages, required |-> FALSE, errors |-> errors,
                 index |-> pending, due |-> Kernel \in pending \/ reboot # {},
                 offered |-> Offer]
    /\ UNCHANGED <<Surroundings, report>>

To(pc, packages, errors) ==
    /\ check' = [check EXCEPT !.pc = pc, !.packages = packages, !.errors = @ \cup errors]
    /\ UNCHANGED <<Surroundings, report>>

PackagesFail(pc) == Fails /\ To(pc, Previous("packages", NoPackages), {"packages"})

\* ubuntu and debian: apt-get update.  A failure here or below ends the part.
AptUpdate ==
    /\ flavor \in {"ubuntu", "debian"}
    /\ \/ Works /\ Start("packages", NoPackages, {})
       \/ Fails /\ Start("reboot", Previous("packages", NoPackages), {"packages"})

\* ubuntu: apt-check for the counts, then apt list for the names.
aptCheckCounts ==
    /\ flavor = "ubuntu" /\ check.pc = "packages"
    /\ \/ Works /\ To("list", parseAptCheckCounts(check.index), {})
       \/ PackagesFail("reboot")

aptListUpgradable ==
    /\ check.pc = "list"
    /\ \/ Works /\ To("reboot", [check.packages EXCEPT
                                     !.upgrades = parseUpgradableList(check.index)], {})
       \/ PackagesFail("reboot")

\* debian: the simulated dist-upgrade.
simulateDistUpgrade ==
    /\ flavor = "debian" /\ check.pc = "packages"
    /\ \/ Works /\ To("reboot", parseDistUpgrade(check.index), {})
       \/ PackagesFail("reboot")

\* macos: brew update and brew outdated; no reboot part.
checkOutdated ==
    /\ flavor = "macos"
    /\ \/ Works /\ Start("os", parseBrewOutdated(pending), {})
       \/ Fails /\ Start("os", Previous("packages", NoPackages), {"packages"})

\* windows: Windows Update, then winget, which is no error when it is not there;
\* the previous packages stand only if neither answered.
checkWindowsUpdates ==
    /\ flavor = "windows"
    /\ \/ Works /\ Start("winget", parseWindowsUpdateJSON(pending \ FromWinget), {})
       \/ Fails /\ Start("winget", NoPackages, {"packages"})

checkUpgradable ==
    /\ check.pc = "winget"
    /\ LET wuFailed == check.errors # {}
           rest == IF wuFailed THEN Previous("packages", NoPackages) ELSE check.packages
       IN  \/ /\ winget /\ Works
              /\ To("reboot", Merge(check.packages,
                                    parseWingetUpgrade(pending \cap FromWinget)), {})
           \/ winget /\ Fails /\ To("reboot", rest, {"packages"})
           \/ ~ winget /\ Works /\ To("reboot", rest, {})

\* The reboot part: a file on the apt platforms (whose .pkgs file may fail to
\* read though it is there), keys that cannot fail on windows.
RebootPart(required, errors) ==
    /\ check' = [check EXCEPT !.pc = "os", !.required = required,
                             !.errors = @ \cup errors]
    /\ UNCHANGED <<Surroundings, report>>

rebootCheck ==
    /\ flavor \in {"ubuntu", "debian"} /\ check.pc = "reboot"
    /\ \/ Works /\ RebootPart("file" \in reboot, {})
       \/ Fails /\ RebootPart(Previous("required", FALSE), {"reboot"})

rebootKeys ==
    /\ flavor = "windows" /\ check.pc = "reboot"
    /\ Works /\ RebootPart(checkRebootRequired, {})

\* The OS part, and the status the check returns.
Return(os, errors) ==
    /\ report' = <<[packages |-> check.packages, required |-> check.required, os |-> os,
                    errors |-> check.errors \cup errors,
                    ok |-> ComputeOK(check.required, check.packages, os)]>>
    /\ check' = Resting
    /\ UNCHANGED Surroundings

\* ubuntu: the list of releases.  A failure keeps the version it could read, which
\* "never" fails without, and the previous answer.
checkOSRelease ==
    /\ flavor = "ubuntu" /\ check.pc = "os"
    /\ \/ /\ Works
          /\ LET found == UNION {latestSupportedUpgrade(fetchMetaRelease(url)) :
                                    url \in metaReleaseURL(prompt)}
             IN  IF found = {} THEN Return([NoOS EXCEPT !.current = TRUE], {})
                 ELSE \E latest \in found :
                        Return([current |-> TRUE, available |-> TRUE, latest |-> latest], {})
       \/ /\ Fails
          /\ \E read \in {FALSE} \cup {metaReleaseURL(prompt) # {}} :
               Return([Previous("os", NoOS) EXCEPT !.current = @ \/ read], {"os"})

\* macos: sw_vers and softwareupdate, all or nothing.
macReadOSInfo ==
    /\ flavor = "macos" /\ check.pc = "os"
    /\ \/ /\ Works
          /\ Return([current |-> TRUE, available |-> releases # {}, latest |-> <<>>], {})
       \/ Fails /\ Return(Previous("os", NoOS), {"os"})

\* debian and windows: the version alone.
readOSInfo ==
    /\ flavor \in {"debian", "windows"} /\ check.pc = "os"
    /\ \/ Works /\ Return([NoOS EXCEPT !.current = TRUE], {})
       \/ Fails /\ Return(Previous("os", NoOS), {"os"})

CheckStep ==
    \/ AptUpdate \/ aptCheckCounts \/ aptListUpgradable \/ simulateDistUpgrade
    \/ checkOutdated \/ checkWindowsUpdates \/ checkUpgradable
    \/ rebootCheck \/ rebootKeys \/ checkOSRelease \/ macReadOSInfo \/ readOSInfo

CheckersNext ==
    \/ \E u \in Updates : UpdateAppears(u) \/ UpdateInstalled(u)
    \/ \E r \in Releases : ReleaseAppears(r)
    \/ HostRestarts \/ CheckStep

CheckersSpec == InitCheckers /\ [][CheckersNext]_checkersVars

\* HiddenNeedHasError: what a host needs is not lost between the parts of a check
\* (Check of the four platforms).  An update that the previous status listed, and
\* that stayed available during the check, is in the new status or its packages
\* part failed.  While the kernel, from the check's start, is either available or
\* awaits a restart, though it may be installed between the two parts that look,
\* no status without an error says OK (where the restart is reliably signalled).
\* A release upgrade on offer is reported or the OS part failed.
HiddenNeedHasError ==
    [][ (check # Resting /\ check' = Resting) =>
          LET new == report'[1] IN
          /\ \/ report = <<>> \/ "packages" \in new.errors
             \/ report[1].packages.upgrades \cap check.index \subseteq new.packages.upgrades
          /\ \/ ~ check.due \/ flavor \in {"debian", "macos"}
             \/ ~ new.ok \/ new.errors # {}
          /\ ~ check.offered \/ new.os.available \/ "os" \in new.errors ]_checkersVars
=============================================================================
