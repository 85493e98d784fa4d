--------------------------- MODULE CheckersProofs ---------------------------
(***************************************************************************)
(* What a check of a host loses on its way: nothing the host needs, for    *)
(* every platform, any updates and releases, and any changes of the host   *)
(* and failures of the check's parts.                                      *)
(*                                                                         *)
(* A check is a row of parts, and the host changes between them, so the    *)
(* invariant says of every part what the ones behind it have secured: what *)
(* stays available is listed (ListSoFar), a kernel that is installed in    *)
(* between is counted or awaits its restart (KernelSoFar), and a release   *)
(* on offer stays one (OfferSoFar).                                        *)
(***************************************************************************)
EXTENDS Checkers, FiniteSetTheorems, TLAPS

Flavors == {"ubuntu", "debian", "macos", "windows"}
CheckPcs == {"packages", "list", "winget", "reboot", "os"}

\* The updates the parsers of a platform let through.
Listed == CASE flavor \in {"debian", "macos"} -> Updates \ Unlisted
            [] flavor = "windows" ->
                 Updates \ (IF winget THEN FromWinget \cap Unlisted ELSE FromWinget)
            [] OTHER -> Updates

\* A list as a status holds it: its counts are numbers, and it has no update that the
\* platform's parsers skip.
IsList(p) ==
    /\ p = [total |-> p.total, security |-> p.security, upgrades |-> p.upgrades]
    /\ p.total \in Nat /\ p.security \in Nat /\ p.upgrades \subseteq Listed

HostTyped ==
    /\ flavor \in Flavors
    /\ pending \subseteq Updates /\ IsFiniteSet(pending)
    /\ reboot \subseteq Signals /\ releases \subseteq Releases

ReportTyped ==
    report # <<>> => IsList(report[1].packages) /\ report[1].required \in BOOLEAN

\* A check under way is at a part that its platform has.
CheckTyped ==
    check # Resting =>
        /\ check \in [pc : CheckPcs, packages : {check.packages}, required : BOOLEAN,
                      errors : SUBSET {"packages", "reboot", "os"}, index : SUBSET pending,
                      due : BOOLEAN, offered : BOOLEAN]
        /\ IsList(check.packages)
        /\ check.pc # "os" => check.errors \subseteq {"packages"}
        /\ check.pc = "packages" => flavor \in {"ubuntu", "debian"}
        /\ check.pc = "list" => flavor = "ubuntu"
        /\ check.pc = "winget" => flavor = "windows"
        /\ check.pc = "reboot" => flavor # "macos"

\* Behind the packages part what stays available is listed, or the part failed; on
\* Windows half of it is, between the two tools.
ListSoFar ==
    check # Resting /\ "packages" \notin check.errors =>
        /\ check.pc = "winget" => check.index \ FromWinget \subseteq check.packages.upgrades
        /\ check.pc \in {"reboot", "os"} =>
               check.index \cap Listed \subseteq check.packages.upgrades

\* A kernel that was available or awaited a restart when the check began is still one
\* or the other, or has been counted by the parts behind it.
KernelSoFar ==
    check # Resting /\ check.due /\ check.errors = {} /\ flavor \in {"ubuntu", "windows"} =>
        CASE check.pc = "packages" -> Kernel \in check.index \/ reboot # {}
          [] check.pc = "os"       -> check.packages.security # 0 \/ check.required
          [] OTHER                 -> check.packages.security # 0 \/ reboot # {}

\* An offer is not withdrawn during a check.
OfferSoFar == check # Resting /\ check.offered => Offer

CheckersInv ==
    HostTyped /\ ReportTyped /\ CheckTyped /\ ListSoFar /\ KernelSoFar /\ OfferSoFar

-----------------------------------------------------------------------------
(* Release upgrades *)

\* What versionNumber reads: nothing, or a major and a minor number.
Numbers == {<<>>} \cup (Int \X Int)

LEMMA VersionsAreOrdered ==
    ASSUME NEW a \in Numbers, NEW b \in Numbers, NEW c \in Numbers
    PROVE  /\ ~ versionGreater(a, a)
           /\ versionGreater(a, b) /\ versionGreater(b, c) => versionGreater(a, c)
BY DEF versionGreater, Numbers

\* A list of releases that has a highest one above the host's keeps having one when a
\* release is added.
LEMMA LatestStays ==
    ASSUME NEW old \in SUBSET Releases, NEW r \in Releases,
           latestSupportedUpgrade(old) # {}
    PROVE  latestSupportedUpgrade(old \cup {r}) # {}
<1> DEFINE above(set) == {x \in set : x.supported /\ versionGreater(x.number, Current)}
           best(set) == {x \in above(set) :
                            \A y \in above(set) : ~ versionGreater(y.number, x.number)}
<1>1. latestSupportedUpgrade(old \cup {r}) = {x.number : x \in best(old \cup {r})}
  BY DEF latestSupportedUpgrade
<1>2. PICK x \in best(old) : TRUE
  BY DEF latestSupportedUpgrade
<1>3. Current \in Numbers /\ \A y \in Releases : y.number \in Numbers
  BY CheckersAssumption DEF Numbers
<1>4. CASE r \in above({r}) /\ versionGreater(r.number, x.number)
  <2>1. ASSUME NEW y \in above(old \cup {r}) PROVE ~ versionGreater(y.number, r.number)
    <3>1. CASE y = r
      BY <1>3, <3>1, VersionsAreOrdered
    <3>2. CASE y \in above(old)
      BY <1>2, <1>3, <1>4, <3>2, VersionsAreOrdered
    <3> QED
      BY <3>1, <3>2
  <2>2. r \in best(old \cup {r})
    BY <1>4, <2>1
  <2> HIDE DEF best
  <2> QED
    BY <1>1, <2>2
<1>5. CASE ~ (r \in above({r}) /\ versionGreater(r.number, x.number))
  <2>1. x \in best(old \cup {r})
    BY <1>2, <1>5
  <2> HIDE DEF best
  <2> QED
    BY <1>1, <2>1
<1> QED
  BY <1>4, <1>5

LEMMA OfferStays ==
    ASSUME NEW r \in Releases, releases \subseteq Releases, releases' = releases \cup {r},
           UNCHANGED <<flavor, prompt>>, Offer
    PROVE  Offer'
<1>1. CASE flavor = "ubuntu"
  <2>1. PICK url \in metaReleaseURL(prompt) :
            latestSupportedUpgrade(fetchMetaRelease(url)) # {}
    BY <1>1 DEF Offer
  <2>2. fetchMetaRelease(url) \in SUBSET Releases
    BY DEF fetchMetaRelease
  <2>3. \/ fetchMetaRelease(url)' = fetchMetaRelease(url)
        \/ fetchMetaRelease(url)' = fetchMetaRelease(url) \cup {r}
    BY DEF fetchMetaRelease
  <2>4. latestSupportedUpgrade(fetchMetaRelease(url)') # {}
    BY <2>1, <2>2, <2>3, LatestStays
  <2>5. url \in metaReleaseURL(prompt')
    BY <2>1
  <2> QED
    BY <1>1, <2>4, <2>5 DEF Offer, fetchMetaRelease
<1>2. CASE flavor # "ubuntu"
  BY <1>2 DEF Offer
<1> QED
  BY <1>1, <1>2

-----------------------------------------------------------------------------
(* Lists *)

\* Counts of finite sets of updates, and what the parsers make of them.
LEMMA ParsedLists ==
    ASSUME NEW rows \in SUBSET Listed, IsFiniteSet(rows), NEW security
    PROVE  /\ IsList(packageResult(rows, security))
           /\ packageResult(rows, security).upgrades = rows
           /\ packageResult(rows, security).security = 0 => rows \cap security = {}
<1>1. /\ IsFiniteSet(rows \cap security)
      /\ Cardinality(rows) \in Nat /\ Cardinality(rows \cap security) \in Nat
  BY FS_Subset, FS_CardinalityType
<1>2. Cardinality(rows \cap security) = 0 => rows \cap security = {}
  BY <1>1, FS_EmptySet
<1> QED
  BY <1>1, <1>2 DEF packageResult, IsList

LEMMA NoList == IsList(NoPackages)
  BY DEF IsList, NoPackages

LEMMA PreviousIsList == ReportTyped => IsList(Previous("packages", NoPackages))
  BY NoList DEF ReportTyped, Previous

LEMMA KernelIsListed == HostTyped /\ flavor \in {"ubuntu", "windows"} =>
    Kernel \in SecurityOnes /\ Kernel \notin FromWinget /\ Kernel \in Updates
  BY CheckersAssumption

-----------------------------------------------------------------------------
\* What a check has to show for each part, of a host it leaves alone.
HasList(pc, p, index) ==
    /\ pc = "winget" => index \ FromWinget \subseteq p.upgrades
    /\ pc \in {"reboot", "os"} => index \cap Listed \subseteq p.upgrades

HasKernel(pc, p, required, index) ==
    CASE pc = "packages" -> Kernel \in index \/ reboot # {}
      [] pc = "os"       -> p.security # 0 \/ required
      [] OTHER           -> p.security # 0 \/ reboot # {}

HasPart(pc) ==
    /\ pc \in CheckPcs
    /\ pc = "packages" => flavor \in {"ubuntu", "debian"}
    /\ pc = "list" => flavor = "ubuntu"
    /\ pc = "winget" => flavor = "windows"
    /\ pc = "reboot" => flavor # "macos"

Errors == {"packages", "reboot", "os"}

LEMMA SurroundingsKeep ==
    ASSUME HostTyped, UNCHANGED Surroundings
    PROVE  /\ HostTyped' /\ Listed' = Listed /\ (Offer <=> Offer') /\ pending' = pending
           /\ reboot' = reboot /\ flavor' = flavor
           /\ \A p : IsList(p) <=> IsList(p)'
<1> USE DEF Surroundings, hostVars
<1>1. Listed' = Listed
  BY DEF Listed
<1>2. Offer <=> Offer'
  BY DEF Offer, fetchMetaRelease
<1> QED
  BY <1>1, <1>2 DEF HostTyped, IsList, Signals

\* From the values a check has after a step on it.
LEMMA CheckMoves ==
    ASSUME CheckersInv, UNCHANGED <<Surroundings, report>>,
           NEW pc, NEW p, NEW required \in BOOLEAN, NEW errors \in SUBSET Errors,
           NEW index \in SUBSET pending, NEW due \in BOOLEAN, NEW offered \in BOOLEAN,
           check' = [pc |-> pc, packages |-> p, required |-> required, errors |-> errors,
                     index |-> index, due |-> due, offered |-> offered],
           HasPart(pc), pc # "os" => errors \subseteq {"packages"},
           IsList(p), offered => Offer,
           "packages" \notin errors => HasList(pc, p, index),
           due /\ errors = {} /\ flavor \in {"ubuntu", "windows"}
               => HasKernel(pc, p, required, index)
    PROVE  CheckersInv'
<1>1. /\ HostTyped' /\ Listed' = Listed /\ (Offer <=> Offer') /\ pending' = pending
      /\ reboot' = reboot /\ flavor' = flavor
      /\ \A q : IsList(q) <=> IsList(q)'
  BY SurroundingsKeep DEF CheckersInv
<1>2. /\ check'.pc = pc /\ check'.packages = p /\ check'.required = required
      /\ check'.errors = errors /\ check'.index = index /\ check'.due = due
      /\ check'.offered = offered
  OBVIOUS
<1>3. ReportTyped'
  BY <1>1 DEF CheckersInv, ReportTyped
<1>4. CheckTyped'
  BY <1>1, <1>2 DEF CheckTyped, HasPart, Errors
<1>5. ListSoFar' /\ KernelSoFar' /\ OfferSoFar'
  BY <1>1, <1>2 DEF ListSoFar, KernelSoFar, OfferSoFar, HasList, HasKernel
<1> QED
  BY <1>1, <1>3, <1>4, <1>5 DEF CheckersInv

LEMMA StartStep ==
    ASSUME CheckersInv, NEW pc, NEW p, NEW errors, errors \subseteq {"packages"},
           Start(pc, p, errors), HasPart(pc), pc # "os" \/ flavor = "macos", IsList(p),
           errors = {} => HasList(pc, p, pending),
           errors = {} /\ flavor \in {"ubuntu", "windows"} /\ (Kernel \in pending \/ reboot # {})
               => HasKernel(pc, p, FALSE, pending)
    PROVE  CheckersInv'
<1>1. PICK due \in BOOLEAN : due <=> (Kernel \in pending \/ reboot # {})
  OBVIOUS
<1>2. PICK offered \in BOOLEAN : offered <=> Offer
  OBVIOUS
<1>3. due = (Kernel \in pending \/ reboot # {}) /\ offered = Offer
  BY <1>1, <1>2 DEF Offer
<1>4. check' = [pc |-> pc, packages |-> p, required |-> FALSE, errors |-> errors,
                index |-> pending, due |-> due, offered |-> offered]
  BY <1>3 DEF Start
<1>5. errors \in SUBSET Errors /\ UNCHANGED <<Surroundings, report>>
      /\ pending \in SUBSET pending
  BY DEF Errors, Start
<1> QED
  BY <1>1, <1>2, <1>4, <1>5, CheckMoves

\* A check under way, taken apart.
LEMMA CheckParts ==
    ASSUME CheckersInv, check.pc \in CheckPcs
    PROVE  /\ check # Resting
           /\ check = [pc |-> check.pc, packages |-> check.packages,
                       required |-> check.required, errors |-> check.errors,
                       index |-> check.index, due |-> check.due, offered |-> check.offered]
           /\ check.required \in BOOLEAN /\ check.errors \in SUBSET Errors
           /\ check.index \in SUBSET pending /\ check.due \in BOOLEAN
           /\ check.offered \in BOOLEAN /\ IsList(check.packages) /\ HasPart(check.pc)
           /\ check.offered => Offer
           /\ check.pc # "os" => check.errors \subseteq {"packages"}
           /\ "packages" \notin check.errors => HasList(check.pc, check.packages, check.index)
           /\ check.due /\ check.errors = {} /\ flavor \in {"ubuntu", "windows"}
                => HasKernel(check.pc, check.packages, check.required, check.index)
<1>1. check # Resting
  BY DEF Resting, CheckPcs
<1> QED
  BY <1>1 DEF CheckersInv, CheckTyped, ListSoFar, KernelSoFar, OfferSoFar, HasPart,
     HasList, HasKernel, Errors

-----------------------------------------------------------------------------
(* The packages part *)

LEMMA ToStep ==
    ASSUME CheckersInv, check.pc \in CheckPcs, NEW pc, NEW p,
           NEW errors, errors \subseteq {"packages"}, To(pc, p, errors), HasPart(pc), pc # "os",
           check.pc # "os", IsList(p),
           "packages" \notin check.errors /\ errors = {} => HasList(pc, p, check.index),
           check.due /\ check.errors \cup errors = {} /\ flavor \in {"ubuntu", "windows"}
               => HasKernel(pc, p, check.required, check.index)
    PROVE  CheckersInv'
<1>1. check' = [check EXCEPT !.pc = pc, !.packages = p, !.errors = @ \cup errors]
      /\ UNCHANGED <<Surroundings, report>>
  BY DEF To
<1>2. PICK all \in SUBSET Errors : all = check.errors \cup errors
  BY CheckParts DEF Errors
<1>3. PICK required \in BOOLEAN, index \in SUBSET pending, due \in BOOLEAN, offered \in BOOLEAN :
          required = check.required /\ index = check.index /\ due = check.due
            /\ offered = check.offered
  BY CheckParts
<1>4. check' = [pc |-> pc, packages |-> p, required |-> required, errors |-> all,
                index |-> index, due |-> due, offered |-> offered]
  BY <1>1, <1>2, <1>3, CheckParts
<1>5. (offered => Offer) /\ all \subseteq {"packages"}
  BY <1>2, <1>3, CheckParts
<1>6. /\ "packages" \notin all => HasList(pc, p, index)
      /\ due /\ all = {} /\ flavor \in {"ubuntu", "windows"}
            => HasKernel(pc, p, required, index)
  BY <1>2, <1>3
<1>7. UNCHANGED <<Surroundings, report>>
  BY <1>1
<1> QED
  BY <1>4, <1>5, <1>6, <1>7, CheckMoves

\* A tool that answered, and one that failed.
LEMMA AnswerStep ==
    ASSUME CheckersInv, check.pc \in CheckPcs, NEW pc, NEW p, To(pc, p, {}), HasPart(pc),
           pc # "os", check.pc # "os", IsList(p),
           "packages" \notin check.errors => HasList(pc, p, check.index),
           check.due /\ check.errors = {} /\ flavor \in {"ubuntu", "windows"}
               => HasKernel(pc, p, check.required, check.index)
    PROVE  CheckersInv'
<1>1. PICK e : e = {}
  OBVIOUS
<1>2. To(pc, p, e) /\ e \subseteq {"packages"}
  BY <1>1
<1> QED
  BY <1>2, ToStep

LEMMA FailedStep ==
    ASSUME CheckersInv, check.pc \in CheckPcs, NEW pc, NEW p, To(pc, p, {"packages"}),
           HasPart(pc), pc # "os", check.pc # "os", IsList(p)
    PROVE  CheckersInv'
<1>1. PICK e : e = {"packages"}
  OBVIOUS
<1>2. To(pc, p, e) /\ e \subseteq {"packages"} /\ e # {}
  BY <1>1
<1> QED
  BY <1>2, ToStep

LEMMA StartedStep ==
    ASSUME CheckersInv, NEW pc, NEW p, Start(pc, p, {}), HasPart(pc),
           pc # "os" \/ flavor = "macos", IsList(p), HasList(pc, p, pending),
           flavor \in {"ubuntu", "windows"} /\ (Kernel \in pending \/ reboot # {})
               => HasKernel(pc, p, FALSE, pending)
    PROVE  CheckersInv'
<1>1. PICK e : e = {}
  OBVIOUS
<1>2. Start(pc, p, e) /\ e \subseteq {"packages"}
  BY <1>1
<1> QED
  BY <1>2, StartStep

LEMMA FailedStart ==
    ASSUME CheckersInv, NEW pc, NEW p, Start(pc, p, {"packages"}), HasPart(pc),
           pc # "os" \/ flavor = "macos", IsList(p)
    PROVE  CheckersInv'
<1>1. PICK e : e = {"packages"}
  OBVIOUS
<1>2. Start(pc, p, e) /\ e \subseteq {"packages"} /\ e # {}
  BY <1>1
<1> QED
  BY <1>2, StartStep

LEMMA FailStep ==
    ASSUME CheckersInv, check.pc \in CheckPcs, NEW pc, PackagesFail(pc), HasPart(pc),
           pc # "os", check.pc # "os"
    PROVE  CheckersInv'
<1>1. PICK p : p = Previous("packages", NoPackages)
  OBVIOUS
<1>2. To(pc, p, {"packages"})
  BY <1>1 DEF PackagesFail
<1>3. IsList(p)
  BY <1>1, PreviousIsList DEF CheckersInv
<1> QED
  BY <1>2, <1>3, FailedStep

LEMMA AptSteps ==
    CheckersInv /\ (AptUpdate \/ aptCheckCounts \/ aptListUpgradable \/ simulateDistUpgrade)
        => CheckersInv'
<1> SUFFICES ASSUME CheckersInv,
                    AptUpdate \/ aptCheckCounts \/ aptListUpgradable \/ simulateDistUpgrade
             PROVE  CheckersInv'
  OBVIOUS
<1>1. CASE AptUpdate
  <2>1. flavor \in {"ubuntu", "debian"}
    BY <1>1 DEF AptUpdate
  <2>2. CASE Start("packages", NoPackages, {})
    <3>1. HasPart("packages") /\ HasList("packages", NoPackages, pending)
          /\ (Kernel \in pending \/ reboot # {}
                => HasKernel("packages", NoPackages, FALSE, pending))
      BY <2>1 DEF HasPart, CheckPcs, HasList, HasKernel
    <3> QED
      BY <2>2, <3>1, StartedStep, NoList
  <2>3. CASE Start("reboot", Previous("packages", NoPackages), {"packages"})
    <3>1. PICK p : p = Previous("packages", NoPackages)
      OBVIOUS
    <3>2. HasPart("reboot") /\ IsList(p)
      BY <2>1, <3>1, PreviousIsList DEF HasPart, CheckPcs, CheckersInv
    <3> QED
      BY <2>3, <3>1, <3>2, FailedStart
  <2> QED
    BY <1>1, <2>2, <2>3 DEF AptUpdate
<1>2. ASSUME check.pc \in CheckPcs
      PROVE  /\ check.index \subseteq pending /\ IsFiniteSet(check.index)
             /\ IsList(check.packages)
  BY <1>2, CheckParts, FS_Subset DEF CheckersInv, HostTyped
<1>3. CASE aptCheckCounts
  <2>1. flavor = "ubuntu" /\ check.pc = "packages" /\ check.pc \in CheckPcs
    BY <1>3 DEF aptCheckCounts, CheckPcs
  <2>2. Listed = Updates /\ check.index \in SUBSET Listed
    BY <1>2, <2>1 DEF Listed, CheckersInv, HostTyped
  <2>3. HasPart("list") /\ HasPart("reboot")
    BY <2>1 DEF HasPart, CheckPcs
  <2>4. CASE To("list", parseAptCheckCounts(check.index), {})
    <3> DEFINE p == parseAptCheckCounts(check.index)
               q == packageResult(check.index, SecurityOnes)
    <3>1. IsList(q) /\ (q.security = 0 => check.index \cap SecurityOnes = {})
      BY <1>2, <2>1, <2>2, ParsedLists
    <3>2. p = [q EXCEPT !.upgrades = {}]
      BY DEF parseAptCheckCounts
    <3>3. IsList(p) /\ p.security = q.security
      BY <3>1, <3>2 DEF IsList
    <3>4. check.due /\ check.errors = {} => Kernel \in check.index \/ reboot # {}
      BY <2>1, CheckParts DEF HasKernel
    <3>5. Kernel \in SecurityOnes
      BY CheckersAssumption
    <3> HIDE DEF p, q
    <3>6. check.due /\ check.errors = {} => HasKernel("list", p, check.required, check.index)
      BY <3>1, <3>3, <3>4, <3>5 DEF HasKernel
    <3>7. HasList("list", p, check.index)
      BY DEF HasList
    <3> QED
      BY <2>1, <2>3, <2>4, <3>3, <3>6, <3>7, AnswerStep DEF p
  <2> QED
    BY <1>3, <2>1, <2>3, <2>4, FailStep DEF aptCheckCounts
<1>4. CASE aptListUpgradable
  <2>1. check.pc = "list" /\ check.pc \in CheckPcs
    BY <1>4 DEF aptListUpgradable, CheckPcs
  <2>2. flavor = "ubuntu" /\ HasPart("reboot")
    BY <2>1, CheckParts DEF HasPart, CheckPcs
  <2>3. Listed = Updates /\ check.index \subseteq Listed
    BY <1>2, <2>1, <2>2 DEF Listed, CheckersInv, HostTyped
  <2> DEFINE p == [check.packages EXCEPT !.upgrades = parseUpgradableList(check.index)]
  <2>4. CASE To("reboot", p, {})
    <3>1. p.upgrades = check.index /\ p.security = check.packages.security /\ IsList(p)
      BY <1>2, <2>1, <2>3 DEF IsList, parseUpgradableList
    <3>2. /\ HasList("reboot", p, check.index)
          /\ check.due /\ check.errors = {} => HasKernel("reboot", p, check.required, check.index)
      BY <2>1, <2>2, <3>1, CheckParts DEF HasList, HasKernel
    <3> HIDE DEF p
    <3> QED
      BY <2>1, <2>2, <2>4, <3>1, <3>2, AnswerStep
  <2> QED
    BY <1>4, <2>1, <2>2, <2>4, FailStep DEF aptListUpgradable
<1>5. CASE simulateDistUpgrade
  <2>1. flavor = "debian" /\ check.pc = "packages" /\ check.pc \in CheckPcs
    BY <1>5 DEF simulateDistUpgrade, CheckPcs
  <2>2. HasPart("reboot") /\ Listed = Updates \ Unlisted
    BY <2>1 DEF HasPart, CheckPcs, Listed
  <2>3. CASE To("reboot", parseDistUpgrade(check.index), {})
    <3>1. PICK rows \in SUBSET Listed : rows = check.index \ Unlisted
      BY <1>2, <2>1, <2>2 DEF CheckersInv, HostTyped
    <3>2. IsFiniteSet(rows)
      BY <1>2, <2>1, <3>1, FS_Subset
    <3>3. IsList(parseDistUpgrade(check.index))
          /\ parseDistUpgrade(check.index).upgrades = rows
      BY <3>1, <3>2, ParsedLists DEF parseDistUpgrade
    <3>4. HasList("reboot", parseDistUpgrade(check.index), check.index)
      BY <2>2, <3>1, <3>3 DEF HasList
    <3> QED
      BY <2>1, <2>2, <2>3, <3>3, <3>4, AnswerStep
  <2> QED
    BY <1>5, <2>1, <2>2, <2>3, FailStep DEF simulateDistUpgrade
<1> QED
  BY <1>1, <1>3, <1>4, <1>5

LEMMA MacStep == CheckersInv /\ checkOutdated => CheckersInv'
<1> SUFFICES ASSUME CheckersInv, checkOutdated PROVE CheckersInv'
  OBVIOUS
<1>1. flavor = "macos" /\ HasPart("os") /\ Listed = Updates \ Unlisted
  BY DEF checkOutdated, HasPart, CheckPcs, Listed
<1>2. CASE Start("os", parseBrewOutdated(pending), {})
  <2>1. PICK rows \in SUBSET Listed : rows = pending \ Unlisted
    BY <1>1 DEF CheckersInv, HostTyped
  <2>2. IsFiniteSet(rows)
    BY <2>1, FS_Subset DEF CheckersInv, HostTyped
  <2>3. IsList(parseBrewOutdated(pending)) /\ parseBrewOutdated(pending).upgrades = rows
    BY <2>1, <2>2, ParsedLists DEF parseBrewOutdated
  <2>4. HasList("os", parseBrewOutdated(pending), pending)
    BY <1>1, <2>1, <2>3 DEF HasList
  <2> QED
    BY <1>1, <1>2, <2>3, <2>4, StartedStep
<1>3. CASE Start("os", Previous("packages", NoPackages), {"packages"})
  <2>1. PICK p : p = Previous("packages", NoPackages)
    OBVIOUS
  <2>2. IsList(p)
    BY <2>1, PreviousIsList DEF CheckersInv
  <2> QED
    BY <1>1, <1>3, <2>1, <2>2, FailedStart
<1> QED
  BY <1>2, <1>3 DEF checkOutdated

LEMMA MergedLists ==
    ASSUME NEW a, NEW b, IsList(a), IsList(b)
    PROVE  /\ IsList(Merge(a, b)) /\ Merge(a, b).upgrades = a.upgrades \cup b.upgrades
           /\ a.security # 0 => Merge(a, b).security # 0
BY DEF IsList, Merge

LEMMA WindowsSteps ==
    CheckersInv /\ (checkWindowsUpdates \/ checkUpgradable) => CheckersInv'
<1> SUFFICES ASSUME CheckersInv, checkWindowsUpdates \/ checkUpgradable PROVE CheckersInv'
  OBVIOUS
<1>0. pending \subseteq Updates /\ IsFiniteSet(pending)
  BY DEF CheckersInv, HostTyped
<1>1. CASE checkWindowsUpdates
  <2>1. flavor = "windows" /\ HasPart("winget")
    BY <1>1 DEF checkWindowsUpdates, HasPart, CheckPcs
  <2>2. CASE Start("winget", parseWindowsUpdateJSON(pending \ FromWinget), {})
    <3>1. PICK rows \in SUBSET Listed : rows = pending \ FromWinget
      BY <1>0, <2>1 DEF Listed
    <3>2. IsFiniteSet(rows)
      BY <1>0, <3>1, FS_Subset
    <3>3. PICK p : p = parseWindowsUpdateJSON(pending \ FromWinget)
      OBVIOUS
    <3>4. IsList(p) /\ p.upgrades = rows /\ (p.security = 0 => rows \cap SecurityOnes = {})
      BY <3>1, <3>2, <3>3, ParsedLists DEF parseWindowsUpdateJSON
    <3>5. HasList("winget", p, pending)
      BY <3>1, <3>4 DEF HasList
    <3>6. Kernel \in pending \/ reboot # {} => HasKernel("winget", p, FALSE, pending)
      BY <3>1, <3>4, CheckersAssumption DEF HasKernel
    <3> QED
      BY <2>1, <2>2, <3>3, <3>4, <3>5, <3>6, StartedStep
  <2>3. CASE Start("winget", NoPackages, {"packages"})
    BY <2>1, <2>3, FailedStart, NoList
  <2> QED
    BY <1>1, <2>2, <2>3 DEF checkWindowsUpdates
<1>2. CASE checkUpgradable
  <2>1. check.pc = "winget" /\ check.pc \in CheckPcs
    BY <1>2 DEF checkUpgradable, CheckPcs
  <2>2. flavor = "windows" /\ HasPart("reboot") /\ IsList(check.packages)
    BY <2>1, CheckParts DEF HasPart, CheckPcs
  <2>3. /\ check.index \subseteq pending
        /\ "packages" \notin check.errors => check.index \ FromWinget \subseteq check.packages.upgrades
        /\ check.due /\ check.errors = {} => check.packages.security # 0 \/ reboot # {}
    BY <2>1, <2>2, CheckParts DEF HasList, HasKernel
  <2> DEFINE rest == IF check.errors # {} THEN Previous("packages", NoPackages)
                     ELSE check.packages
  <2>4. IsList(rest) /\ (check.errors = {} => rest = check.packages)
    BY <2>2, PreviousIsList DEF CheckersInv
  <2>5. CASE /\ winget
             /\ To("reboot", Merge(check.packages, parseWingetUpgrade(pending \cap FromWinget)), {})
    <3>1. PICK rows \in SUBSET Listed : rows = (pending \cap FromWinget) \ Unlisted
      BY <1>0, <2>2, <2>5 DEF Listed
    <3>2. IsFiniteSet(rows)
      BY <1>0, <3>1, FS_Subset
    <3>3. PICK b : b = parseWingetUpgrade(pending \cap FromWinget)
      OBVIOUS
    <3>4. IsList(b) /\ b.upgrades = rows
      BY <3>1, <3>2, <3>3, ParsedLists DEF parseWingetUpgrade
    <3>5. PICK p : p = Merge(check.packages, b)
      OBVIOUS
    <3>6. /\ IsList(p) /\ p.upgrades = check.packages.upgrades \cup rows
          /\ check.packages.security # 0 => p.security # 0
      BY <2>2, <3>4, <3>5, MergedLists
    <3>7. Listed = Updates \ (FromWinget \cap Unlisted)
      BY <2>2, <2>5 DEF Listed
    <3>8. "packages" \notin check.errors => HasList("reboot", p, check.index)
      BY <2>3, <3>1, <3>6, <3>7 DEF HasList
    <3>9. check.due /\ check.errors = {} => HasKernel("reboot", p, check.required, check.index)
      BY <2>3, <3>6 DEF HasKernel
    <3> QED
      BY <2>1, <2>2, <2>5, <3>3, <3>5, <3>6, <3>8, <3>9, AnswerStep
  <2>6. CASE To("reboot", rest, {"packages"})
    <3> HIDE DEF rest
    <3> QED
      BY <2>1, <2>2, <2>4, <2>6, FailedStep
  <2>7. CASE ~ winget /\ To("reboot", rest, {})
    <3>1. Listed = Updates \ FromWinget
      BY <2>2, <2>7 DEF Listed
    <3>2. check.errors # {} => "packages" \in check.errors
      BY <2>1, CheckParts
    <3>3. "packages" \notin check.errors => HasList("reboot", rest, check.index)
      BY <2>3, <2>4, <3>1, <3>2 DEF HasList
    <3>4. check.due /\ check.errors = {} => HasKernel("reboot", rest, check.required, check.index)
      BY <2>3, <2>4 DEF HasKernel
    <3> HIDE DEF rest
    <3> QED
      BY <2>1, <2>2, <2>4, <2>7, <3>3, <3>4, AnswerStep
  <2> QED
    BY <1>2, <2>5, <2>6, <2>7 DEF checkUpgradable
<1> QED
  BY <1>1, <1>2

-----------------------------------------------------------------------------
(* The reboot part and the OS part *)

LEMMA RebootStep ==
    ASSUME CheckersInv, check.pc = "reboot", NEW required \in BOOLEAN, NEW more,
           more \subseteq {"reboot"}, RebootPart(required, more),
           more = {} /\ flavor \in {"ubuntu", "windows"} /\ reboot # {} => required
    PROVE  CheckersInv'
<1>1. check' = [check EXCEPT !.pc = "os", !.required = required, !.errors = @ \cup more]
  BY DEF RebootPart
<1>2. UNCHANGED <<Surroundings, report>>
  BY DEF RebootPart
<1>3. check.pc \in CheckPcs /\ "os" # "reboot"
  BY DEF CheckPcs
<1>4. PICK all \in SUBSET Errors : all = check.errors \cup more
  BY <1>3, CheckParts DEF Errors
<1>5. PICK p : p = check.packages
  OBVIOUS
<1>6. PICK index \in SUBSET pending, due \in BOOLEAN, offered \in BOOLEAN :
          index = check.index /\ due = check.due /\ offered = check.offered
  BY <1>3, CheckParts
<1>7. check' = [pc |-> "os", packages |-> p, required |-> required, errors |-> all,
                index |-> index, due |-> due, offered |-> offered]
  BY <1>1, <1>3, <1>4, <1>5, <1>6, CheckParts
<1>8. HasPart("os") /\ IsList(p) /\ (offered => Offer)
  BY <1>3, <1>5, <1>6, CheckParts DEF HasPart, CheckPcs
<1>9. "packages" \notin all => HasList("os", p, index)
  BY <1>3, <1>4, <1>5, <1>6, CheckParts DEF HasList
<1>10. due /\ all = {} /\ flavor \in {"ubuntu", "windows"} => HasKernel("os", p, required, index)
  BY <1>3, <1>4, <1>5, <1>6, CheckParts DEF HasKernel
<1> QED
  BY <1>2, <1>7, <1>8, <1>9, <1>10, CheckMoves

LEMMA RebootSteps == CheckersInv /\ (rebootCheck \/ rebootKeys) => CheckersInv'
<1> SUFFICES ASSUME CheckersInv, rebootCheck \/ rebootKeys PROVE CheckersInv'
  OBVIOUS
<1>0. check.pc = "reboot" /\ reboot \subseteq Signals
  BY DEF rebootCheck, rebootKeys, CheckersInv, HostTyped
<1>1. CASE rebootCheck /\ RebootPart("file" \in reboot, {})
  <2>1. PICK required \in BOOLEAN : required <=> "file" \in reboot
    OBVIOUS
  <2>2. required = ("file" \in reboot)
    BY <2>1
  <2>3. RebootPart(required, {})
    BY <1>1, <2>2
  <2>4. flavor # "windows" /\ (flavor = "ubuntu" /\ reboot # {} => required)
    BY <1>0, <1>1, <2>1 DEF rebootCheck, Signals
  <2>5. PICK more : more = {}
    OBVIOUS
  <2> QED
    BY <1>0, <2>3, <2>4, <2>5, RebootStep
<1>2. CASE rebootCheck /\ RebootPart(Previous("required", FALSE), {"reboot"})
  <2>1. Previous("required", FALSE) \in BOOLEAN
    BY DEF Previous, CheckersInv, ReportTyped
  <2>2. PICK required \in BOOLEAN : required = Previous("required", FALSE)
    BY <2>1
  <2>3. PICK more : more = {"reboot"}
    OBVIOUS
  <2>4. RebootPart(required, more) /\ more # {} /\ more \subseteq {"reboot"}
    BY <1>2, <2>2, <2>3
  <2> QED
    BY <1>0, <2>4, RebootStep
<1>3. CASE rebootKeys
  <2>1. PICK required \in BOOLEAN : required <=> checkRebootRequired
    OBVIOUS
  <2>2. required = checkRebootRequired
    BY <2>1 DEF checkRebootRequired, anyRealPendingRename
  <2>3. PICK more : more = {}
    OBVIOUS
  <2>4. RebootPart(required, more)
    BY <1>3, <2>2, <2>3 DEF rebootKeys
  <2>5. flavor = "windows" /\ (reboot # {} => required)
    BY <1>0, <1>3, <2>1
       DEF rebootKeys, Signals, checkRebootRequired, anyRealPendingRename, Routine
  <2> QED
    BY <1>0, <2>3, <2>4, <2>5, RebootStep
<1> QED
  BY <1>1, <1>2, <1>3 DEF rebootCheck


\* What the property says of a check that ends.
NeedsKept ==
    LET new == report'[1] IN
    /\ \/ report = <<>> \/ "packages" \in new.errors
       \/ report[1].packages.upgrades \cap check.index \subseteq new.packages.upgrades
    /\ \/ ~ check.due \/ flavor \in {"debian", "macos"}
       \/ ~ new.ok \/ new.errors # {}
    /\ ~ check.offered \/ new.os.available \/ "os" \in new.errors

LEMMA ReturnStep ==
    ASSUME CheckersInv, check.pc = "os", NEW os, NEW more, Return(os, more),
           more \subseteq {"os"}, check.offered => os.available \/ "os" \in more
    PROVE  CheckersInv' /\ NeedsKept
<1>1. check' = Resting
  BY DEF Return
<1>2. UNCHANGED Surroundings /\ check.pc \in CheckPcs
  BY DEF Return, CheckPcs
<1>3. HostTyped' /\ \A q : IsList(q) <=> IsList(q)'
  BY <1>2, SurroundingsKeep DEF CheckersInv
<1>4. IsList(check.packages) /\ check.required \in BOOLEAN
  BY <1>2, CheckParts
<1>5. PICK ok \in BOOLEAN : ok <=> ComputeOK(check.required, check.packages, os)
  OBVIOUS
<1>6. ok = ComputeOK(check.required, check.packages, os)
  BY <1>5 DEF ComputeOK
<1>7. /\ report' # <<>>
      /\ report'[1] = [packages |-> check.packages, required |-> check.required, os |-> os,
                       errors |-> check.errors \cup more, ok |-> ok]
  BY <1>6 DEF Return
<1>8. ReportTyped'
  BY <1>3, <1>4, <1>7 DEF ReportTyped
<1>9. CheckersInv'
  BY <1>1, <1>3, <1>8 DEF CheckersInv, CheckTyped, ListSoFar, KernelSoFar, OfferSoFar
<1>10. report # <<>> => report[1].packages.upgrades \subseteq Listed
  BY DEF CheckersInv, ReportTyped, IsList
<1>11. ASSUME "packages" \notin check.errors
       PROVE  check.index \cap Listed \subseteq check.packages.upgrades
  BY <1>2, <1>11, CheckParts DEF HasList
<1>12. ASSUME check.due, check.errors = {}, flavor \in {"ubuntu", "windows"} PROVE ~ ok
  <2>1. check.packages.security # 0 \/ check.required
    BY <1>2, <1>12, CheckParts DEF HasKernel
  <2> QED
    BY <1>5, <2>1 DEF ComputeOK
<1>13. flavor \in Flavors
  BY DEF CheckersInv, HostTyped
<1>14. NeedsKept
  BY <1>7, <1>10, <1>11, <1>12, <1>13 DEF NeedsKept, Flavors
<1> QED
  BY <1>9, <1>14

LEMMA OSSteps ==
    ASSUME CheckersInv, checkOSRelease \/ macReadOSInfo \/ readOSInfo
    PROVE  CheckersInv' /\ NeedsKept
<1>1. check.pc = "os" /\ check.pc \in CheckPcs
  BY DEF checkOSRelease, macReadOSInfo, readOSInfo, CheckPcs
<1>2. check.offered => Offer
  BY <1>1, CheckParts
<1>3. ASSUME NEW os, Return(os, {"os"}) PROVE CheckersInv' /\ NeedsKept
  <2>1. PICK more : more = {"os"}
    OBVIOUS
  <2>2. Return(os, more) /\ more \subseteq {"os"} /\ "os" \in more
    BY <1>3, <2>1
  <2> QED
    BY <1>1, <2>2, ReturnStep
<1>4. ASSUME NEW os, Return(os, {}), Offer => os.available PROVE CheckersInv' /\ NeedsKept
  <2>1. PICK more : more = {}
    OBVIOUS
  <2>2. Return(os, more) /\ more \subseteq {"os"}
    BY <1>4, <2>1
  <2> QED
    BY <1>1, <1>2, <1>4, <2>2, ReturnStep
<1>5. CASE checkOSRelease
  <2>1. flavor = "ubuntu"
    BY <1>5 DEF checkOSRelease
  <2> DEFINE found == UNION {latestSupportedUpgrade(fetchMetaRelease(url)) :
                                 url \in metaReleaseURL(prompt)}
  <2>2. Offer => found # {}
    BY <2>1 DEF Offer
  <2>3. \/ found = {} /\ Return([NoOS EXCEPT !.current = TRUE], {})
        \/ \E latest \in found :
              Return([current |-> TRUE, available |-> TRUE, latest |-> latest], {})
        \/ \E read \in BOOLEAN :
              Return([Previous("os", NoOS) EXCEPT !.current = @ \/ read], {"os"})
    BY <1>5 DEF checkOSRelease
  <2> HIDE DEF found
  <2>4. CASE found = {} /\ Return([NoOS EXCEPT !.current = TRUE], {})
    BY <1>4, <2>2, <2>4
  <2>5. ASSUME NEW latest \in found,
               Return([current |-> TRUE, available |-> TRUE, latest |-> latest], {})
        PROVE  CheckersInv' /\ NeedsKept
    BY <1>4, <2>5
  <2>6. ASSUME NEW read \in BOOLEAN,
               Return([Previous("os", NoOS) EXCEPT !.current = @ \/ read], {"os"})
        PROVE  CheckersInv' /\ NeedsKept
    <3>1. PICK os : os = [Previous("os", NoOS) EXCEPT !.current = @ \/ read]
      OBVIOUS
    <3>2. Return(os, {"os"})
      BY <2>6, <3>1 DEF Return
    <3> QED
      BY <1>3, <3>2
  <2> QED
    BY <2>3, <2>4, <2>5, <2>6
<1>6. CASE macReadOSInfo
  <2>1. flavor = "macos"
    BY <1>6 DEF macReadOSInfo
  <2>2. CASE Return([current |-> TRUE, available |-> releases # {}, latest |-> <<>>], {})
    <3>1. PICK os : os = [current |-> TRUE, available |-> releases # {}, latest |-> <<>>]
      OBVIOUS
    <3>2. Return(os, {})
      BY <2>2, <3>1 DEF Return
    <3>3. Offer => os.available
      BY <2>1, <3>1 DEF Offer
    <3> QED
      BY <1>4, <3>2, <3>3
  <2>3. CASE Return(Previous("os", NoOS), {"os"})
    <3>1. PICK os : os = Previous("os", NoOS)
      OBVIOUS
    <3>2. Return(os, {"os"})
      BY <2>3, <3>1 DEF Return
    <3> QED
      BY <1>3, <3>2
  <2> QED
    BY <1>6, <2>2, <2>3 DEF macReadOSInfo
<1>7. CASE readOSInfo
  <2>1. ~ Offer
    BY <1>7 DEF readOSInfo, Offer
  <2>2. CASE Return([NoOS EXCEPT !.current = TRUE], {})
    BY <1>4, <2>1, <2>2
  <2>3. CASE Return(Previous("os", NoOS), {"os"})
    <3>1. PICK os : os = Previous("os", NoOS)
      OBVIOUS
    <3>2. Return(os, {"os"})
      BY <2>3, <3>1 DEF Return
    <3> QED
      BY <1>3, <3>2
  <2> QED
    BY <1>7, <2>2, <2>3 DEF readOSInfo
<1> QED
  BY <1>5, <1>6, <1>7

-----------------------------------------------------------------------------
(* The host, and the whole *)

LEMMA WorldSteps ==
    ASSUME CheckersInv, NEW u \in Updates,
           \/ UpdateAppears(u) \/ UpdateInstalled(u) \/ HostRestarts
           \/ \E r \in Releases : ReleaseAppears(r)
    PROVE  CheckersInv' /\ (check # Resting => check' # Resting) /\ report' = report
<1>0. /\ UNCHANGED <<flavor, prompt, winget, report>> /\ Listed' = Listed
      /\ Signals' = Signals
      /\ \A q : IsList(q) <=> IsList(q)'
  BY DEF UpdateAppears, UpdateInstalled, HostRestarts, ReleaseAppears, Listed, IsList, Signals
<1>1. ReportTyped'
  BY <1>0 DEF CheckersInv, ReportTyped
<1>2. CASE UpdateAppears(u)
  <2>1. pending' = pending \cup {u} /\ UNCHANGED <<check, reboot, releases>>
    BY <1>2 DEF UpdateAppears
  <2>2. HostTyped'
    BY <1>0, <2>1, FS_AddElement DEF CheckersInv, HostTyped
  <2>3. CheckTyped'
    BY <1>0, <2>1 DEF CheckersInv, CheckTyped
  <2>4. Offer <=> Offer'
    BY <1>0, <2>1 DEF Offer, fetchMetaRelease
  <2>5. ListSoFar' /\ KernelSoFar' /\ OfferSoFar'
    BY <1>0, <2>1, <2>4 DEF CheckersInv, ListSoFar, KernelSoFar, OfferSoFar
  <2> QED
    BY <1>0, <1>1, <2>1, <2>2, <2>3, <2>5 DEF CheckersInv
<1>3. CASE UpdateInstalled(u)
  <2>1. /\ pending' = pending \ {u} /\ UNCHANGED releases
        /\ reboot \subseteq reboot' /\ reboot' \subseteq Signals
        /\ u = Kernel /\ flavor \in {"ubuntu", "windows"} => reboot' # {}
    BY <1>3 DEF UpdateInstalled, CheckersInv, HostTyped
  <2>2. HostTyped'
    BY <1>0, <2>1, FS_Subset DEF CheckersInv, HostTyped
  <2>3. Offer <=> Offer'
    BY <1>0, <2>1 DEF Offer, fetchMetaRelease
  <2>4. CASE check = Resting
    <3>1. check' = Resting
      BY <1>3, <2>4 DEF UpdateInstalled
    <3> QED
      BY <1>0, <1>1, <2>2, <2>4, <3>1
         DEF CheckersInv, CheckTyped, ListSoFar, KernelSoFar, OfferSoFar
  <2>5. CASE check # Resting
    <3>1. check' = [check EXCEPT !.index = @ \ {u}]
      BY <1>3, <2>5 DEF UpdateInstalled
    <3>2. check.pc \in CheckPcs
      BY <2>5 DEF CheckersInv, CheckTyped
    <3>3. /\ check'.pc = check.pc /\ check'.packages = check.packages
          /\ check'.required = check.required /\ check'.errors = check.errors
          /\ check'.index = check.index \ {u} /\ check'.due = check.due
          /\ check'.offered = check.offered
      BY <3>1, <3>2, CheckParts
    <3>4. check' # Resting
      BY <3>2, <3>3 DEF Resting, CheckPcs
    <3>5. CheckTyped'
      <4>1. check'.index \subseteq pending'
        BY <2>1, <3>2, <3>3, CheckParts
      <4>2. check' \in [pc : CheckPcs, packages : {check'.packages}, required : BOOLEAN,
                        errors : SUBSET {"packages", "reboot", "os"},
                        index : SUBSET pending', due : BOOLEAN, offered : BOOLEAN]
        BY <2>5, <3>1, <3>3, <4>1 DEF CheckersInv, CheckTyped
      <4> QED
        BY <1>0, <2>5, <3>3, <4>2 DEF CheckersInv, CheckTyped
    <3>6. ListSoFar' /\ OfferSoFar'
      BY <1>0, <2>3, <2>5, <3>3 DEF CheckersInv, ListSoFar, OfferSoFar
    <3>7. KernelSoFar'
      BY <1>0, <2>1, <2>5, <3>3 DEF CheckersInv, KernelSoFar
    <3> QED
      BY <1>0, <1>1, <2>2, <3>4, <3>5, <3>6, <3>7 DEF CheckersInv
  <2> QED
    BY <2>4, <2>5
<1>4. CASE HostRestarts
  <2>1. check = Resting /\ check' = Resting /\ reboot' = {} /\ UNCHANGED <<pending, releases>>
    BY <1>4 DEF HostRestarts
  <2>2. HostTyped'
    BY <1>0, <2>1 DEF CheckersInv, HostTyped
  <2> QED
    BY <1>0, <1>1, <2>1, <2>2
       DEF CheckersInv, CheckTyped, ListSoFar, KernelSoFar, OfferSoFar
<1>5. ASSUME NEW r \in Releases, ReleaseAppears(r)
      PROVE  CheckersInv' /\ (check # Resting => check' # Resting) /\ report' = report
  <2>1. releases' = releases \cup {r} /\ UNCHANGED <<check, pending, reboot>>
        /\ releases \subseteq Releases
    BY <1>5 DEF ReleaseAppears, CheckersInv, HostTyped
  <2>2. HostTyped'
    BY <1>0, <2>1 DEF CheckersInv, HostTyped
  <2>3. Offer => Offer'
    BY <1>0, <2>1, OfferStays
  <2>4. CheckTyped'
    BY <1>0, <2>1 DEF CheckersInv, CheckTyped
  <2>5. ListSoFar' /\ KernelSoFar' /\ OfferSoFar'
    BY <1>0, <2>1, <2>3 DEF CheckersInv, ListSoFar, KernelSoFar, OfferSoFar
  <2> QED
    BY <1>0, <1>1, <2>1, <2>2, <2>4, <2>5 DEF CheckersInv
<1> QED
  BY <1>2, <1>3, <1>4, <1>5

LEMMA CheckersInit == InitCheckers => CheckersInv
<1> SUFFICES ASSUME InitCheckers PROVE CheckersInv
  OBVIOUS
<1>1. flavor \in Flavors
  BY DEF InitCheckers, Detect, Flavors
<1>2. reboot \subseteq Signals /\ pending = {} /\ releases = {} /\ report = <<>>
      /\ check = Resting
  BY DEF InitCheckers
<1> QED
  BY <1>1, <1>2, FS_EmptySet
     DEF CheckersInv, HostTyped, ReportTyped, CheckTyped, ListSoFar, KernelSoFar, OfferSoFar

LEMMA StaysUnderWay ==
    ASSUME CheckersInv,
           \/ AptUpdate \/ aptCheckCounts \/ aptListUpgradable \/ simulateDistUpgrade
           \/ checkOutdated \/ checkWindowsUpdates \/ checkUpgradable
           \/ rebootCheck \/ rebootKeys
    PROVE  check = Resting \/ check' # Resting
<1> SUFFICES ASSUME check # Resting PROVE check' # Resting
  OBVIOUS
<1>1. check.pc \in CheckPcs
  BY DEF CheckersInv, CheckTyped
<1>2. CASE AptUpdate \/ checkOutdated \/ checkWindowsUpdates
  BY <1>2 DEF AptUpdate, checkOutdated, checkWindowsUpdates, Start
<1>3. CASE aptCheckCounts \/ aptListUpgradable \/ simulateDistUpgrade \/ checkUpgradable
  <2>1. CASE aptCheckCounts
    BY <1>1, <2>1, CheckParts DEF aptCheckCounts, PackagesFail, To, CheckPcs, Resting
  <2>2. CASE aptListUpgradable
    BY <1>1, <2>2, CheckParts DEF aptListUpgradable, PackagesFail, To, CheckPcs, Resting
  <2>3. CASE simulateDistUpgrade
    BY <1>1, <2>3, CheckParts DEF simulateDistUpgrade, PackagesFail, To, CheckPcs, Resting
  <2>4. CASE checkUpgradable
    BY <1>1, <2>4, CheckParts DEF checkUpgradable, To, CheckPcs, Resting
  <2> QED
    BY <1>3, <2>1, <2>2, <2>3, <2>4
<1>4. CASE rebootCheck \/ rebootKeys
  <2>1. \E required, errors :
            check' = [check EXCEPT !.pc = "os", !.required = required, !.errors = errors]
    BY <1>4 DEF rebootCheck, rebootKeys, RebootPart
  <2>2. check'.pc = "os"
    BY <1>1, <2>1, CheckParts
  <2> QED
    BY <2>2 DEF Resting
<1> QED
  BY <1>2, <1>3, <1>4

LEMMA CheckersStep ==
    ASSUME CheckersInv, CheckersNext
    PROVE  CheckersInv' /\ (check # Resting /\ check' = Resting => NeedsKept)
<1>1. Kernel \in Updates
  BY CheckersAssumption
<1>2. CASE \/ \E u \in Updates : UpdateAppears(u) \/ UpdateInstalled(u)
           \/ HostRestarts \/ \E r \in Releases : ReleaseAppears(r)
  BY <1>1, <1>2, WorldSteps
<1>3. CASE checkOSRelease \/ macReadOSInfo \/ readOSInfo
  BY <1>3, OSSteps
<1>4. CASE \/ AptUpdate \/ aptCheckCounts \/ aptListUpgradable \/ simulateDistUpgrade
           \/ checkOutdated \/ checkWindowsUpdates \/ checkUpgradable
           \/ rebootCheck \/ rebootKeys
  BY <1>4, AptSteps, MacStep, WindowsSteps, RebootSteps, StaysUnderWay
<1> QED
  BY <1>2, <1>3, <1>4 DEF CheckersNext, CheckStep

\* What a host needs is not lost between the parts of a check, for every platform, any
\* updates and releases, whatever happens to the host meanwhile and whichever parts fail
\* (Check of the four platforms; HiddenNeedHasError says what is kept).
THEOREM NeedsAreKept == CheckersSpec => HiddenNeedHasError
<1>1. CheckersInv /\ [CheckersNext]_checkersVars => CheckersInv'
  <2>1. ASSUME CheckersInv, UNCHANGED checkersVars PROVE CheckersInv'
    <3>1. Surroundings' = Surroundings /\ check' = check /\ report' = report
      BY <2>1 DEF checkersVars, Surroundings, hostVars
    <3>2. /\ HostTyped' /\ (Offer <=> Offer') /\ Listed' = Listed
          /\ \A q : IsList(q) <=> IsList(q)'
      BY <2>1, <3>1, SurroundingsKeep DEF CheckersInv
    <3> QED
      BY <2>1, <3>1, <3>2 DEF checkersVars, hostVars, CheckersInv, ReportTyped, CheckTyped,
         ListSoFar, KernelSoFar, OfferSoFar
  <2> QED
    BY <2>1, CheckersStep
<1>2. CheckersInv /\ [CheckersNext]_checkersVars
        => [check # Resting /\ check' = Resting => NeedsKept]_checkersVars
  BY CheckersStep
<1> QED
  BY <1>1, <1>2, CheckersInit, PTL DEF CheckersSpec, HiddenNeedHasError, NeedsKept
=============================================================================
