SPECIFICATION Spec
CONSTANTS
  Buttons = {b1}
  MaxPresses = 2
  MaxLost = 1
  MaxBotRestarts = 1
  Admins = {a1}
  Initially <- MCInitially
  Later <- MCLater
  ConfiguredChannel = "beta"
  Offered = {"beta", "release", "nightly"}
  MaxRequests = 1
  MaxFetchFailures = 1
  Editors = {e1, e2}
  Hosts = {h1}
  Tokens = {"t1", "t2"}
  Graces = {"5m", "1h"}
  MaxEdits = 3
  MaxFailures = 2
  MaxIds = 2
  MaxDecisions = 3
  MaxCrashes = 3
  Builds = {"linux", "darwin", "windows"}
  HostIDs = {"ubuntu", "raspbian", ""}
  Updates = {u1, u2, u3}
  Kernel = u1
  SecurityOnes = {u1}
  FromWinget = {u2}
  Unlisted = {u3}
  Releases <- MCReleases
  Current <- MCCurrent
  Prompts = {"never", "normal", "none"}
  MaxWorld = 2
  MaxFaults = 1
  MaxChanges = 1
  MaxActions = 1
  MaxPageFaults = 1
  MaxAfter = 3
  MaxMute = 2
  MaxGap = 2
  MaxRestarts = 1
INVARIANTS
  
  OneIdentityPerHost
  WatchTypeOK
  OneAlertPerOutage
PROPERTIES
  PressIsHandled
  LatestSettlesHere
  HiddenNeedHasError
  PageKeepsUp
  AlertAfterGrace
  RecoveryPairsAlert
  DueAlertIsSent
  OutageIsAnnounced
CHECK_DEADLOCK FALSE
