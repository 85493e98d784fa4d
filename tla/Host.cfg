SPECIFICATION MCSpec
CONSTANTS
  KBs = {k1}
  Others = {o1}
  Greedy = {o1}
  MaxVersion = 2
  MaxArrivals = 1
  MaxFaults = 1
  EmptyBodies = FALSE
  MaxChecks = 4
  MaxPending = 2
INVARIANTS
  HostTypeOK
  StaleStatusHasRecheck
  
  CompanionDownHasCause
  
  LoopTypeOK
  RecheckIsComing
PROPERTIES
  RiseIsAnnounced
