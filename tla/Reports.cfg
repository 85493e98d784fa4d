CONSTANTS
    MaxReports = 3
    MaxUpdates = 2
SPECIFICATION Spec
INVARIANTS
    TypeOK
    DecisionHolds
    RiseReachesBot
