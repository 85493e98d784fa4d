CONSTANTS
    Browsers = {b1}
    MaxActions = 2
    MaxLines <- LongAndShort
    SinkCap = 1
    SubCap = 1
    MaxPane = 2
SPECIFICATION Spec
INVARIANTS
    TypeOK
    SinkAccountsForAll
    WatcherSeesAll
