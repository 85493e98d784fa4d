CONSTANTS
    Browsers = {b1}
    MaxActions = 2
    MaxLines <- TwoShort
    SinkCap = 1
    SubCap = 2
    MaxPane = 4
SPECIFICATION FairSpec
INVARIANT NothingAfterEnd
PROPERTY EndReachesPage
