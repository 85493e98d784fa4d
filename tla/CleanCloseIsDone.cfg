CONSTANTS
    NoConn = NoConn
    AgentConns = {a1}
    CompanionConns = {c1}
    MaxActions = 1
    ChanCap = 1
    PostMayFail = FALSE
SPECIFICATION OutSpec
CHECK_DEADLOCK FALSE
INVARIANT CleanCloseIsDone
