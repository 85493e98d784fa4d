CONSTANTS
    NoConn = NoConn
    AgentConns = {a1}
    CompanionConns = {c1}
    MaxActions = 2
    ChanCap = 1
    PostMayFail = TRUE
SPECIFICATION OutSpec
INVARIANT
    DisconnectedHasCause
PROPERTY
    EndsOnce
