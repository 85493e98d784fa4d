CONSTANTS
    NoConn = NoConn
    AgentConns = {a1, a2}
    CompanionConns = {c1, c2}
    MaxActions = 1
    ChanCap = 1
    PostMayFail = FALSE
SPECIFICATION FairSpec
PROPERTIES
    MarkerResolves
