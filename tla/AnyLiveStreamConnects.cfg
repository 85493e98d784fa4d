CONSTANTS
    NoConn = NoConn
    AgentConns = {a1, a2}
    CompanionConns = {c1, c2}
    MaxActions = 2
    ChanCap = 1
    PostMayFail = TRUE
SPECIFICATION Spec
CHECK_DEADLOCK FALSE
INVARIANT AnyLiveStreamConnects
