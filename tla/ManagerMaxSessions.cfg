SPECIFICATION Spec
CONSTANTS
    c1 = c1
    c2 = c2
    b1 = b1
    b2 = b2
    a1 = a1
    a2 = a2
    Conns <- TwoConns
    Broadcasts <- OneBroadcast
    Addrs <- TwoAddrs
    None = None
    Mode = {"plain", "ssl"}
    MaxSessions = 1
    MsgMax = 1
INVARIANT MaxSessionsKept
CHECK_DEADLOCK FALSE
