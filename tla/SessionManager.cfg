\* Two connections, two addresses, two concurrent broadcasts with a limit of one.
SPECIFICATION Spec
CONSTANTS
    c1 = c1
    c2 = c2
    b1 = b1
    b2 = b2
    a1 = a1
    a2 = a2
    Conns <- TwoConns
    Broadcasts <- TwoBroadcasts
    Addrs <- TwoAddrs
    None = None
    Mode = {"plain", "ssl"}
    MaxSessions = 1
    MsgMax = 1
SYMMETRY ManagerSymmetry
INVARIANTS
    RegistryExact
    NoDeadReceiver
    MessagesCounted
    BroadcastReaches
    SessionLimit
CHECK_DEADLOCK FALSE
