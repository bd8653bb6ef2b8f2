\* Two threads, two attempts.
SPECIFICATION FairSpec
CONSTANTS
    t1 = t1
    t2 = t2
    Callers <- TwoCallers
    Attempts = 2
    None = None
INVARIANTS
    ExpiredGone
    NothingLeft
    HandshakeGuarded
    WriterServed
PROPERTIES
    WriterReturns
    DisconnectReturns
    RefinesClientLife
CHECK_DEADLOCK FALSE
