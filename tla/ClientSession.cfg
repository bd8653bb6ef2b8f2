\* One send_recv and two sends that share a write queue of two entries.
SPECIFICATION FairSpec
CONSTANTS
    c1 = c1
    s1 = s1
    s2 = s2
    Calls <- OneRecv
    SendCalls <- TwoSend
    NoCall = NoCall
    CloseReq = CloseReq
    MaxEntries = 1
    MaxId = 1
    SendMax = 2
INVARIANTS
    OneWrite
    DataReleased
    LossServed
PROPERTIES
    AnsweredReturns
    QueuedResolved
    LossWakesSleepers
    SessionEnds
CHECK_DEADLOCK FALSE
